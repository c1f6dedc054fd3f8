----------------------- MODULE ReplicationStreamProofs ----------------------
(***************************************************************************)
(* The two tiers of the replication agree.  On a delta: whatever the       *)
(* tables, the client accepts the delta of two tables on the first and     *)
(* lands on the second.  On a stream: whatever overflows and is dropped,   *)
(* the frames of the queue take the client to the tracker's table, and     *)
(* the client refuses no acknowledgement.  For any entities, states and    *)
(* casts, any capacity of the queue and any length of the run.             *)
(***************************************************************************)
EXTENDS ReplicationStream, TLAPS, FiniteSetTheorems, WellFoundedInduction

-----------------------------------------------------------------------------
\* One delta.

\* A table is two functions, and only replicated entities cast.
LEMMA TableShape ==
  ASSUME NEW t \in Tables
  PROVE  /\ t = [entities |-> t.entities, casts |-> t.casts]
         /\ t.entities = [i \in DOMAIN t.entities |-> t.entities[i]]
         /\ t.casts = [i \in DOMAIN t.casts |-> t.casts[i]]
         /\ DOMAIN t.casts \subseteq DOMAIN t.entities
<1>1. PICK present \in SUBSET Ids :
        t \in [entities : [present -> States], casts : UNION {[casting -> Casts] : casting \in SUBSET present}]
  BY DEF Tables
<1>2. PICK casting \in SUBSET present : t.casts \in [casting -> Casts]
  BY <1>1
<1> QED
  BY <1>1, <1>2

\* The client (replica_store.gd, _apply_delta) accepts the delta the tracker
\* (snapshot.go, Update) derives from the table the client holds.
THEOREM DeltaApplies ==
  ASSUME NEW prev \in Tables, NEW next \in Tables
  PROVE  Applies(Delta(prev, next), prev)
BY TableShape DEF Applies, Delta, New, Changed, Restrict

\* Folding the entities of a delta gives those of the new table.
LEMMA EntitiesFold ==
  ASSUME NEW prev \in Tables, NEW next \in Tables
  PROVE  Fold(prev, Delta(prev, next)).entities = next.entities
<1> DEFINE d == Delta(prev, next)
           present == Overlay(Overlay(prev.entities, d.entered), d.moved)
<1>1. /\ DOMAIN d.entered = DOMAIN next.entities \ DOMAIN prev.entities
      /\ \A i \in DOMAIN d.entered : d.entered[i] = next.entities[i]
  BY DEF Delta, New, Restrict
<1>2. /\ DOMAIN d.moved = Changed(prev.entities, next.entities)
      /\ \A i \in DOMAIN d.moved : d.moved[i] = next.entities[i]
  BY DEF Delta, Restrict
<1>3. d.left = DOMAIN prev.entities \ DOMAIN next.entities
  BY DEF Delta, New
<1>4. DOMAIN present = DOMAIN prev.entities \cup DOMAIN next.entities
  BY <1>1, <1>2 DEF Overlay, Changed
<1>5. \A i \in DOMAIN next.entities : present[i] = next.entities[i]
  BY <1>1, <1>2 DEF Overlay, Changed
<1>6. Fold(prev, d).entities = [i \in DOMAIN present \ d.left |-> present[i]]
  BY DEF Fold, Restrict
<1>7. DOMAIN present \ d.left = DOMAIN next.entities
  BY <1>3, <1>4
<1> HIDE DEF d, present
<1>8. Fold(prev, d).entities = [i \in DOMAIN next.entities |-> next.entities[i]]
  BY <1>5, <1>6, <1>7
<1> QED
  BY <1>8, TableShape DEF d

\* Folding the casts of a delta gives those of the new table.
LEMMA CastsFold ==
  ASSUME NEW prev \in Tables, NEW next \in Tables
  PROVE  Fold(prev, Delta(prev, next)).casts = next.casts
<1> DEFINE d == Delta(prev, next)
           kept == Restrict(prev.casts, DOMAIN prev.casts \ d.ended)
<1>1. /\ DOMAIN d.started = New(prev.casts, next.casts) \cup Changed(prev.casts, next.casts)
      /\ \A i \in DOMAIN d.started : d.started[i] = next.casts[i]
  BY DEF Delta, Restrict
<1>2. d.ended = New(next.casts, prev.casts) \cup Changed(prev.casts, next.casts)
  BY DEF Delta
<1>3. /\ DOMAIN kept = DOMAIN prev.casts \ d.ended
      /\ \A i \in DOMAIN kept : kept[i] = prev.casts[i]
  BY DEF Restrict
<1>4. Fold(prev, d).casts = Overlay(kept, d.started)
  BY DEF Fold
<1> HIDE DEF d, kept
<1>5. DOMAIN kept \cup DOMAIN d.started = DOMAIN next.casts
  BY <1>1, <1>2, <1>3 DEF New, Changed
<1>6. \A i \in DOMAIN next.casts : IF i \in DOMAIN d.started THEN d.started[i] = next.casts[i] ELSE kept[i] = next.casts[i]
  BY <1>1, <1>2, <1>3 DEF New, Changed
<1>7. Overlay(kept, d.started) = [i \in DOMAIN next.casts |-> next.casts[i]]
  BY <1>5, <1>6 DEF Overlay
<1> QED
  BY <1>4, <1>7, TableShape DEF d

\* The client lands on the table the tracker saw.
THEOREM DeltaFolds ==
  ASSUME NEW prev \in Tables, NEW next \in Tables
  PROVE  Fold(prev, Delta(prev, next)) = next
<1>1. Fold(prev, Delta(prev, next)) =
        [entities |-> Fold(prev, Delta(prev, next)).entities, casts |-> Fold(prev, Delta(prev, next)).casts]
  BY DEF Fold
<1> QED
  BY <1>1, EntitiesFold, CastsFold, TableShape

\* A table without its casts is a table.
LEMMA LegacyTable ==
  ASSUME NEW t \in Tables
  PROVE  /\ ProjectTable(t, TRUE) \in Tables
         /\ ProjectTable(t, TRUE).entities = t.entities
         /\ ProjectTable(t, TRUE).casts = Empty.casts
<1>1. PICK present \in SUBSET Ids :
        t \in [entities : [present -> States], casts : UNION {[casting -> Casts] : casting \in SUBSET present}]
  BY DEF Tables
<1> DEFINE u == ProjectTable(t, TRUE)
<1>2. u = [entities |-> t.entities, casts |-> Empty.casts]
  BY <1>1 DEF ProjectTable
<1>3. Empty.casts \in [{} -> Casts]
  BY DEF Empty
<1>4. Empty.casts \in UNION {[casting -> Casts] : casting \in SUBSET present}
  BY <1>3
<1>5. t.entities \in [present -> States]
  BY <1>1
<1> HIDE DEF u
<1>6. u \in [entities : [present -> States], casts : UNION {[casting -> Casts] : casting \in SUBSET present}]
  BY <1>2, <1>4, <1>5
<1>7. u \in Tables
  BY <1>6 DEF Tables
<1>8. u.entities = t.entities /\ u.casts = Empty.casts
  BY <1>2
<1> QED
  BY <1>7, <1>8 DEF u

\* A peer of the version without casts keeps the table without casts: what
\* projectDeltaForVersion leaves is the delta of the projected tables.
THEOREM LegacyDeltaFolds ==
  ASSUME NEW prev \in Tables, NEW next \in Tables
  PROVE  LET d == ProjectDelta(Delta(prev, next), TRUE)
             t == ProjectTable(prev, TRUE)
         IN  Applies(d, t) /\ Fold(t, d) = ProjectTable(next, TRUE)
<1> DEFINE t == ProjectTable(prev, TRUE)
           u == ProjectTable(next, TRUE)
<1>1. DOMAIN Empty.casts = {}
  BY DEF Empty
<1>2. Delta(t, u).started = Empty.casts
  <2>1. Delta(t, u).started = Restrict(u.casts, {})
    BY <1>1, LegacyTable DEF Delta, New, Changed
  <2> QED
    BY <2>1 DEF Restrict, Empty
<1>3. Delta(t, u).ended = {}
  BY <1>1, LegacyTable DEF Delta, New, Changed
<1>4. ProjectDelta(Delta(prev, next), TRUE) =
        [entered |-> Delta(prev, next).entered, moved |-> Delta(prev, next).moved,
         left |-> Delta(prev, next).left, started |-> Empty.casts, ended |-> {}]
  BY DEF ProjectDelta, Delta
<1>5. Delta(t, u) = [entered |-> Delta(prev, next).entered, moved |-> Delta(prev, next).moved,
                     left |-> Delta(prev, next).left, started |-> Delta(t, u).started, ended |-> Delta(t, u).ended]
  BY LegacyTable DEF Delta
<1>6. ProjectDelta(Delta(prev, next), TRUE) = Delta(t, u)
  BY <1>2, <1>3, <1>4, <1>5
<1>7. t \in Tables /\ u \in Tables
  BY LegacyTable
<1> QED
  BY <1>6, <1>7, DeltaApplies, DeltaFolds

-----------------------------------------------------------------------------
\* Types.

\* A table is put together from its two maps.
LEMMA TableTyped ==
  ASSUME NEW present \in SUBSET Ids, NEW casting \in SUBSET present,
         NEW e \in [present -> States], NEW k \in [casting -> Casts]
  PROVE  [entities |-> e, casts |-> k] \in Tables
<1>1. k \in UNION {[c -> Casts] : c \in SUBSET present}
  OBVIOUS
<1>2. [entities |-> e, casts |-> k] \in
        [entities : [present -> States], casts : UNION {[c -> Casts] : c \in SUBSET present}]
  BY <1>1
<1> QED  BY <1>2 DEF Tables

\* What a table is made of.
LEMMA TableParts ==
  ASSUME NEW t \in Tables
  PROVE  /\ DOMAIN t.entities \in SUBSET Ids /\ DOMAIN t.casts \in SUBSET DOMAIN t.entities
         /\ t.entities \in [DOMAIN t.entities -> States]
         /\ t.casts \in [DOMAIN t.casts -> Casts]
<1>1. PICK present \in SUBSET Ids :
        t \in [entities : [present -> States], casts : UNION {[casting -> Casts] : casting \in SUBSET present}]
  BY DEF Tables
<1>2. PICK casting \in SUBSET present : t.casts \in [casting -> Casts]
  BY <1>1
<1> QED  BY <1>1, <1>2

\* The empty table is one, and has nobody in it.
LEMMA EmptyTable == Empty \in Tables /\ DOMAIN Empty.casts = {} /\ Empty.casts \in [{} -> Casts]
<1>1. Empty.entities \in [{} -> States] /\ Empty.casts \in [{} -> Casts]
  BY DEF Empty
<1>2. [entities |-> Empty.entities, casts |-> Empty.casts] \in Tables
  BY <1>1, TableTyped
<1> QED  BY <1>1, <1>2 DEF Empty

\* A map of some of the entities.
LEMMA PartialTyped ==
  ASSUME NEW V, NEW D \in SUBSET Ids, NEW f \in [D -> V]
  PROVE  f \in PartialMaps(V)
BY DEF PartialMaps

\* The delta of two tables is a delta, also as a legacy peer gets it.
LEMMA DeltaTyped ==
  ASSUME NEW prev \in Tables, NEW next \in Tables, NEW legacy \in BOOLEAN
  PROVE  ProjectDelta(Delta(prev, next), legacy) \in Deltas
<1> DEFINE d == Delta(prev, next)
<1>1. \A D \in SUBSET DOMAIN next.entities : Restrict(next.entities, D) \in PartialMaps(States)
  <2> SUFFICES ASSUME NEW D \in SUBSET DOMAIN next.entities
               PROVE  Restrict(next.entities, D) \in PartialMaps(States)
    OBVIOUS
  <2>1. Restrict(next.entities, D) \in [D -> States]
    BY TableParts DEF Restrict
  <2> QED  BY <2>1, TableParts, PartialTyped
<1>2. \A D \in SUBSET DOMAIN next.casts : Restrict(next.casts, D) \in PartialMaps(Casts)
  <2> SUFFICES ASSUME NEW D \in SUBSET DOMAIN next.casts
               PROVE  Restrict(next.casts, D) \in PartialMaps(Casts)
    OBVIOUS
  <2>1. Restrict(next.casts, D) \in [D -> Casts]
    BY TableParts DEF Restrict
  <2> QED  BY <2>1, TableParts, PartialTyped
<1>3. /\ d.entered \in PartialMaps(States) /\ d.moved \in PartialMaps(States)
      /\ d.started \in PartialMaps(Casts)
  BY <1>1, <1>2 DEF Delta, New, Changed
<1>4. d.left \in SUBSET Ids /\ d.ended \in SUBSET Ids
  BY TableParts DEF Delta, New, Changed
<1>5. Empty.casts \in PartialMaps(Casts)
  BY EmptyTable, PartialTyped
<1>6. d \in Deltas
  BY <1>3, <1>4 DEF Deltas, Delta
<1> HIDE DEF d
<1> QED  BY <1>5, <1>6 DEF Deltas, ProjectDelta, d

\* A legacy peer's table is a table.
LEMMA ProjectTyped ==
  ASSUME NEW t \in Tables, NEW legacy \in BOOLEAN PROVE ProjectTable(t, legacy) \in Tables
BY LegacyTable DEF ProjectTable

\* A delta that applies leaves a table a table.
LEMMA FoldTyped ==
  ASSUME NEW t \in Tables, NEW d \in Deltas, Applies(d, t)
  PROVE  Fold(t, d) \in Tables
<1>1. PICK E \in SUBSET Ids : d.entered \in [E -> States]
  BY DEF Deltas, PartialMaps
<1>2. PICK M \in SUBSET Ids : d.moved \in [M -> States]
  BY DEF Deltas, PartialMaps
<1>3. PICK S \in SUBSET Ids : d.started \in [S -> Casts]
  BY DEF Deltas, PartialMaps
<1> DEFINE present == Overlay(Overlay(t.entities, d.entered), d.moved)
           kept == Restrict(t.casts, DOMAIN t.casts \ d.ended)
           P == (DOMAIN t.entities \cup E \cup M) \ d.left
           K == (DOMAIN t.casts \ d.ended) \cup S
<1>4. present \in [DOMAIN t.entities \cup E \cup M -> States]
  BY <1>1, <1>2, TableParts DEF Overlay
<1>5. Restrict(present, DOMAIN present \ d.left) \in [P -> States]
  BY <1>4 DEF Restrict
<1>6. kept \in [DOMAIN t.casts \ d.ended -> Casts]
  BY TableParts DEF Restrict
<1>7. Overlay(kept, d.started) \in [K -> Casts]
  BY <1>3, <1>6 DEF Overlay
<1>8. P \in SUBSET Ids
  BY TableParts
<1>9. K \in SUBSET P
  BY <1>1, <1>2, <1>3, TableParts DEF Applies
<1> HIDE DEF present, kept, P, K
<1>10. [entities |-> Restrict(present, DOMAIN present \ d.left),
        casts |-> Overlay(kept, d.started)] \in Tables
  BY <1>5, <1>7, <1>8, <1>9, TableTyped
<1> QED  BY <1>10 DEF Fold, present, kept

\* The tracker's delta as the peer gets it leads from the one table to the
\* other, as the peer sees them.
LEMMA ProjectedDelta ==
  ASSUME NEW prev \in Tables, NEW next \in Tables, NEW legacy \in BOOLEAN
  PROVE  LET d == ProjectDelta(Delta(prev, next), legacy)
             t == ProjectTable(prev, legacy)
         IN  Applies(d, t) /\ Fold(t, d) = ProjectTable(next, legacy)
<1>1. CASE legacy
  BY <1>1, LegacyDeltaFolds
<1>2. CASE ~legacy
  BY <1>2, DeltaApplies, DeltaFolds DEF ProjectDelta, ProjectTable
<1> QED  BY <1>1, <1>2

\* An empty delta changes nothing.
LEMMA EmptyFold ==
  ASSUME NEW t \in Tables, NEW d \in Deltas, IsEmpty(d) PROVE Fold(t, d) = t
<1>1. /\ DOMAIN d.entered = {} /\ DOMAIN d.moved = {} /\ d.left = {}
      /\ DOMAIN d.started = {} /\ d.ended = {}
  BY DEF IsEmpty
<1> DEFINE present == Overlay(Overlay(t.entities, d.entered), d.moved)
           kept == Restrict(t.casts, DOMAIN t.casts \ d.ended)
<1>2. present = [i \in DOMAIN t.entities |-> t.entities[i]]
  BY <1>1 DEF Overlay
<1>3. Restrict(present, DOMAIN present \ d.left) = t.entities
  BY <1>1, <1>2, TableShape DEF Restrict
<1>4. kept = [i \in DOMAIN t.casts |-> t.casts[i]]
  BY <1>1 DEF Restrict
<1>5. Overlay(kept, d.started) = t.casts
  BY <1>1, <1>4, TableShape DEF Overlay
<1> HIDE DEF present, kept
<1>6. Fold(t, d) = [entities |-> t.entities, casts |-> t.casts]
  BY <1>3, <1>5 DEF Fold, present, kept
<1> QED  BY <1>6, TableShape

\* So the tracker sends nothing only when the peer would see no difference, and
\* nothing of a table to itself.
LEMMA NothingToSend ==
  ASSUME NEW prev \in Tables, NEW next \in Tables, NEW legacy \in BOOLEAN
  PROVE  LET d == ProjectDelta(Delta(prev, next), legacy)
         IN  /\ IsEmpty(d) => ProjectTable(prev, legacy) = ProjectTable(next, legacy)
             /\ prev = next => IsEmpty(d)
<1> DEFINE d == ProjectDelta(Delta(prev, next), legacy)
<1>1. d \in Deltas
  BY DeltaTyped
<1>2. Fold(ProjectTable(prev, legacy), d) = ProjectTable(next, legacy)
  BY ProjectedDelta
<1>3. IsEmpty(d) => Fold(ProjectTable(prev, legacy), d) = ProjectTable(prev, legacy)
  BY <1>1, ProjectTyped, EmptyFold
<1>4. ASSUME prev = next PROVE IsEmpty(Delta(prev, next))
  BY <1>4 DEF IsEmpty, Delta, New, Changed, Restrict
<1>5. IsEmpty(Delta(prev, next)) => IsEmpty(d)
  BY EmptyTable DEF IsEmpty, ProjectDelta, Delta
<1> QED  BY <1>2, <1>3, <1>4, <1>5

-----------------------------------------------------------------------------
\* What the frames of a queue make of a client.

\* Induction over the naturals: a set of them that is not empty has a least
\* member, because the intervals below them are finite.
LEMMA LeastNatural ==
  ASSUME NEW S \in SUBSET Nat, S # {} PROVE \E m \in S : \A n \in S : m <= n
<1>1. PICK k \in S : TRUE
  OBVIOUS
<1> DEFINE T == 0 .. k
           R == StrictSubsetOrdering(T)
           F == FiniteSubsetsOf(T)
           I == {0 .. n : n \in S \cap T}
<1>2. IsWellFoundedOn(R, F)
  BY FS_StrictSubsetOrderingWellFounded
<1>3. IsFiniteSet(T)
  BY FS_Interval
<1>4. F = SUBSET T
  BY <1>3, FS_FiniteSubsetsOfFinite
<1>5. I \subseteq SUBSET T /\ I # {}
  BY <1>1
<1>6. \A X, Y \in SUBSET T : X \subseteq Y /\ X # Y => <<X, Y>> \in R
  BY DEF StrictSubsetOrdering
<1>7. PICK X \in I : \A Y \in I : ~(<<Y, X>> \in R)
  <2> HIDE DEF R, F, I, T
  <2> QED  BY <1>2, <1>4, <1>5, WFMin
<1>8. PICK m \in S \cap T : X = 0 .. m
  OBVIOUS
<1>9. ASSUME NEW n \in S, n < m PROVE FALSE
  <2>1. 0 .. n \in I /\ 0 .. n \subseteq X /\ 0 .. n # X
    BY <1>8, <1>9
  <2> QED  BY <1>5, <1>6, <1>7, <2>1
<1> QED  BY <1>8, <1>9

\* Induction up to a bound: what holds of 0 and passes from each to the next.
LEMMA Induction ==
  ASSUME NEW b \in Nat, NEW S, 0 \in S, \A n \in 0 .. b - 1 : n \in S => n + 1 \in S
  PROVE  0 .. b \subseteq S
<1> SUFFICES ASSUME (0 .. b) \ S # {} PROVE FALSE
  OBVIOUS
<1> DEFINE T == (0 .. b) \ S
<1>1. T \in SUBSET Nat /\ T # {}
  OBVIOUS
<1> HIDE DEF T
<1>2. PICK m \in T : \A n \in T : m <= n
  BY <1>1, LeastNatural
<1>3. m \in 0 .. b /\ m \notin S /\ m # 0
  BY DEF T
<1>4. m - 1 \in S
  BY <1>2, <1>3 DEF T
<1> QED  BY <1>3, <1>4

\* g is what client c is after each of the first b frames.
Runs(c, frames, b, g) ==
  g = [n \in 0 .. b |-> IF n = 0 THEN c ELSE Folded(g[n - 1], frames[n])]

\* There is such a function.
LEMMA RunExists ==
  ASSUME NEW c, NEW frames, NEW b \in Nat PROVE \E g : Runs(c, frames, b, g)
<1> DEFINE S == {n \in 0 .. b : \E g : Runs(c, frames, n, g)}
<1>1. 0 \in S
  <2> DEFINE g == [n \in 0 .. 0 |-> c]
  <2>1. Runs(c, frames, 0, g)
    BY DEF Runs
  <2> QED  BY <2>1
<1>2. ASSUME NEW n \in 0 .. b - 1, n \in S PROVE n + 1 \in S
  <2>1. PICK g : Runs(c, frames, n, g)
    BY <1>2
  <2> DEFINE h == [k \in 0 .. n + 1 |-> IF k = n + 1 THEN Folded(g[n], frames[n + 1]) ELSE g[k]]
  <2>2. \A k \in 0 .. n : g[k] = IF k = 0 THEN c ELSE Folded(g[k - 1], frames[k])
    BY <2>1 DEF Runs
  <2>3. \A k \in 0 .. n + 1 : h[k] = IF k = 0 THEN c ELSE Folded(h[k - 1], frames[k])
    BY <2>2
  <2>4. h = [k \in 0 .. n + 1 |-> h[k]]
    OBVIOUS
  <2> HIDE DEF h
  <2>5. Runs(c, frames, n + 1, h)
    BY <2>3, <2>4 DEF Runs
  <2> QED  BY <2>5
<1> HIDE DEF S
<1>3. b \in S
  BY <1>1, <1>2, Induction
<1> QED  BY <1>3 DEF S

\* Reach is one.
LEMMA ReachRuns ==
  ASSUME NEW c, NEW frames, Len(frames) \in Nat
  PROVE  Runs(c, frames, Len(frames), Reach(c, frames))
<1>1. PICK g : Runs(c, frames, Len(frames), g)
  BY RunExists
<1> QED  BY <1>1 DEF Runs, Reach

\* There is one only.
LEMMA RunUnique ==
  ASSUME NEW c, NEW frames, NEW b \in Nat, NEW g, NEW h,
         Runs(c, frames, b, g), Runs(c, frames, b, h)
  PROVE  \A n \in 0 .. b : g[n] = h[n]
<1> DEFINE S == {n \in 0 .. b : g[n] = h[n]}
<1>1. /\ \A n \in 0 .. b : g[n] = IF n = 0 THEN c ELSE Folded(g[n - 1], frames[n])
      /\ \A n \in 0 .. b : h[n] = IF n = 0 THEN c ELSE Folded(h[n - 1], frames[n])
  BY DEF Runs
<1>2. 0 \in S
  BY <1>1
<1>3. ASSUME NEW n \in 0 .. b - 1, n \in S PROVE n + 1 \in S
  <2>1. n + 1 \in 0 .. b /\ n + 1 # 0 /\ (n + 1) - 1 = n /\ g[n] = h[n]
    BY <1>3
  <2> QED  BY <1>1, <2>1
<1> HIDE DEF S
<1>4. 0 .. b \subseteq S
  BY <1>2, <1>3, Induction
<1> QED  BY <1>4 DEF S

\* The last client of a queue: of an empty one.
LEMMA ReachEmpty == ASSUME NEW c PROVE Reach(c, <<>>)[0] = c
BY ReachRuns DEF Runs

\* Of a frame added at its end.
LEMMA ReachAppend ==
  ASSUME NEW c, NEW F, NEW frames \in Seq(F), NEW f \in F
  PROVE  LET longer == Append(frames, f)
         IN  Reach(c, longer)[Len(longer)] = Folded(Reach(c, frames)[Len(frames)], f)
<1> DEFINE longer == Append(frames, f)
           b == Len(frames)
           g == Reach(c, longer)
           h == [n \in 0 .. b |-> g[n]]
<1>1. /\ b \in Nat /\ Len(longer) = b + 1 /\ longer[b + 1] = f
      /\ \A n \in 1 .. b : longer[n] = frames[n]
  OBVIOUS
<1>2. \A n \in 0 .. b + 1 : g[n] = IF n = 0 THEN c ELSE Folded(g[n - 1], longer[n])
  <2> HIDE DEF longer, b
  <2>1. Runs(c, longer, b + 1, g)
    <3>1. Len(longer) \in Nat
      BY <1>1
    <3> QED  BY <1>1, <3>1, ReachRuns
  <2> HIDE DEF g
  <2> QED  BY <2>1 DEF Runs
<1> HIDE DEF g, longer
<1>3. \A n \in 0 .. b : h[n] = IF n = 0 THEN c ELSE Folded(h[n - 1], frames[n])
  <2> SUFFICES ASSUME NEW n \in 0 .. b
               PROVE  h[n] = IF n = 0 THEN c ELSE Folded(h[n - 1], frames[n])
    OBVIOUS
  <2>1. CASE n = 0
    BY <1>1, <1>2, <2>1
  <2>2. CASE n # 0
    <3>1. n - 1 \in 0 .. b /\ n \in 0 .. b + 1 /\ longer[n] = frames[n]
      BY <1>1, <2>2
    <3> QED  BY <1>2, <2>2, <3>1
  <2> QED  BY <2>1, <2>2
<1>4. Runs(c, frames, b, h)
  <2>1. h = [n \in 0 .. b |-> h[n]]
    OBVIOUS
  <2> HIDE DEF h
  <2> QED  BY <1>3, <2>1 DEF Runs
<1>5. h[b] = Reach(c, frames)[b]
  BY <1>1, <1>4, ReachRuns, RunUnique
<1>6. g[b] = h[b]
  BY <1>1
<1> QED  BY <1>1, <1>2, <1>5, <1>6 DEF g, longer

\* Of a frame taken from its front.
LEMMA ReachTail ==
  ASSUME NEW c, NEW F, NEW frames \in Seq(F), frames # <<>>
  PROVE  Reach(Folded(c, Head(frames)), Tail(frames))[Len(Tail(frames))]
           = Reach(c, frames)[Len(frames)]
<1> DEFINE rest == Tail(frames)
           b == Len(frames)
           d == Folded(c, Head(frames))
           g == Reach(c, frames)
           h == [n \in 0 .. b - 1 |-> g[n + 1]]
<1>1. /\ b \in Nat \ {0} /\ Len(rest) = b - 1 /\ Head(frames) = frames[1]
      /\ \A n \in 1 .. b - 1 : rest[n] = frames[n + 1]
  OBVIOUS
<1>2. \A n \in 0 .. b : g[n] = IF n = 0 THEN c ELSE Folded(g[n - 1], frames[n])
  <2>1. Runs(c, frames, b, g)
    BY <1>1, ReachRuns
  <2> HIDE DEF g, b
  <2> QED  BY <2>1 DEF Runs
<1> HIDE DEF g, rest, b
<1>3. \A n \in 0 .. b - 1 : h[n] = IF n = 0 THEN d ELSE Folded(h[n - 1], rest[n])
  <2> SUFFICES ASSUME NEW n \in 0 .. b - 1
               PROVE  h[n] = IF n = 0 THEN d ELSE Folded(h[n - 1], rest[n])
    OBVIOUS
  <2>1. CASE n = 0
    <3>1. h[0] = g[1] /\ g[1] = Folded(g[0], frames[1]) /\ g[0] = c
      BY <1>1, <1>2
    <3> QED  BY <1>1, <2>1, <3>1
  <2>2. CASE n # 0
    <3>1. /\ n - 1 \in 0 .. b - 1 /\ n + 1 \in 0 .. b /\ n + 1 # 0 /\ (n + 1) - 1 = n
          /\ (n - 1) + 1 = n /\ rest[n] = frames[n + 1]
      BY <1>1, <2>2
    <3>2. h[n] = g[n + 1] /\ h[n - 1] = g[n]
      BY <3>1
    <3> QED  BY <1>2, <2>2, <3>1, <3>2
  <2> QED  BY <2>1, <2>2
<1>4. Runs(d, rest, b - 1, h)
  <2>1. h = [n \in 0 .. b - 1 |-> h[n]]
    OBVIOUS
  <2> HIDE DEF h, d
  <2> QED  BY <1>3, <2>1 DEF Runs
<1>5. h[b - 1] = Reach(d, rest)[b - 1]
  <2> HIDE DEF h, d
  <2>1. Runs(d, rest, b - 1, Reach(d, rest)) /\ b - 1 \in Nat
    BY <1>1, ReachRuns
  <2> QED  BY <1>1, <1>4, <2>1, RunUnique
<1>6. h[b - 1] = g[b]
  BY <1>1
<1> QED  BY <1>1, <1>5, <1>6 DEF g, rest, b

\* A frame takes a client to a client, and refuses for good.
LEMMA FoldedTyped ==
  ASSUME NEW c \in Clients, NEW f \in Frames
  PROVE  /\ Folded(c, f) \in Clients
         /\ Folded(c, f).refused # "none" \/ Folded(c, f).tick = f.tick
         /\ Folded(c, f).tick \in {c.tick, f.tick}
         /\ Folded(c, f).own = c.own
         /\ c.refused # "none" => Folded(c, f) = c
         /\ Folded(c, f).refused = "ack" => c.refused = "ack"
<1>1. CASE c.refused # "none"
  BY <1>1 DEF Folded
<1>2. CASE c.refused = "none" /\ f.tick <= c.tick
  BY <1>2 DEF Folded, Refuse, Clients
<1>3. CASE c.refused = "none" /\ f.tick > c.tick /\ f.kind = "snapshot"
  <2>1. f.table \in Tables /\ f.tick \in 0 .. MaxTick
    BY <1>3 DEF Frames
  <2>2. Folded(c, f) = [c EXCEPT !.tick = f.tick, !.table = f.table]
    BY <1>3 DEF Folded, Frames, Clients
  <2> QED  BY <1>3, <2>1, <2>2 DEF Clients
<1>4. CASE c.refused = "none" /\ f.tick > c.tick /\ f.kind = "delta"
  <2>1. f.delta \in Deltas /\ f.tick \in 0 .. MaxTick /\ c.table \in Tables
    BY <1>4 DEF Frames, Clients
  <2>2. Folded(c, f) =
          IF c.tick # 0 /\ Applies(f.delta, c.table)
          THEN [c EXCEPT !.tick = f.tick, !.table = Fold(c.table, f.delta)]
          ELSE Refuse(c, "fold")
    BY <1>4 DEF Folded, Frames, Clients
  <2>3. CASE c.tick # 0 /\ Applies(f.delta, c.table)
    <3>1. Fold(c.table, f.delta) \in Tables
      BY <2>1, <2>3, FoldTyped
    <3> QED  BY <1>4, <2>1, <2>2, <2>3, <3>1 DEF Clients
  <2>4. CASE ~(c.tick # 0 /\ Applies(f.delta, c.table))
    BY <1>4, <2>2, <2>4 DEF Refuse, Clients
  <2> QED  BY <2>3, <2>4
<1> QED
  <2>1. c.tick \in Int /\ f.tick \in Int /\ f.kind \in {"snapshot", "delta"}
    BY DEF Clients, Frames
  <2> QED  BY <1>1, <1>2, <1>3, <1>4, <2>1

\* The frames leave the client's own position alone and do not look at it.
LEMMA FoldedOwn ==
  ASSUME NEW c \in Clients, NEW f \in Frames, NEW own \in 0 .. MaxTick
  PROVE  Folded([c EXCEPT !.own = own], f) = [Folded(c, f) EXCEPT !.own = own]
<1> DEFINE d == [c EXCEPT !.own = own]
<1>1. d.refused = c.refused /\ d.tick = c.tick /\ d.table = c.table
  BY DEF Clients
<1>2. \A why : Refuse(d, why) = [Refuse(c, why) EXCEPT !.own = own]
  BY DEF Clients, Refuse
<1>3. \A n, t : [d EXCEPT !.tick = n, !.table = t] = [[c EXCEPT !.tick = n, !.table = t] EXCEPT !.own = own]
  BY DEF Clients
<1> HIDE DEF d
<1>4. CASE c.refused # "none" \/ f.tick <= c.tick
  BY <1>1, <1>2, <1>4 DEF Folded, d
<1>5. CASE c.refused = "none" /\ ~(f.tick <= c.tick) /\ f.kind = "snapshot"
  <2>1. Folded(d, f) = [d EXCEPT !.tick = f.tick, !.table = f.table]
    BY <1>1, <1>5 DEF Folded
  <2>2. Folded(c, f) = [c EXCEPT !.tick = f.tick, !.table = f.table]
    BY <1>5 DEF Folded
  <2> QED  BY <1>3, <2>1, <2>2 DEF d
<1>6. CASE c.refused = "none" /\ ~(f.tick <= c.tick) /\ f.kind = "delta"
  <2> DEFINE accepted == c.tick # 0 /\ Applies(f.delta, c.table)
             table == Fold(c.table, f.delta)
  <2>1. Folded(d, f) = IF accepted THEN [d EXCEPT !.tick = f.tick, !.table = table] ELSE Refuse(d, "fold")
    BY <1>1, <1>6 DEF Folded
  <2>2. Folded(c, f) = IF accepted THEN [c EXCEPT !.tick = f.tick, !.table = table] ELSE Refuse(c, "fold")
    BY <1>6 DEF Folded
  <2> HIDE DEF accepted, table
  <2>3. CASE accepted
    BY <1>3, <2>1, <2>2, <2>3 DEF d
  <2>4. CASE ~accepted
    BY <1>2, <2>1, <2>2, <2>4 DEF d
  <2> QED  BY <2>3, <2>4
<1> QED
  <2>1. f.kind \in {"snapshot", "delta"}
    BY DEF Frames
  <2> QED  BY <1>4, <1>5, <1>6, <2>1 DEF d

\* What a queue makes of a client is a client, no newer than its frames.
LEMMA ReachTyped ==
  ASSUME NEW c \in Clients, NEW frames \in Seq(Frames), NEW bound \in Nat, c.tick < bound,
         \A i \in 1 .. Len(frames) : frames[i].tick < bound
  PROVE  \A n \in 0 .. Len(frames) :
           Reach(c, frames)[n] \in Clients /\ Reach(c, frames)[n].tick < bound
<1> DEFINE g == Reach(c, frames)
           b == Len(frames)
           S == {n \in 0 .. b : g[n] \in Clients /\ g[n].tick < bound}
<1>1. b \in Nat /\ \A n \in 1 .. b : frames[n] \in Frames
  OBVIOUS
<1>2. \A n \in 0 .. b : g[n] = IF n = 0 THEN c ELSE Folded(g[n - 1], frames[n])
  <2>1. Runs(c, frames, b, g)
    BY <1>1, ReachRuns
  <2> HIDE DEF g, b
  <2> QED  BY <2>1 DEF Runs
<1> HIDE DEF g
<1>3. 0 \in S
  BY <1>1, <1>2
<1>4. ASSUME NEW n \in 0 .. b - 1, n \in S PROVE n + 1 \in S
  <2>1. /\ n + 1 \in 1 .. b /\ n + 1 # 0 /\ (n + 1) - 1 = n
        /\ g[n] \in Clients /\ g[n].tick < bound
    BY <1>1, <1>4
  <2>2. g[n + 1] = Folded(g[n], frames[n + 1])
    BY <1>2, <2>1
  <2>3. frames[n + 1] \in Frames /\ frames[n + 1].tick < bound
    BY <1>1, <2>1
  <2>4. g[n + 1] \in Clients /\ g[n + 1].tick \in {g[n].tick, frames[n + 1].tick}
    BY <2>1, <2>2, <2>3, FoldedTyped
  <2> QED  BY <1>1, <2>1, <2>3, <2>4
<1> HIDE DEF S
<1>5. 0 .. b \subseteq S
  BY <1>1, <1>3, <1>4, Induction
<1> QED  BY <1>5 DEF S, g

\* Nor do the frames of a queue look at its own position.
LEMMA ReachOwn ==
  ASSUME NEW c \in Clients, NEW frames \in Seq(Frames), NEW own \in 0 .. MaxTick
  PROVE  Reach([c EXCEPT !.own = own], frames)[Len(frames)]
           = [Reach(c, frames)[Len(frames)] EXCEPT !.own = own]
<1> DEFINE d == [c EXCEPT !.own = own]
           b == Len(frames)
           g == Reach(c, frames)
           h == [n \in 0 .. b |-> [g[n] EXCEPT !.own = own]]
<1>1. b \in Nat /\ \A n \in 1 .. b : frames[n] \in Frames
  OBVIOUS
<1>2. \A n \in 0 .. b : g[n] = IF n = 0 THEN c ELSE Folded(g[n - 1], frames[n])
  <2>1. Runs(c, frames, b, g)
    BY <1>1, ReachRuns
  <2> HIDE DEF g, b
  <2> QED  BY <2>1 DEF Runs
<1>3. \A n \in 0 .. b : g[n] \in Clients
  <2>1. MaxTick + 1 \in Nat /\ c.tick < MaxTick + 1
    BY MaxTickIsPositive DEF Clients
  <2>2. \A i \in 1 .. Len(frames) : frames[i].tick < MaxTick + 1
    BY <1>1, MaxTickIsPositive DEF Frames
  <2> QED  BY <2>1, <2>2, ReachTyped
<1> HIDE DEF g
<1>4. \A n \in 0 .. b : h[n] = IF n = 0 THEN d ELSE Folded(h[n - 1], frames[n])
  <2> SUFFICES ASSUME NEW n \in 0 .. b
               PROVE  h[n] = IF n = 0 THEN d ELSE Folded(h[n - 1], frames[n])
    OBVIOUS
  <2>1. CASE n = 0
    BY <1>1, <1>2, <2>1
  <2>2. CASE n # 0
    <3>1. n - 1 \in 0 .. b /\ frames[n] \in Frames /\ g[n - 1] \in Clients
      BY <1>1, <1>3, <2>2
    <3>2. Folded([g[n - 1] EXCEPT !.own = own], frames[n]) = [Folded(g[n - 1], frames[n]) EXCEPT !.own = own]
      BY <3>1, FoldedOwn
    <3> QED  BY <1>2, <2>2, <3>1, <3>2
  <2> QED  BY <2>1, <2>2
<1>5. Runs(d, frames, b, h)
  <2>1. h = [n \in 0 .. b |-> h[n]]
    OBVIOUS
  <2> HIDE DEF h, d
  <2> QED  BY <1>4, <2>1 DEF Runs
<1>6. Reach(d, frames)[b] = h[b]
  <2> HIDE DEF h, d
  <2>1. Runs(d, frames, b, Reach(d, frames))
    BY <1>1, ReachRuns
  <2> QED  BY <1>1, <1>5, <2>1, RunUnique
<1> QED  BY <1>1, <1>6 DEF g

-----------------------------------------------------------------------------
\* The stream.

\* Everything the client has seen, or will see of the queue, is older than n.
OlderThan(n) == client.tick < n /\ \A i \in 1 .. Len(out) : out[i].tick < n

\* The frames of a tick come after those of the ticks before; a frame is due in a
\* tick unless it was sent, or there is nothing to send.
FramesInv ==
  /\ sim \in {"attach", "resync"} => out = <<>>
  /\ sim = "attach" => client.tick = 0
  /\ OlderThan(tick + 1)
  /\ sim \in {"drain", "resync"} \/ (sim = "pump" /\ tracker # world) => OlderThan(tick)

\* Except in an overflow, the queue takes the client to the tracker's table, and
\* the client has a base then.
ReachInv ==
  sim \notin {"attach", "drain", "resync"} /\ client.refused = "none" =>
    LET last == Reach(client, out)[Len(out)]
    IN  last.refused = "none" /\ last.tick # 0 /\ last.table = ProjectTable(tracker, Legacy)

\* An acknowledgement is written behind the join, and none is older than the
\* position the client knows.
AckInv ==
  /\ client.own <= tick /\ ack <= tick
  /\ ack # 0 => client.own <= ack
  /\ joined => client.tick # 0 \/ client.refused # "none"
  /\ writer = "ack" => joined
  /\ client.refused # "ack"

\* Every step of the stream keeps its types.
LEMMA StreamTyped == TypeOK /\ FramesInv /\ [Next]_vars => TypeOK'
<1> SUFFICES ASSUME TypeOK, FramesInv, [Next]_vars PROVE TypeOK'
  OBVIOUS
<1> USE DEF TypeOK
<1>1. Legacy \in BOOLEAN /\ ProjectTable(world, Legacy) \in Tables
  BY ProjectTyped DEF Legacy
<1>2. SnapshotFrame \in Frames
  BY <1>1 DEF SnapshotFrame, Frames
<1>3. DeltaFrame(ProjectDelta(Delta(tracker, world), Legacy)) \in Frames
  BY <1>1, DeltaTyped DEF DeltaFrame, Frames
<1>4. SendQueue \in Nat \ {0}
  BY SendQueueIsPositive
<1>5. out # <<>> => /\ Head(out) \in Frames /\ Tail(out) \in Seq(Frames)
                    /\ Len(Tail(out)) <= SendQueue
  BY <1>4
<1>6. \A f \in Frames : Len(out) < SendQueue =>
        Append(out, f) \in Seq(Frames) /\ Len(Append(out, f)) <= SendQueue
  BY <1>4
<1>7. CASE Step
  BY <1>7, MaxTickIsPositive DEF Step, writerVars
<1>8. CASE Attach
  <2>1. Append(out, SnapshotFrame) \in Seq(Frames) /\ Len(Append(out, SnapshotFrame)) <= SendQueue
    BY <1>2, <1>4, <1>6, <1>8 DEF Attach, FramesInv
  <2> QED  BY <1>8, <2>1 DEF Attach, writerVars
<1>9. CASE Pump
  BY <1>3, <1>6, <1>9 DEF Pump, writerVars
<1>10. CASE Drain
  BY <1>5, <1>10 DEF Drain, writerVars
<1>11. CASE Resync
  BY <1>2, <1>6, <1>11 DEF Resync, writerVars
<1>12. CASE AckMovement
  <2>1. tick \in 0 .. MaxTick
    BY MaxTickIsPositive
  <2>2. ack' \in 0 .. MaxTick /\ ackReady' \in BOOLEAN
    BY <1>12, <2>1 DEF AckMovement
  <2> QED  BY <1>12, <2>2 DEF AckMovement, writerVars
<1>13. CASE WriteFrame
  <2>1. Folded(client, Head(out)) \in Clients
    BY <1>5, <1>13, FoldedTyped DEF WriteFrame
  <2> QED  BY <1>5, <1>13, <2>1 DEF WriteFrame, simVars
<1>14. CASE AckSelected
  BY <1>14 DEF AckSelected, simVars
<1>15. CASE WriteAck
  <2>1. \A at \in 0 .. MaxTick : Acknowledged(client, at) \in Clients
    BY DEF Acknowledged, Refuse, Clients
  <2> QED  BY <1>15, <2>1, MaxTickIsPositive DEF WriteAck, simVars
<1>16. CASE UNCHANGED vars
  BY <1>16 DEF vars, simVars, writerVars
<1> QED
  BY <1>7, <1>8, <1>9, <1>10, <1>11, <1>12, <1>13, <1>14, <1>15, <1>16
  DEF Next, SimStep, WriterStep

\* What the sequence of frames gains and loses.
LEMMA Older ==
  ASSUME TypeOK, NEW n \in Nat, OlderThan(n)
  PROVE  /\ \A m \in Nat : n <= m => OlderThan(m)
         /\ out # <<>> => Head(out) \in Frames /\ Head(out).tick < n
         /\ out # <<>> => \A i \in 1 .. Len(Tail(out)) : Tail(out)[i].tick < n
         /\ \A f \in Frames : f.tick < n =>
              \A i \in 1 .. Len(Append(out, f)) : Append(out, f)[i].tick < n
<1>1. \A i \in 1 .. Len(out) : out[i] \in Frames /\ out[i].tick \in Nat /\ out[i].tick < n
  BY DEF TypeOK, OlderThan, Frames
<1>2. client.tick \in Nat /\ client.tick < n
  BY DEF TypeOK, Clients, OlderThan
<1> QED  BY <1>1, <1>2 DEF OlderThan, TypeOK

\* The frames keep their order.
LEMMA FramesKept == TypeOK /\ TypeOK' /\ FramesInv /\ [Next]_vars => FramesInv'
<1> SUFFICES ASSUME TypeOK, TypeOK', FramesInv, [Next]_vars PROVE FramesInv'
  OBVIOUS
<1>1. tick \in Nat \ {0} /\ tick + 1 \in Nat /\ client.tick \in Nat
  BY DEF TypeOK, Clients
<1>2. SnapshotFrame \in Frames /\ SnapshotFrame.tick = tick
  BY ProjectTyped DEF TypeOK, SnapshotFrame, Frames, Legacy
<1> DEFINE delta == DeltaFrame(ProjectDelta(Delta(tracker, world), Legacy))
<1>3. delta \in Frames /\ delta.tick = tick
  BY DeltaTyped DEF TypeOK, DeltaFrame, Frames, Legacy
<1>4. OlderThan(tick + 1)
  BY DEF FramesInv
<1> HIDE DEF delta
<1>5. CASE Step
  <2>1. tick' = tick + 1 /\ sim' = "pump" /\ sim = "step" /\ out' = out /\ client' = client
    BY <1>5 DEF Step, writerVars
  <2>2. OlderThan(tick + 1)' /\ OlderThan(tick)'
    BY <1>1, <1>4, <2>1, Older DEF OlderThan
  <2> QED  BY <2>1, <2>2 DEF FramesInv
<1>6. CASE Attach
  <2>1. /\ out = <<>> /\ out' = Append(out, SnapshotFrame) /\ client' = client /\ tick' = tick
        /\ tracker' = world /\ world' = world /\ sim' \in {"pump", "step"}
    BY <1>6 DEF Attach, FramesInv, writerVars
  <2>2. OlderThan(tick + 1)'
    BY <1>1, <1>2, <1>4, <2>1, Older DEF OlderThan
  <2> QED  BY <2>1, <2>2 DEF FramesInv
<1>7. CASE Pump
  <2>1. /\ sim = "pump" /\ tracker' = world /\ world' = world /\ tick' = tick /\ client' = client
        /\ \/ sim' = "ack" /\ (out' = out \/ out' = Append(out, delta))
           \/ /\ sim' = "drain" /\ out' = out
              /\ ~IsEmpty(ProjectDelta(Delta(tracker, world), Legacy))
    BY <1>7 DEF Pump, writerVars, delta
  <2>2. OlderThan(tick + 1)'
    BY <1>1, <1>3, <1>4, <2>1, Older DEF OlderThan
  <2>3. sim' = "drain" => OlderThan(tick)'
    <3>1. sim' = "drain" => tracker # world
      BY <2>1, NothingToSend DEF TypeOK, Legacy
    <3> QED  BY <2>1, <3>1 DEF FramesInv, OlderThan
  <2> QED  BY <2>1, <2>2, <2>3 DEF FramesInv
<1>8. CASE Drain
  <2>1. /\ sim = "drain" /\ tick' = tick /\ client' = client /\ tracker' = tracker /\ world' = world
        /\ \/ out # <<>> /\ out' = Tail(out) /\ sim' = "drain"
           \/ out = <<>> /\ out' = out /\ sim' = "resync"
    BY <1>8 DEF Drain, writerVars
  <2>2. OlderThan(tick)
    BY <2>1 DEF FramesInv
  <2>3. OlderThan(tick)' /\ OlderThan(tick + 1)'
    BY <1>1, <1>4, <2>1, <2>2, Older DEF OlderThan
  <2> QED  BY <2>1, <2>3 DEF FramesInv
<1>9. CASE Resync
  <2>1. /\ sim' = "ack" /\ tick' = tick /\ client' = client
        /\ out' = out \/ out' = Append(out, SnapshotFrame)
    BY <1>9 DEF Resync, writerVars
  <2>2. OlderThan(tick + 1)'
    BY <1>1, <1>2, <1>4, <2>1, Older DEF OlderThan
  <2> QED  BY <2>1, <2>2 DEF FramesInv
<1>10. CASE AckMovement
  <2>1. sim' = "step" /\ tick' = tick /\ client' = client /\ out' = out
    BY <1>10 DEF AckMovement, writerVars
  <2> QED  BY <1>4, <2>1 DEF FramesInv, OlderThan
<1>11. CASE WriteFrame
  <2>1. /\ out # <<>> /\ out' = Tail(out) /\ client' = Folded(client, Head(out))
        /\ tick' = tick /\ sim' = sim /\ tracker' = tracker /\ world' = world
    BY <1>11 DEF WriteFrame, simVars
  <2>2. ASSUME NEW n \in Nat, OlderThan(n) PROVE client'.tick < n /\ \A i \in 1 .. Len(out') : out'[i].tick < n
    <3>1. Head(out) \in Frames /\ Head(out).tick < n /\ client.tick < n
      BY <2>1, <2>2, Older DEF OlderThan
    <3>2. client'.tick \in {client.tick, Head(out).tick}
      BY <2>1, <3>1, FoldedTyped DEF TypeOK
    <3> QED  BY <2>1, <2>2, <3>1, <3>2, Older
  <2> QED  BY <1>1, <1>4, <2>1, <2>2 DEF FramesInv, OlderThan
<1>12. CASE AckSelected
  BY <1>12 DEF AckSelected, simVars, FramesInv, OlderThan
<1>13. CASE WriteAck
  <2>1. client'.tick = client.tick
    BY <1>13 DEF WriteAck, Acknowledged, Refuse, TypeOK, Clients
  <2> QED  BY <1>13, <2>1 DEF WriteAck, simVars, FramesInv, OlderThan
<1>14. CASE UNCHANGED vars
  BY <1>14 DEF vars, simVars, writerVars, FramesInv, OlderThan
<1> QED
  BY <1>5, <1>6, <1>7, <1>8, <1>9, <1>10, <1>11, <1>12, <1>13, <1>14
  DEF Next, SimStep, WriterStep

\* Acknowledgements keep behind the join and in order.
LEMMA AcksKept == TypeOK /\ FramesInv /\ AckInv /\ [Next]_vars => AckInv'
<1> SUFFICES ASSUME TypeOK, FramesInv, AckInv, [Next]_vars PROVE AckInv'
  OBVIOUS
<1>1. /\ tick \in Nat \ {0} /\ ack \in Nat /\ client \in Clients
      /\ client.own \in Nat /\ client.tick \in Nat
  BY DEF TypeOK, Clients
<1>2. CASE Step
  BY <1>1, <1>2 DEF Step, AckInv, writerVars
<1>3. CASE Attach \/ Pump \/ Drain \/ Resync
  BY <1>3 DEF Attach, Pump, Drain, Resync, AckInv, writerVars
<1>4. CASE AckMovement
  <2>1. /\ tick' = tick /\ client' = client /\ joined' = joined /\ writer' = writer
        /\ ack' = tick \/ ack' = ack
    BY <1>4 DEF AckMovement, writerVars
  <2> QED  BY <1>1, <2>1 DEF AckInv
<1>5. CASE WriteFrame
  <2>1. /\ Head(out) \in Frames /\ client' = Folded(client, Head(out))
        /\ tick' = tick /\ ack' = ack /\ writer' = writer /\ joined'
    BY <1>5 DEF WriteFrame, simVars, TypeOK
  <2>2. /\ client'.own = client.own /\ client'.refused # "ack"
        /\ client'.refused # "none" \/ client'.tick # 0
    BY <1>1, <2>1, FoldedTyped DEF AckInv, Frames
  <2> QED  BY <2>1, <2>2 DEF AckInv
<1>6. CASE AckSelected
  BY <1>6 DEF AckSelected, AckInv, simVars
<1>7. CASE WriteAck
  <2>1. /\ writer = "ack" /\ ack' = 0 /\ tick' = tick /\ joined' = joined /\ writer' = "select"
        /\ client' = IF ack = 0 THEN client ELSE Acknowledged(client, ack)
    BY <1>7 DEF WriteAck, simVars
  <2>2. client.refused = "none" => client.tick # 0
    BY <2>1 DEF AckInv
  <2>3. ack # 0 => client.own <= ack /\ ack <= tick
    BY DEF AckInv
  <2>4. /\ client'.own <= tick /\ client'.tick = client.tick
        /\ client'.refused = client.refused
    <3>1. CASE ack = 0 \/ client.refused # "none"
      BY <2>1, <3>1 DEF AckInv, Acknowledged
    <3>2. CASE ack # 0 /\ client.refused = "none"
      <4>1. client' = [client EXCEPT !.own = ack]
        BY <1>1, <2>1, <2>2, <2>3, <3>2 DEF Acknowledged
      <4> QED  BY <1>1, <2>3, <3>2, <4>1 DEF Clients
    <3> QED  BY <3>1, <3>2
  <2> QED  BY <1>1, <2>1, <2>4 DEF AckInv
<1>8. CASE UNCHANGED vars
  BY <1>8 DEF vars, simVars, writerVars, AckInv
<1> QED
  BY <1>2, <1>3, <1>4, <1>5, <1>6, <1>7, <1>8 DEF Next, SimStep, WriterStep

\* A snapshot or the delta to the tracker's table brings a client up to date.
LEMMA FrameBrings ==
  ASSUME TypeOK, NEW c \in Clients, c.refused = "none", c.tick < tick
  PROVE  /\ LET n == Folded(c, SnapshotFrame)
            IN  /\ n.refused = "none" /\ n.tick = tick
                /\ n.table = ProjectTable(world, Legacy)
         /\ c.tick # 0 /\ c.table = ProjectTable(tracker, Legacy) =>
              LET n == Folded(c, DeltaFrame(ProjectDelta(Delta(tracker, world), Legacy)))
              IN  /\ n.refused = "none" /\ n.tick = tick
                  /\ n.table = ProjectTable(world, Legacy)
<1>1. /\ c.tick \in Nat /\ tick \in Nat /\ ~(tick <= c.tick)
      /\ tracker \in Tables /\ world \in Tables /\ Legacy \in BOOLEAN
  BY DEF TypeOK, Clients, Legacy
<1>2. Folded(c, SnapshotFrame) = [c EXCEPT !.tick = tick, !.table = ProjectTable(world, Legacy)]
  BY <1>1 DEF Folded, SnapshotFrame
<1> DEFINE d == ProjectDelta(Delta(tracker, world), Legacy)
<1>3. ASSUME c.tick # 0, c.table = ProjectTable(tracker, Legacy)
      PROVE  Folded(c, DeltaFrame(d)) = [c EXCEPT !.tick = tick, !.table = ProjectTable(world, Legacy)]
  <2>1. Applies(d, c.table) /\ Fold(c.table, d) = ProjectTable(world, Legacy)
    BY <1>1, <1>3, ProjectedDelta
  <2> HIDE DEF d
  <2> QED  BY <1>1, <1>3, <2>1 DEF Folded, DeltaFrame
<1> QED  BY <1>2, <1>3 DEF Clients

\* Whatever overflows, the queue leads to the tracker's table again.
LEMMA ReachKept == TypeOK /\ TypeOK' /\ FramesInv /\ AckInv /\ ReachInv /\ [Next]_vars => ReachInv'
<1> SUFFICES ASSUME TypeOK, TypeOK', FramesInv, AckInv, ReachInv, [Next]_vars PROVE ReachInv'
  OBVIOUS
<1> DEFINE last == Reach(client, out)[Len(out)]
           delta == DeltaFrame(ProjectDelta(Delta(tracker, world), Legacy))
<1>1. /\ client \in Clients /\ out \in Seq(Frames) /\ Len(out) \in Nat
      /\ tick \in Nat \ {0} /\ world \in Tables /\ tracker \in Tables
      /\ Legacy \in BOOLEAN
  BY DEF TypeOK, Legacy
<1>2. SnapshotFrame \in Frames /\ delta \in Frames
  BY ProjectTyped, DeltaTyped DEF TypeOK, SnapshotFrame, DeltaFrame, Frames, Legacy
<1>3. \A n \in Nat : OlderThan(n) => last \in Clients /\ last.tick < n
  BY <1>1, ReachTyped DEF OlderThan
<1>4. \A c : Reach(c, <<>>)[Len(<<>>)] = c
  BY ReachEmpty
<1>5. \A f \in Frames : Reach(client, Append(out, f))[Len(Append(out, f))] = Folded(last, f)
  BY <1>1, ReachAppend
<1>6. SendQueue \in Nat \ {0}
  BY SendQueueIsPositive
<1> HIDE DEF last, delta
<1>7. CASE Step \/ AckMovement
  <2>1. /\ sim \in {"step", "ack"} /\ client' = client /\ out' = out /\ tracker' = tracker
        /\ version' = version
    BY <1>7 DEF Step, AckMovement, writerVars
  <2> QED  BY <2>1 DEF ReachInv, Legacy
<1>8. CASE Attach
  <2>1. /\ out = <<>> /\ out' = Append(out, SnapshotFrame) /\ client' = client /\ client.tick = 0
        /\ tracker' = world /\ version' = version
    BY <1>8 DEF Attach, FramesInv, writerVars
  <2>2. last = client
    BY <1>4, <2>1 DEF last
  <2>3. Reach(client, out)'[Len(out)'] = Folded(client, SnapshotFrame)
    BY <1>2, <1>5, <2>1, <2>2
  <2>4. client.refused = "none" =>
          LET n == Folded(client, SnapshotFrame)
          IN  n.refused = "none" /\ n.tick = tick /\ n.table = ProjectTable(world, Legacy)
    BY <1>1, <2>1, FrameBrings
  <2> QED  BY <1>1, <2>1, <2>3, <2>4 DEF ReachInv, Legacy
<1>9. CASE Pump
  <2>1. /\ sim = "pump" /\ tracker' = world /\ client' = client /\ version' = version
        /\ world' = world
    BY <1>9 DEF Pump, writerVars
  <2>2. SUFFICES ASSUME client.refused = "none", sim' # "drain" PROVE ReachInv'
    BY <2>1 DEF ReachInv
  <2>3. last.refused = "none" /\ last.tick # 0 /\ last.table = ProjectTable(tracker, Legacy)
    BY <2>1, <2>2 DEF ReachInv, last
  <2>4. CASE IsEmpty(ProjectDelta(Delta(tracker, world), Legacy))
    <3>1. out' = out
      BY <1>9, <2>4 DEF Pump
    <3>2. ProjectTable(tracker, Legacy) = ProjectTable(world, Legacy)
      BY <1>1, <2>4, NothingToSend
    <3> QED  BY <2>1, <2>3, <3>1, <3>2 DEF ReachInv, Legacy, last
  <2>5. CASE ~IsEmpty(ProjectDelta(Delta(tracker, world), Legacy))
    <3>1. out' = Append(out, delta)
      BY <1>9, <2>2, <2>5 DEF Pump, delta
    <3>2. tracker # world
      BY <1>1, <2>5, NothingToSend
    <3>3. last \in Clients /\ last.tick < tick
      BY <1>1, <1>3, <2>1, <3>2 DEF FramesInv
    <3>4. LET n == Folded(last, delta)
          IN  n.refused = "none" /\ n.tick = tick /\ n.table = ProjectTable(world, Legacy)
      BY <2>3, <3>3, FrameBrings DEF delta
    <3>5. Reach(client, out)'[Len(out)'] = Folded(last, delta)
      BY <1>2, <1>5, <2>1, <3>1
    <3> QED  BY <1>1, <2>1, <3>4, <3>5 DEF ReachInv, Legacy
  <2> QED  BY <2>4, <2>5
<1>10. CASE Drain
  BY <1>10 DEF Drain, ReachInv
<1>11. CASE Resync
  <2>1. /\ sim = "resync" /\ out = <<>> /\ client' = client /\ tracker' = world
        /\ version' = version /\ client.tick < tick
    BY <1>11 DEF Resync, FramesInv, OlderThan, writerVars
  <2>2. out' = Append(out, SnapshotFrame)
    BY <1>6, <1>11, <2>1 DEF Resync
  <2>3. last = client
    BY <1>4, <2>1 DEF last
  <2>4. Reach(client, out)'[Len(out)'] = Folded(client, SnapshotFrame)
    BY <1>2, <1>5, <2>1, <2>2, <2>3
  <2>5. client.refused = "none" =>
          LET n == Folded(client, SnapshotFrame)
          IN  n.refused = "none" /\ n.tick = tick /\ n.table = ProjectTable(world, Legacy)
    BY <1>1, <2>1, FrameBrings
  <2> QED  BY <1>1, <2>1, <2>4, <2>5 DEF ReachInv, Legacy
<1>12. CASE WriteFrame
  <2>1. /\ out # <<>> /\ out' = Tail(out) /\ client' = Folded(client, Head(out))
        /\ sim' = sim /\ tracker' = tracker /\ version' = version
    BY <1>12 DEF WriteFrame, simVars
  <2>2. Reach(client, out)'[Len(out)'] = last
    BY <1>1, <2>1, ReachTail DEF last
  <2>3. client'.refused = "none" => client.refused = "none"
    BY <1>1, <2>1, FoldedTyped
  <2> QED  BY <2>1, <2>2, <2>3 DEF ReachInv, Legacy, last
<1>13. CASE AckSelected
  BY <1>13 DEF AckSelected, simVars, ReachInv, Legacy
<1>14. CASE WriteAck
  <2>1. /\ out' = out /\ sim' = sim /\ tracker' = tracker /\ version' = version
        /\ client' = IF ack = 0 THEN client ELSE Acknowledged(client, ack)
    BY <1>14 DEF WriteAck, simVars
  <2>2. SUFFICES ASSUME client'.refused = "none" PROVE ReachInv'
    BY DEF ReachInv
  <2>3. ack \in 0 .. MaxTick
    BY DEF TypeOK
  <2>4. CASE client' = client
    BY <2>1, <2>4 DEF ReachInv, Legacy
  <2>5. CASE client' = [client EXCEPT !.own = ack]
    <3>1. Reach(client, out)'[Len(out)'] = [last EXCEPT !.own = ack]
      BY <1>1, <2>1, <2>3, <2>5, ReachOwn DEF last
    <3>2. last \in Clients
      BY <1>1, <1>3 DEF FramesInv
    <3>3. client.refused = "none"
      BY <1>1, <2>2, <2>5 DEF Clients
    <3> QED  BY <2>1, <3>1, <3>2, <3>3 DEF ReachInv, Legacy, last, Clients
  <2> QED  BY <1>1, <2>1, <2>2, <2>4, <2>5 DEF Acknowledged, Refuse, Clients
<1>15. CASE UNCHANGED vars
  BY <1>15 DEF vars, simVars, writerVars, ReachInv, Legacy
<1> QED
  BY <1>7, <1>8, <1>9, <1>10, <1>11, <1>12, <1>13, <1>14, <1>15 DEF Next, SimStep, WriterStep

\* The invariant of the stream.
StreamInv == TypeOK /\ FramesInv /\ AckInv /\ ReachInv

\* It holds at the start.
LEMMA StreamInit == Init => StreamInv
<1> SUFFICES ASSUME Init PROVE StreamInv
  OBVIOUS
<1>1. NewClient \in Clients
  BY EmptyTable, MaxTickIsPositive DEF NewClient, Clients
<1>2. TypeOK
  <2>1. /\ 1 \in 1 .. MaxTick /\ 0 \in 0 .. MaxTick
        /\ <<>> \in Seq(Frames) /\ Len(<<>>) = 0 /\ 0 <= SendQueue
    BY MaxTickIsPositive, SendQueueIsPositive
  <2> QED  BY <1>1, <2>1, EmptyTable DEF Init, TypeOK
<1> QED  BY <1>2 DEF Init, NewClient, StreamInv, FramesInv, OlderThan, AckInv, ReachInv

\* Every step preserves it.
LEMMA StreamStep == StreamInv /\ [Next]_vars => StreamInv'
BY StreamTyped, FramesKept, AcksKept, ReachKept DEF StreamInv

\* Whatever was dropped on the way, outside an overflow the frames of the queue
\* take the client to exactly what the tracker takes it to hold (Hub.send).
THEOREM QueueLeadsToTracker == Spec => []QueueReachesTracker
<1>1. StreamInv => QueueReachesTracker
  BY DEF StreamInv, ReachInv, QueueReachesTracker
<1> QED  BY <1>1, StreamInit, StreamStep, PTL DEF Spec

\* No acknowledgement precedes the join or goes back in time (conn.writeLoop).
THEOREM AcksNeverRefused == Spec => []AcksAccepted
<1>1. StreamInv => AcksAccepted
  BY DEF StreamInv, AckInv, AcksAccepted
<1> QED  BY <1>1, StreamInit, StreamStep, PTL DEF Spec
=============================================================================
