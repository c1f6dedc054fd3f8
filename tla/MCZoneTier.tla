----------------------------- MODULE MCZoneTier -----------------------------
(***************************************************************************)
(* Small instances of the parts of ZoneTier.                               *)
(*                                                                         *)
(* sim        four small zones, with integer geometry                      *)
(* lifecycle  two sockets, two leases, each gate                           *)
(* intake     two connections of one observer that send two intents        *)
(* wire       a frame of each kind and version, altered twice              *)
(***************************************************************************)
EXTENDS ZoneTier, TLC

-----------------------------------------------------------------------------
\* The zones that are simulated.

\* An actor, and the mob that hunts in some zones.
Body(x, z, speed, radius, life) ==
  [at |-> Vec(x, z), maxSpeed |-> speed, radius |-> radius, maxHealth |-> life, health |-> 0, view |-> 4]
Hunter(range, chase, cast, cooldown) ==
  [aggro |-> 20, range |-> range, chase |-> chase, cast |-> cast, cooldown |-> cooldown, circle |-> 2, damage |-> 2]
\* One whose circle paints nothing.
Harmless == [Hunter(0, 0, 0, 0) EXCEPT !.circle = 0]
Ways(s) == {Origin, Vec(s, 0), Vec(-s, 0), Vec(0, s), Vec(0, -s)}
NoMobs == [m \in {} |-> 0]

Zone(min, max, actors, mobs, swept, inputs) ==
  [min |-> min, max |-> max, actors |-> actors, mobs |-> mobs, swept |-> swept, inputs |-> inputs]

MCZones ==
  { \* a slow hunter, diagonally away from its quarry
    Zone(Vec(-8, -8), Vec(8, 8), <<Body(4, 3, 8, 1, 3), Body(-1, -3, 4, 1, 0)>>,
         (2 :> Hunter(1, 1, 2, 1)), FALSE, (1 :> Ways(8))),
    \* two pinned casters whose marks resolve in one step
    Zone(Vec(-8, -8), Vec(8, 8), <<Body(0, 0, 8, 1, 3), Body(3, 0, 0, 1, 5), Body(-4, 0, 0, 1, 0), Body(0, 4, 0, 0, 0)>>,
         (2 :> Hunter(0, 0, 1, 3) @@ 3 :> Hunter(0, 0, 2, 0) @@ 4 :> Harmless), FALSE, (1 :> Ways(12))),
    \* a corridor of three fast actors
    Zone(Vec(-12, 0), Vec(12, 0), <<Body(-8, 0, 80, 1, 0), Body(7, 0, 48, 2, 0), Body(0, 0, 20, 1, 0)>>,
         NoMobs, TRUE, [e \in 1..3 |-> {Vec(80, 0), Vec(-80, 0)} \cup (IF e = 1 THEN {Origin} ELSE {})]),
    \* two actors that meet in the open, against the walls and in the corners
    Zone(Vec(0, 0), Vec(9, 5), <<Body(1, 1, 24, 2, 0), Body(6, 3, 20, 2, 0)>>,
         NoMobs, FALSE, [e \in 1..2 |-> IF e = 1 THEN Ways(24) ELSE {Origin, Vec(-24, 0), Vec(0, 24)}]) }

-----------------------------------------------------------------------------
\* The other parts.
ASSUME LifecycleIsSane == Sane

MCIntents == <<[x |-> 600, z |-> -800, sprint |-> TRUE], [x |-> -999, z |-> 0, sprint |-> FALSE]>>

Ent(id, x, radius) == [id |-> id, pos |-> Vec(x, -1), radius |-> radius]
Painting(kind, facing, outer, inner, halfWidth, cosHalf) ==
  [kind |-> kind, at |-> Vec(1, -2), facing |-> facing, outer |-> outer, inner |-> inner,
   halfWidth |-> halfWidth, cosHalf |-> cosHalf]
CastOf(caster, shape) == [caster |-> caster, shape |-> shape, start |-> 1, resolve |-> 2]

\* One shape of each kind, a degenerate ring and a rectangle without a reach among them.
Painted == {Painting(0, Vec(0, 0), 2, 0, 0, 0), Painting(1, Vec(0, 0), 2, 1, 0, 0), Painting(1, Vec(0, 0), -1, 0, 0, 0),
            Painting(2, Vec(0, -1), 3, 0, 0, -2), Painting(3, Vec(1, 0), -1, 0, 2, 0)}

Snapshots == {<<2, 3, <<>>, <<>>>>, <<2, 0, <<Ent(1, -2, 1), Ent(2, 0, 0)>>, <<>>>>}
               \cup {<<2, 3, <<Ent(1, 2, 0)>>, <<CastOf(1, s)>>>> : s \in Painted}
Deltas == {<<2, <<>>, <<>>, <<>>, <<>>, <<>>>>,
           <<2, <<Ent(1, 1, 0)>>, <<Ent(2, -1, 1)>>, <<3>>, <<>>, <<2, 3>>>>,
           <<2, <<>>, <<>>, <<1, 2>>, <<CastOf(3, CHOOSE s \in Painted : s.kind = 2)>>, <<>>>>}
IntentBodies == {[sequence |-> 1, x |-> 2, z |-> 0, sprint |-> TRUE, mode |-> 0],
                 [sequence |-> 2, x |-> -1, z |-> 1, sprint |-> FALSE, mode |-> 0]}
AckBodies == {[applied |-> 0, tick |-> 1, pos |-> Vec(-2, 2)]}

MCMessages ==
  {[version |-> v, kind |-> Sim!Wire!Snapshot, body |-> b] : v \in 1..3, b \in Snapshots}
    \cup {[version |-> v, kind |-> Sim!Wire!SnapshotDelta, body |-> b] : v \in 1..3, b \in Deltas}
    \cup {[version |-> 3, kind |-> Sim!Wire!Intent, body |-> <<i>>] : i \in IntentBodies}
    \cup {[version |-> 3, kind |-> Sim!Wire!MovementAck, body |-> <<a>>] : a \in AckBodies}

-----------------------------------------------------------------------------
Grid == {Vec(x, z) : x \in -3..3, z \in -3..3}
Facings == {Vec(x, z) : x \in -1..1, z \in -2..1}
CatchSet(t) == {p \in Grid : Catches(t, p)}

\* isqrt is the floor of the root.
ASSUME RootLaw == \A n \in 0..200 : ISqrt(n) * ISqrt(n) <= n /\ n < (ISqrt(n) + 1) * (ISqrt(n) + 1)

\* A cone depends on the direction of its facing, not on its length; a lower cosine
\* widens it, up to the disc; a ring is its outer disc without what is inside the
\* inner one; a negative extent catches nothing (telegraph.go).
ASSUME ShapeLaws ==
  /\ \A f \in Facings, c \in {-100, -71, 0, 50, 71, 100} :
       /\ CatchSet(Cone(Origin, f, 3, c)) = CatchSet(Cone(Origin, Vec(3 * f.x, 3 * f.z), 3, c))
       /\ \A d \in {-100, -71, 0, 50, 71, 100} :
            c <= d => CatchSet(Cone(Origin, f, 3, d)) \subseteq CatchSet(Cone(Origin, f, 3, c))
       /\ CatchSet(Cone(Origin, f, 3, -100)) = CatchSet(Circle(Origin, 3))
       /\ CatchSet(Rect(Origin, f, 2, 1)) = CatchSet(Rect(Origin, Vec(2 * f.x, 2 * f.z), 2, 1))
  /\ \A r \in 0..3, s \in 0..3 : r <= s =>
       CatchSet(Ring(Origin, s, r)) = CatchSet(Circle(Origin, s)) \ {p \in Grid : Dist2(p, Origin) < r * r}
  /\ CatchSet(Circle(Origin, -1)) \cup CatchSet(Rect(Origin, Origin, 1, -1)) = {}

\* A move that is stopped at its first contact is still outside, or has not begun.
ASSUME ContactLaw ==
  \A from \in {Vec(-3, z) : z \in -2..2}, to \in {Vec(x, z) : x \in -3..3, z \in -2..2}, reach \in 1..2 :
    \A t \in FirstContact(from, to, Origin, Vec(0, 1), reach) :
      \/ t = Start
      \/ Dist2(AlongPath(from, to, t), AlongPath(Origin, Vec(0, 1), t)) >= (reach - 1) * (reach - 1)

\* What is spawned is within its bounds, alive if it has a pool and untouched if it
\* was within them (World.Add, World.AddMob).
ASSUME SpawnLaw ==
  LET z == CHOOSE z \in MCZones : z.swept IN
  /\ \A life \in {-1, 0, 1, 9, 12}, wounded \in {-1, 0, 1, 5, 9, 10, 12} :
       LET a == Sim!Added(z, [Body(99, -99, 8, 3, life) EXCEPT !.health = wounded]) IN
       /\ a.at = Vec(12, 0) /\ a.radius = 2 /\ a.health \in 0..a.maxHealth /\ a.maxHealth \in 0..MaxHealth
       /\ a.health = 0 <=> a.maxHealth = 0
       /\ life \in 1..MaxHealth /\ wounded \in 1..life => a.maxHealth = life /\ a.health = wounded
  /\ \A aggro \in {-1, 0, 20, 80, 81}, range \in {-1, 1, 20, 99} :
       LET m == Sim!AddedMob([Hunter(range, 1, 0, 0) EXCEPT !.aggro = aggro]) IN
       /\ m.range \in 0..m.aggro /\ m.aggro \in 0..80 /\ m.chase = TickHz /\ m.cast = 1
       /\ aggro \in 0..80 /\ range \in 0..aggro => m.aggro = aggro /\ m.range = range

\* A legal direction never drives an actor beyond its cap, nor half of it unless
\* it sprints (movementVelocity).
ASSUME VelocityLaw ==
  \A x \in {-1000, -999, -600, -1, 0, 1, 600, 800}, z \in {-800, -1, 0, 1, 600, 1000}, sprint \in BOOLEAN, most \in {-1, 0, 1, 7, 3500} :
    LET i == [x |-> x, z |-> z, sprint |-> sprint]
        v == Intake!Velocity(i, most)
        cap == IF most <= 0 THEN 0 ELSE IF sprint THEN most ELSE most \div 2
    IN  Intake!Legal(i) => v[1] * v[1] + v[2] * v[2] <= cap * cap

\* Sockets are alike, and so are connections.
Alike == Permutations(Handlers) \cup Permutations(Conns)
=============================================================================
