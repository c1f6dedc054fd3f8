------------------------------ MODULE ZoneSim -------------------------------
(***************************************************************************)
(* The authoritative zone simulation (server/sim): movement with and       *)
(* without swept collision, capsule separation behind its spatial hash,    *)
(* the mobs' casts, the damage its owner lands from the hit log, and what  *)
(* an observer is told of it.                                              *)
(*                                                                         *)
(* One goroutine owns a world, so a step is one action; what is chosen is  *)
(* the zone (its extent, actors and mobs), what the player asks for before *)
(* any step, and when the owner drains the log.                            *)
(***************************************************************************)
EXTENDS Geometry, FiniteSets, SequencesExt

CONSTANTS Zones,     \* the zones to run: extent, actors, mobs, swept collision
          TickHz,    \* steps a second
          Passes,    \* separation passes a step (8)
          Slop,      \* overlap that is left alone (8 mm)
          MaxHealth, \* largest health pool and damage
          MaxHits,   \* entries of the hit log (1024)
          MaxEntities, \* longest list of a frame
          MaxTick    \* bound of the model on the length of a run

VARIABLES zone,
          tick,
          pos, intent, health,   \* by actor
          nextCast,              \* by mob: the earliest tick of its next cast
          inFlight,              \* mobs whose cast is not resolved
          casts,                 \* painted telegraphs in paint order
          hits, dropped,         \* the hit log and what did not fit in it
          painted,               \* casts ever painted (history)
          landed,                \* hits the owner drained and applied (history)
          deaths                 \* the death events it was given (history)

actorVars  == <<pos, intent, health>>
combatVars == <<nextCast, inFlight, casts, hits, dropped, painted>>
ownerVars  == <<landed, deaths>>
vars == <<zone, tick, actorVars, combatVars, ownerVars>>

Actors == DOMAIN zone.actors
Actor(e) == zone.actors[e]
Mobs == DOMAIN zone.mobs
Mob(m) == zone.mobs[m]
\* Identities are numbers, and every loop visits them in ascending order.
Ascending(S) == [k \in 1..Cardinality(S) |-> CHOOSE n \in S : Cardinality({o \in S : o < n}) = k - 1]

\* The entries of a list at some of its places, in their order.
At(list, places) == LET order == Ascending(places) IN [k \in DOMAIN order |-> list[order[k]]]
PairBefore(p, q) == p[1] < q[1] \/ (p[1] = q[1] /\ p[2] < q[2])
Bounded(p) == ClampVec(p, zone.min, zone.max)

-----------------------------------------------------------------------------
\* Movement.
Target(e) ==
  LET v == ClampSpeed(intent[e], Actor(e).maxSpeed)
  IN  Bounded(Plus(pos[e], Vec(Quo(v.x, TickHz), Quo(v.z, TickHz))))

Integrated == [e \in Actors |-> Target(e)]

\* pairContactTime: each of two actors moves until its own stop, then stands; the
\* earliest closing contact of the pieces between the stops.
ContactTimes(to, stop, i, j) ==
  LET at(e, t) == AlongPath(pos[e], to[e], Earlier(t, stop[e]))
      cut == <<Start, Earlier(stop[i], stop[j]), Later(stop[i], stop[j]), End>>
      contacts == UNION {{[piece |-> k, at |-> Within(cut[k], cut[k + 1], f)] :
                            f \in FirstContact(at(i, cut[k]), at(i, cut[k + 1]), at(j, cut[k]), at(j, cut[k + 1]),
                                               Actor(i).radius + Actor(j).radius)} :
                         k \in {l \in 1..3 : Before(cut[l], cut[l + 1])}}
  IN  {c.at : c \in {d \in contacts : \A e \in contacts : d.piece <= e.piece}}

\* The contacts at least one of the pair still moves through.
OpenContacts(to, stop) ==
  UNION {{[pair |-> p, at |-> t] : t \in {u \in ContactTimes(to, stop, p[1], p[2]) :
                                            Before(u, stop[p[1]]) \/ Before(u, stop[p[2]])}} :
         p \in {q \in Actors \X Actors : q[1] < q[2]}}

\* Each round stops both actors of the earliest open contact, of several the
\* first pair's; there are no more rounds than actors.
Round(to, stop) ==
  LET open  == OpenContacts(to, stop)
      first == {c \in open : \A d \in open : Before(c.at, d.at) \/ (c.at = d.at /\ ~PairBefore(d.pair, c.pair))}
  IN  [e \in Actors |-> IF \E c \in first : e \in {c.pair[1], c.pair[2]}
                        THEN Earlier((CHOOSE c \in first : TRUE).at, stop[e]) ELSE stop[e]]

SweptMove ==
  LET to    == Integrated
      stops == FoldLeft(LAMBDA stop, k : Round(to, stop), [e \in Actors |-> End],
                        [k \in 1..Cardinality(Actors) |-> k])
  IN  [e \in Actors |-> AlongPath(pos[e], to[e], stops[e])]

-----------------------------------------------------------------------------
\* Separation.
Cell == LET widest == CHOOSE r \in {Actor(e).radius : e \in Actors} : \A e \in Actors : Actor(e).radius <= r
        IN  IF 2 * widest >= 1 THEN 2 * widest ELSE 1
CellOf(p) == Vec(p.x \div Cell, p.z \div Cell)

\* Mutant of Near: only the actor's own cell is searched.
NearHere(a, b, at) == CellOf(at[a]) = CellOf(at[b])
\* The 3 x 3 cells around an actor's, as they were when the pass began.
Near(a, b, at) ==
  LET d == Minus(CellOf(at[a]), CellOf(at[b])) IN d.x \in -1..1 /\ d.z \in -1..1

Candidates(at) ==
  SetToSortSeq({p \in Actors \X Actors : p[1] < p[2] /\ Near(p[1], p[2], at)},
               PairBefore)

Overlap(at, a, b) == Actor(a).radius + Actor(b).radius - Length(Minus(at[a], at[b]))

\* The pushes of a pair a < b: half of the overlap each, the odd millimetre to
\* the higher identity; a coincident pair parts along the zone's longer side.
Pushes(at, a, b) ==
  LET half == Overlap(at, a, b) \div 2
      rest == Overlap(at, a, b) - half
      d    == Minus(at[a], at[b])
      wide == zone.max.x - zone.min.x >= zone.max.z - zone.min.z
      Axis(size) == IF wide THEN Vec(size, 0) ELSE Vec(0, size)
  IN  IF Length(d) = 0 THEN <<Axis(-half), Axis(rest)>>
      ELSE <<Scaled(d, half, Length(d)), Scaled(d, -rest, Length(d))>>

\* resolvePair: what the bounds block of one side's push is given to the other.
Resolve(at, a, b) ==
  LET push   == Pushes(at, a, b)
      wantA  == Plus(at[a], push[1])
      newA   == Bounded(wantA)
      wantB  == Minus(Plus(at[b], push[2]), Minus(wantA, newA))
      newB   == Bounded(wantB)
  IN  IF Actor(a).radius + Actor(b).radius <= 0 \/ Overlap(at, a, b) <= Slop THEN at
      ELSE [at EXCEPT ![a] = Bounded(Minus(newA, Minus(wantB, newB))), ![b] = newB]

Pass(at) == FoldLeft(LAMBDA p, pair : Resolve(p, pair[1], pair[2]), at, Candidates(at))
\* A pass that moves nobody is the last: another would change nothing either.
Separated(at) ==
  LET after[k \in 0..Passes] == IF k = 0 THEN at ELSE Pass(after[k - 1]) IN after[Passes]

-----------------------------------------------------------------------------
\* Combat, against where everyone ended.
Due == At(casts, {k \in DOMAIN casts : casts[k].resolve <= tick})

Resolution(c, at) ==
  [tick |-> tick, start |-> c.start, caster |-> c.caster, shape |-> c.shape, damage |-> Mob(c.caster).damage,
   targets |-> Ascending({e \in Actors \ {c.caster} : Catches(c.shape, at[e])})]

\* nearestTargetable: the closest actor that is not a mob, the lowest identity of
\* several; none beyond the aggro radius.
Quarry(m, at) ==
  LET seen == {e \in Actors \ Mobs :
                 Mob(m).aggro > 0 /\ Dist2(at[m], at[e]) <= Square(Mob(m).aggro)}
  IN  {e \in seen : \A f \in seen : Dist2(at[m], at[e]) < Dist2(at[m], at[f])
                      \/ (Dist2(at[m], at[e]) = Dist2(at[m], at[f]) /\ e <= f)}

InCastRange(m, e, at) ==
  Dist2(at[m], at[e]) <= Square(Mob(m).range + Actor(m).radius + Actor(e).radius)

LeastOf(a, b) == IF a < b THEN a ELSE b

\* Mutant of ChaseIntent: a slow diagonal is left as it is.
ChaseStraight(m, e, at) ==
  LET d == Minus(at[e], at[m])
  IN  ClampSpeed(Vec(d.x * TickHz, d.z * TickHz), LeastOf(Mob(m).chase, Actor(m).maxSpeed))

\* mobChaseIntent: the velocity that arrives in one step, cut to the mob's speed;
\* what would be rounded to a standstill becomes a step along one axis.
ChaseIntent(m, e, at) ==
  LET d     == Minus(at[e], at[m])
      speed == LeastOf(Mob(m).chase, Actor(m).maxSpeed)
      v     == ClampSpeed(Vec(d.x * TickHz, d.z * TickHz), speed)
      Toward(c) == IF c < 0 THEN -speed ELSE speed
  IN  IF Quo(v.x, TickHz) # 0 \/ Quo(v.z, TickHz) # 0 \/ speed < TickHz THEN v
      ELSE IF Square(d.x) >= Square(d.z) THEN Vec(Toward(d.x), 0) ELSE Vec(0, Toward(d.z))

\* decideMobCasts, for a mob whose cast is not in flight.
Chases(m)      == Mob(m).chase > 0
Closing(m, at) == {e \in Quarry(m, at) : Chases(m) /\ ~InCastRange(m, e, at)}
\* Mutant of Marks: a mark without a radius is painted as well.
MarksUnpaintable(m, at) == IF tick < nextCast[m] THEN {} ELSE Quarry(m, at) \ Closing(m, at)
Marks(m, at)   == IF tick < nextCast[m] \/ Mob(m).circle <= 0 THEN {}
                  ELSE Quarry(m, at) \ Closing(m, at)

\* Mutant of Idle: a mob does not wait for its cast.
IdleAlways(resolved) == Mobs
\* Resolution comes first, so a mob may paint again in the step its cast resolves.
Idle(resolved) == (Mobs \ inFlight) \cup resolved

CombatStep(at) ==
  LET due      == Due
      resolved == {due[k].caster : k \in DOMAIN due}
      idle     == Idle(resolved)
      room     == MaxHits - Len(hits)
      recorded == SubSeq([k \in DOMAIN due |-> Resolution(due[k], at)], 1, LeastOf(Len(due), room))
      painters == {m \in idle : Marks(m, at) # {}}
      paint(m) == [caster |-> m, start |-> tick, resolve |-> tick + Mob(m).cast,
                   shape |-> Circle(at[CHOOSE e \in Marks(m, at) : TRUE], Mob(m).circle)]
      order    == Ascending(painters)
  IN  /\ hits' = hits \o recorded
      /\ dropped' = dropped + Len(due) - Len(recorded)
      /\ casts' = At(casts, {k \in DOMAIN casts : casts[k].resolve > tick})
                    \o [k \in DOMAIN order |-> paint(order[k])]
      /\ inFlight' = (inFlight \ resolved) \cup painters
      /\ nextCast' = [m \in Mobs |-> IF m \in painters THEN tick + Mob(m).cooldown ELSE nextCast[m]]
      /\ intent' = [e \in Actors |->
           IF e \notin Mobs \/ ~Chases(e) THEN intent[e]
           ELSE IF e \notin idle \/ Closing(e, at) = {} THEN Origin
           ELSE SanitizeIntent(ChaseIntent(e, CHOOSE q \in Closing(e, at) : TRUE, at))]
      /\ painted' = painted + Cardinality(painters)

-----------------------------------------------------------------------------
Moved == IF zone.swept THEN SweptMove ELSE Integrated

Step ==
  /\ tick < MaxTick
  /\ LET at == Separated(Moved) IN pos' = at /\ CombatStep(at)
  /\ tick' = tick + 1
  /\ UNCHANGED <<zone, health, ownerVars>>

\* The player's input, taken between two steps.
SetIntent ==
  /\ tick < MaxTick
  /\ \E e \in DOMAIN zone.inputs, v \in UNION {zone.inputs[f] : f \in DOMAIN zone.inputs} :
       v \in zone.inputs[e] /\ v # intent[e] /\ intent' = [intent EXCEPT ![e] = SanitizeIntent(v)]
  /\ UNCHANGED <<zone, tick, pos, health, combatVars, ownerVars>>

\* Mutant of Spared: the dead are hurt as the living are.
SparedPoolless(state, e) == Actor(e).maxHealth = 0
\* ApplyDamage: nobody without a pool is hurt, nobody dead dies again.
Spared(state, e) == Actor(e).maxHealth = 0 \/ state.health[e] = 0
Hurt(state, e, damage) ==
  IF Spared(state, e) THEN state
  ELSE IF state.health[e] > damage
       THEN [state EXCEPT !.health[e] = @ - damage]
       ELSE [health |-> [state.health EXCEPT ![e] = 0],
             deaths |-> Append(state.deaths, [tick |-> tick, entity |-> e])]
Land(state, h) ==
  IF h.damage = 0 THEN state ELSE FoldLeft(LAMBDA s, e : Hurt(s, e, h.damage), state, h.targets)

\* The owner drains the log and lands each hit with one call.
Drain ==
  /\ hits # <<>>
  /\ LET done == FoldLeft(Land, [health |-> health, deaths |-> deaths], hits)
     IN  health' = done.health /\ deaths' = done.deaths
  /\ hits' = <<>> /\ landed' = landed + Len(hits)
  /\ UNCHANGED <<zone, tick, pos, intent, nextCast, inFlight, casts, dropped, painted>>

-----------------------------------------------------------------------------
\* What an observer is told of a world w: who is in its area of interest, and what
\* those are casting.
World == [tick |-> tick, pos |-> pos, casts |-> casts]

Interest(w, o) ==
  {e \in Actors \ {o} : Actor(o).view > 0 /\ Dist2(w.pos[o], w.pos[e]) <= Square(Actor(o).view)}

Table(w, o) ==
  [entities |-> [e \in Interest(w, o) |-> [pos |-> w.pos[e], radius |-> Actor(e).radius]],
   casts    |-> [e \in {c.caster : c \in ToSet(w.casts)} \cap Interest(w, o) |->
                   CHOOSE c \in ToSet(w.casts) : c.caster = e]]

\* The same, as messages of the current wire version.
Wire    == INSTANCE WireMessages WITH MaxWorldExtent <- WorldExtent, MaxDirection <- MaxIntent
Replica == INSTANCE ReplicaStore WITH Ids <- Actors, States <- {}, Casts <- {}

States(f)  == LET order == Ascending(DOMAIN f)
              IN  [k \in DOMAIN order |-> [id |-> order[k], pos |-> f[order[k]].pos, radius |-> f[order[k]].radius]]
WireShape(t) == [kind |-> 0, at |-> t.at, facing |-> Origin, outer |-> t.outer, inner |-> 0, halfWidth |-> 0, cosHalf |-> 0]
CastList(f) == LET order == Ascending(DOMAIN f)
               IN  [k \in DOMAIN order |-> [f[order[k]] EXCEPT !.shape = WireShape(@)]]

SnapshotOf(w, o) == <<w.tick, o, States(Table(w, o).entities), CastList(Table(w, o).casts)>>
DeltaOf(v, w, o) ==
  LET d == Replica!Delta(Table(v, o), Table(w, o))
  IN  <<w.tick, States(d.entered), States(d.moved), Ascending(d.left), CastList(d.started), Ascending(d.ended)>>

-----------------------------------------------------------------------------
\* A new world: what Add and AddMob make of an actor and of a mob.
MaxRadius == WorldExtent \div 10
Added(z, a) ==
  LET pool == Clamp(a.maxHealth, 0, MaxHealth) IN
  [a EXCEPT !.at = ClampVec(@, z.min, z.max), !.radius = Clamp(@, 0, MaxRadius), !.view = Clamp(@, 0, 4 * WorldExtent),
            !.maxHealth = pool, !.health = IF @ \in 1..pool THEN @ ELSE pool]
AddedMob(m) ==
  LET aggro == Clamp(m.aggro, 0, 4 * WorldExtent) IN
  [m EXCEPT !.aggro = aggro, !.range = Clamp(@, 0, aggro),
            !.chase = IF @ <= 0 THEN 0 ELSE Clamp(@, TickHz, MaxIntent),
            !.cast = Clamp(@, 1, 30 * TickHz), !.cooldown = Clamp(@, 0, 600 * TickHz),
            !.circle = ClampExtent(@), !.damage = Clamp(@, 0, MaxHealth)]
\* AddMob refuses a chase the actor's cap would round to a standstill.
Representable(z) ==
  \A m \in DOMAIN z.mobs : z.mobs[m].chase > 0 => z.actors[m].maxSpeed \notin 1..TickHz - 1

Init ==
  /\ \E z \in Zones :
       /\ Representable(z)
       /\ zone = [z EXCEPT !.actors = [e \in DOMAIN @ |-> Added(z, @[e])], !.mobs = [m \in DOMAIN @ |-> AddedMob(@[m])]]
  /\ pos = [e \in Actors |-> Actor(e).at] /\ health = [e \in Actors |-> Actor(e).health]
  /\ intent = [e \in Actors |-> Origin]
  /\ tick = 0 /\ nextCast = [m \in Mobs |-> 0] /\ inFlight = {}
  /\ casts = <<>> /\ hits = <<>> /\ dropped = 0 /\ painted = 0
  /\ landed = 0 /\ deaths = <<>>

Next == Step \/ SetIntent \/ Drain
Spec == Init /\ [][Next]_vars

-----------------------------------------------------------------------------
\* Every painted telegraph resolves once, a step or more after it was painted, and
\* is either in the log, landed, or counted as dropped; a mob has one in flight
\* exactly while it is painted, so neither a resolution nor a recast of the same
\* step leaves it mute (resolveDueCasts before decideMobCasts).
CastsAccounted ==
  /\ painted = Len(casts) + Len(hits) + dropped + landed
  /\ \A m \in Mobs : Cardinality({k \in DOMAIN casts : casts[k].caster = m}) = IF m \in inFlight THEN 1 ELSE 0
  /\ \A k \in DOMAIN casts : casts[k].resolve >= tick
  /\ \A k \in DOMAIN hits : hits[k].tick > hits[k].start

\* However many marks catch it, in one log or in several, an actor dies once, and
\* is told dead exactly when its health is gone.
DeathsToldOnce ==
  \A e \in Actors :
    Cardinality({k \in DOMAIN deaths : deaths[k].entity = e})
      = IF Actor(e).maxHealth > 0 /\ health[e] = 0 THEN 1 ELSE 0

\* Whatever a step leaves, the encoder takes what every observer is told of it, as a
\* join snapshot and as a delta to the step before: each cast is painted before the
\* tick it is told at, not resolved, of a shape the wire can carry and of an entity
\* the observer sees.  The hub closes a connection whose frame is refused (pump).
StepEncodes ==
  tick' # tick => \A o \in Actors :
    /\ Wire!ValidSnapshot(SnapshotOf(World', o), 2)
    /\ Wire!ValidDelta(DeltaOf(World, World', o), 2)

\* A chasing mob gets closer in every step its quarry stands still, until it may
\* cast: no rounding of a slow or diagonal pursuit freezes it.
ChaseCloses ==
  \A m \in Mobs : \A e \in Actors \ Mobs :
    /\ tick' # tick /\ tick > 0 /\ m \notin inFlight /\ e \in Closing(m, pos)
    /\ pos'[e] = pos[e] /\ Actor(m).maxSpeed > 0
    => Dist2(pos'[m], pos'[e]) < Dist2(pos[m], pos[e])

\* With swept collision no actor passes through another in a corridor, however
\* fast the two are and whoever they push: neither movement nor the separation
\* after it changes their order.
NeverCrosses ==
  zone.swept => \A a, b \in Actors :
    pos[a].x < pos[b].x /\ pos[a].z = pos[b].z => pos'[a].x <= pos'[b].x

\* Two actors alone are apart, up to the slop, when a step ends, in the open, in a
\* corner and across cells of the spatial hash, which must offer every pair that
\* overlaps.  Only a zone too small for both keeps them together.
Fits == \E side \in {zone.max.x - zone.min.x, zone.max.z - zone.min.z} :
          \A a, b \in Actors : a # b => side >= Actor(a).radius + Actor(b).radius
PairParts ==
  tick > 0 /\ Cardinality(Actors) = 2 /\ Fits =>
    \A a, b \in Actors : a < b => Overlap(pos, a, b) <= Slop
=============================================================================
