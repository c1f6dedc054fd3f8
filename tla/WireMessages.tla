---------------------------- MODULE WireMessages ----------------------------
(***************************************************************************)
(* The messages of the replication stream (server/wire) and when they are  *)
(* well formed: one predicate for the encoder and the decoder.  Pure       *)
(* operators.                                                              *)
(*                                                                         *)
(* A message is its version, its kind and the fields of its body in order: *)
(* a snapshot is <<tick, observer, entities, casts>>, a delta is           *)
(* <<tick, entered, moved, left, started, ended>>.  Heights are left out,  *)
(* as in Geometry.                                                         *)
(***************************************************************************)
EXTENDS Integers, Sequences, SequencesExt

CONSTANTS MaxEntities,     \* longest list of a message
          MaxWorldExtent,  \* largest coordinate of the wire
          CosScale,        \* fixed-point scale of a cone's cosine
          MaxDirection     \* length of a full movement direction (1000)

LegacyVersion == 1
MovementVersion == 3
Versions == LegacyVersion..MovementVersion

Snapshot == 1
SnapshotDelta == 2
Intent == 3
MovementAck == 4

InExtent(v, most) == v \in -most..most
MaxTelegraph == 4 * MaxWorldExtent
Reach(v) == v \in 1..MaxTelegraph

\* validateCastShape, by the shape's kind: what it does not use is zero.
ValidShape(s) ==
  LET aimed == s.facing.x # 0 \/ s.facing.z # 0 IN
  /\ InExtent(s.at.x, MaxWorldExtent) /\ InExtent(s.at.z, MaxWorldExtent)
  /\ \/ s.kind = 0 /\ ~aimed /\ Reach(s.outer) /\ <<s.inner, s.halfWidth, s.cosHalf>> = <<0, 0, 0>>
     \/ /\ s.kind = 1 /\ ~aimed /\ InExtent(s.outer, MaxTelegraph) /\ s.halfWidth = 0 /\ s.cosHalf = 0
        /\ IF s.outer < 0 THEN s.inner = 0 ELSE s.inner \in 0..s.outer
     \/ s.kind = 2 /\ aimed /\ Reach(s.outer) /\ s.inner = 0 /\ s.halfWidth = 0 /\ InExtent(s.cosHalf, CosScale)
     \/ /\ s.kind = 3 /\ InExtent(s.outer, MaxTelegraph) /\ InExtent(s.halfWidth, MaxTelegraph)
        /\ s.inner = 0 /\ s.cosHalf = 0

AscendingBy(list, Id(_)) ==
  Len(list) <= MaxEntities /\ \A i \in 2..Len(list) : Id(list[i - 1]) < Id(list[i])
ValidStates(list) == AscendingBy(list, LAMBDA s : s.id) /\ \A i \in DOMAIN list : list[i].radius >= 0
ValidIds(list) == AscendingBy(list, LAMBDA i : i)
\* A cast on the wire was painted before the tick it is told at and is not resolved.
ValidCasts(list, tick) ==
  /\ AscendingBy(list, LAMBDA c : c.caster)
  /\ \A i \in DOMAIN list :
       list[i].start < list[i].resolve /\ list[i].start < tick /\ list[i].resolve >= tick /\ ValidShape(list[i].shape)

IdsOf(list) == {list[i].id : i \in DOMAIN list}
Casters(list) == {list[i].caster : i \in DOMAIN list}

ValidSnapshot(body, version) ==
  /\ ValidStates(body[3])
  /\ version > LegacyVersion => ValidCasts(body[4], body[1]) /\ Casters(body[4]) \subseteq IdsOf(body[3])

ValidDelta(body, version) ==
  /\ ValidStates(body[2]) /\ ValidStates(body[3]) /\ ValidIds(body[4])
  /\ IdsOf(body[2]) \cap IdsOf(body[3]) = {}
  /\ (IdsOf(body[2]) \cup IdsOf(body[3])) \cap ToSet(body[4]) = {}
  /\ version > LegacyVersion => ValidCasts(body[5], body[1]) /\ ValidIds(body[6])

ValidIntent(i) == i.sequence # 0 /\ i.mode = 0 /\ i.x * i.x + i.z * i.z <= MaxDirection * MaxDirection
ValidAck(a)    == InExtent(a.pos.x, MaxWorldExtent) /\ InExtent(a.pos.z, MaxWorldExtent)

Valid(m) ==
  /\ m.version \in Versions
  /\ CASE m.kind = Snapshot      -> ValidSnapshot(m.body, m.version)
       [] m.kind = SnapshotDelta -> ValidDelta(m.body, m.version)
       [] m.kind = Intent        -> m.version = MovementVersion /\ ValidIntent(m.body[1])
       [] m.kind = MovementAck   -> m.version = MovementVersion /\ ValidAck(m.body[1])
=============================================================================
