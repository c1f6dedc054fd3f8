-------------------------------- MODULE Wire --------------------------------
(***************************************************************************)
(* The frames of the replication stream (server/wire): how a message is    *)
(* laid out and what the decoder accepts.                                  *)
(*                                                                         *)
(* A frame is a sequence of words, one for each fixed-width field; signed  *)
(* fields are stored as two's complement modulo Word.                      *)
(*                                                                         *)
(* A frame under test starts as the encoding of a message and is altered   *)
(* word by word: the transport delivers whole frames in order, and a peer  *)
(* of another build may send anything.                                     *)
(***************************************************************************)
EXTENDS WireMessages

CONSTANTS Word,            \* values of a field (2^64; 2^16 and 2^8 for the narrow ones)
          Messages,        \* the messages sent
          Words,           \* the words an altered frame may hold
          MaxAlterations   \* bound of the model on the alterations of a frame

\* The fields of a body, in order; each version of a kind extends the one before.
Layout(kind, version) ==
  CASE kind = Snapshot      -> <<"tick", "id", "states">> \o (IF version > LegacyVersion THEN <<"casts">> ELSE <<>>)
    [] kind = SnapshotDelta -> <<"tick", "states", "states", "ids">>
                                 \o (IF version > LegacyVersion THEN <<"casts", "ids">> ELSE <<>>)
    [] kind = Intent        -> <<"intent">>
    [] kind = MovementAck   -> <<"ack">>

Lists == {"states", "casts", "ids"}
\* Words of a scalar field, or of one entry of a list.
Width == [tick |-> 1, id |-> 1, states |-> 4, casts |-> 12, ids |-> 1, intent |-> 5, ack |-> 4]

-----------------------------------------------------------------------------
\* appendSigned64 and signed64.
Unsigned(v) == v % Word
Signed(w)   == IF w < Word \div 2 THEN w ELSE w - Word

\* The words of a scalar field or of one list entry, and back.
ToWords(field, v) ==
  CASE field \in {"tick", "id", "ids"} -> <<v>>
    [] field = "states" -> <<v.id, Unsigned(v.pos.x), Unsigned(v.pos.z), Unsigned(v.radius)>>
    [] field = "casts"  -> LET s == v.shape IN
         <<v.caster, s.kind, Unsigned(s.at.x), Unsigned(s.at.z), Unsigned(s.facing.x), Unsigned(s.facing.z),
           Unsigned(s.outer), Unsigned(s.inner), Unsigned(s.halfWidth), Unsigned(s.cosHalf), v.start, v.resolve>>
    [] field = "intent" -> <<v.sequence, Unsigned(v.x), Unsigned(v.z), IF v.sprint THEN 1 ELSE 0, v.mode>>
    [] field = "ack"    -> <<v.applied, v.tick, Unsigned(v.pos.x), Unsigned(v.pos.z)>>

Pair(x, z) == [x |-> Signed(x), z |-> Signed(z)]

OfWords(field, w) ==
  CASE field \in {"tick", "id", "ids"} -> w[1]
    [] field = "states" -> [id |-> w[1], pos |-> Pair(w[2], w[3]), radius |-> Signed(w[4])]
    [] field = "casts"  ->
         [caster |-> w[1], start |-> w[11], resolve |-> w[12],
          shape |-> [kind |-> w[2], at |-> Pair(w[3], w[4]), facing |-> Pair(w[5], w[6]), outer |-> Signed(w[7]),
                     inner |-> Signed(w[8]), halfWidth |-> Signed(w[9]), cosHalf |-> Signed(w[10])]]
    [] field = "intent" -> [sequence |-> w[1], x |-> Signed(w[2]), z |-> Signed(w[3]), sprint |-> w[4] = 1, mode |-> w[5]]
    [] field = "ack"    -> [applied |-> w[1], tick |-> w[2], pos |-> Pair(w[3], w[4])]

FieldWords(field, v) ==
  IF field \notin Lists THEN ToWords(field, v)
  ELSE FlattenSeq(<<<<Len(v)>>>> \o [i \in DOMAIN v |-> ToWords(field, v[i])])

\* The encoders: empty for a message they refuse, which they never repair.
Encode(m) ==
  LET layout == Layout(m.kind, m.version)
  IN  IF ~Valid(m) THEN <<>>
      ELSE <<m.version, m.kind>> \o FlattenSeq([k \in DOMAIN layout |-> FieldWords(layout[k], m.body[k])])

-----------------------------------------------------------------------------
\* A reader is what is left of a frame, the fields it took, and its first error.
Failed(r, err) == [r EXCEPT !.err = err]
Take(r, n) == [r EXCEPT !.rest = SubSeq(r.rest, n + 1, Len(r.rest))]

\* listCount, then the entries: the cap is checked before the length.
ReadList(r, field) ==
  LET count   == r.rest[1]
      width   == Width[field]
      after   == Take(r, 1)
      entries == [i \in 1..count |-> OfWords(field, SubSeq(after.rest, (i - 1) * width + 1, i * width))]
  IN  IF r.rest = <<>> THEN Failed(r, "truncated")
      ELSE IF count > MaxEntities THEN Failed(r, "count")
      ELSE IF Len(after.rest) < count * width THEN Failed(r, "truncated")
      ELSE [Take(after, count * width) EXCEPT !.got = Append(@, entries)]

ReadScalar(r, field) ==
  IF Len(r.rest) < Width[field] THEN Failed(r, "truncated")
  ELSE [Take(r, Width[field]) EXCEPT !.got = Append(@, OfWords(field, r.rest))]

ReadField(r, field) ==
  IF r.err # "" THEN r ELSE IF field \in Lists THEN ReadList(r, field) ELSE ReadScalar(r, field)

\* Mutant of RefusesSprint: whatever is not one is no sprint.
SprintLoose(kind, rest) == FALSE
\* decodeMovement takes one encoding of each truth value.
RefusesSprint(kind, rest) == kind = Intent /\ Len(rest) >= Width["intent"] /\ rest[4] > 1

ReadBody(version, kind, rest) ==
  LET read == FoldLeft(ReadField, [rest |-> rest, got |-> <<>>, err |-> ""], Layout(kind, version))
      m    == [version |-> version, kind |-> kind, body |-> read.got]
  IN  IF read.err # "" THEN [err |-> read.err]
      ELSE IF RefusesSprint(kind, rest) \/ ~Valid(m) THEN [err |-> "invalid"]
      ELSE IF read.rest # <<>> THEN [err |-> "trailing"]
      ELSE [err |-> "", msg |-> m]

\* Decode: the header first; the movement kinds belong to one version only.
Decode(bytes) ==
  IF bytes = <<>> THEN [err |-> "truncated"]
  ELSE IF bytes[1] \notin Versions THEN [err |-> "version"]
  ELSE IF Len(bytes) = 1 THEN [err |-> "truncated"]
  ELSE IF bytes[2] \notin Snapshot..MovementAck THEN [err |-> "kind"]
  ELSE IF bytes[2] \in {Intent, MovementAck} /\ bytes[1] # MovementVersion THEN [err |-> "version"]
  ELSE ReadBody(bytes[1], bytes[2], SubSeq(bytes, 3, Len(bytes)))

\* A message as a peer of an older version is told it.
Told(m) == [m EXCEPT !.body = SubSeq(@, 1, Len(Layout(m.kind, m.version)))]

-----------------------------------------------------------------------------
VARIABLES sent,        \* the message
          frame,       \* its frame, as it arrives
          alterations  \* what was done to the frame

vars == <<sent, frame, alterations>>

Init == sent \in {m \in Messages : Valid(m)} /\ frame = Encode(sent) /\ alterations = 0

Alter ==
  /\ alterations < MaxAlterations
  /\ \E w \in Words :
       \/ frame' = Append(frame, w)
       \/ \E k \in DOMAIN frame : frame[k] # w /\ frame' = [frame EXCEPT ![k] = w]
  /\ alterations' = alterations + 1 /\ UNCHANGED sent

Cut ==
  /\ alterations < MaxAlterations /\ frame # <<>>
  /\ frame' = Front(frame)
  /\ alterations' = alterations + 1 /\ UNCHANGED sent

Next == Alter \/ Cut
Spec == Init /\ [][Next]_vars

-----------------------------------------------------------------------------
\* A message has one encoding and an encoding one message: what was sent decodes to
\* itself, as far as its version tells it, and whatever an altered frame decodes to
\* encodes to that very frame.  So no two frames mean the same and none is repaired
\* (wire.Decode).  A frame cut short is always told as truncated and a longer one as
\* trailing, never as another message.
CanonicalFrames ==
  LET whole == Encode(sent)
      d     == Decode(frame)
  IN  /\ d.err = "" => Valid(d.msg) /\ Encode(d.msg) = frame
      /\ frame = whole => d.err = "" /\ d.msg = Told(sent)
      /\ IsStrictPrefix(frame, whole) => d.err = "truncated"
      /\ IsStrictPrefix(whole, frame) => d.err = "trailing"
=============================================================================
