---------------------------- MODULE PlayerState ----------------------------
(***************************************************************************)
(* The player stores: playerstate commits one record together with the     *)
(* audit of the mutation that wrote it; nakamacharacter and nakamainventory *)
(* save a document through it, nakamamastery applies events.  Calls are     *)
(* concurrent, are retried under their idempotency key after a lost or      *)
(* failed answer, and reuse a key for something else.                       *)
(*                                                                         *)
(* One account and one of its records are modelled; its storage is         *)
(* Nakama's, as nakamastoragetest's fake serves it: a batch is applied      *)
(* whole or not at all, and every write of an object is a new version.      *)
(* A document is read strictly or not at all, and is the set of its         *)
(* members: their order is not content.                                     *)
(***************************************************************************)
EXTENDS Integers, Sequences, FiniteSets, FiniteSetsExt, SequencesExt

CONSTANTS Calls,          \* concurrent callers
          Events,         \* mastery events, each with its identity
          Containers,     \* inventory saves: a key and a sequence of stacks
          Characters,     \* character saves: a key, a name and the members of a recipe
          Weapons,
          Bank,           \* points that turn into banked ones together (100)
          MaxExact,       \* largest total of one weapon (2^53 - 1)
          MaxStacks, MaxStackCount

VARIABLES kind,     \* which store the record belongs to: inventory, character or mastery
          record,   \* the stored object: its value and version
          audits,   \* the audit objects of the account, by idempotency key
          calls,
          awarded,  \* points credited by committed awards (history)
          lost      \* points destroyed by committed deaths (history)

vars == <<kind, record, audits, calls, awarded, lost>>

-----------------------------------------------------------------------------
\* Documents of the inventory and of the character.
Document(members) == [doc |-> ToSet(members)]

\* normalize: every item once, every stack within bounds.
ValidStacks(stacks) ==
  /\ Len(stacks) <= MaxStacks
  /\ \A i \in DOMAIN stacks : stacks[i].item # "" /\ stacks[i].count \in 1..MaxStackCount
  /\ \A i, j \in DOMAIN stacks : stacks[i].item = stacks[j].item => i = j
EncodeContainer(save) ==
  [ok |-> ValidStacks(save.stacks), key |-> save.key, payload |-> Document(save.stacks)]

EncodeCharacter(save) ==
  [ok |-> save.name # "", key |-> save.key, payload |-> [name |-> save.name] @@ Document(save.recipe)]

Encode(save) == IF kind = "inventory" THEN EncodeContainer(save) ELSE EncodeCharacter(save)

-----------------------------------------------------------------------------
\* Mastery (nakamamastery/state.go, transition.go, decode.go).
NoPoints == [w \in Weapons |-> 0]
Fresh    == [weapons |-> [w \in Weapons |-> [banked |-> 0, unbanked |-> 0]],
             stain |-> [id |-> "", points |-> NoPoints]]

Total(points) == MapThenSumSet(LAMBDA w : points[w], Weapons)
Held(state)   == [w \in Weapons |-> state.weapons[w].banked + state.weapons[w].unbanked]
Worth(state)  == Total(Held(state)) + Total(state.stain.points)

\* A state knows finitely many weapons (maxWeapons); the points one of them may lose
\* are whole, and those of all of them together are still a number JSON keeps.
ASSUME WeaponsAreFinite == IsFiniteSet(Weapons)
ASSUME BankIsPositive == Bank \in Nat \ {0}
ASSUME StainsFit == MaxExact \in Nat /\ Total([w \in Weapons |-> Bank - 1]) <= MaxExact

\* seal: an event is one of three operations, with what it needs.
ASSUME EventsAreSealed ==
  \A e \in Events :
    /\ e.key # "" /\ e.op \in {"award", "death", "reclaim"}
    /\ e.op = "award" => e.weapon \in Weapons /\ e.amount \in Int
    /\ e.op = "death" => e.percent \in 0..100

\* validateState: what the retained reader accepts.
ValidState(state) ==
  /\ \A w \in Weapons :
       LET t == state.weapons[w] IN
       /\ t.banked \in 0..MaxExact /\ t.banked % Bank = 0
       /\ t.unbanked \in 0..Bank - 1 /\ t.unbanked <= MaxExact - t.banked
       /\ state.stain.points[w] \in 0..Bank - 1
  /\ (state.stain.id = "") = (state.stain.points = NoPoints)

\* add: a positive amount that fits; whole hundreds become banked.
Fits(track, amount) == amount > 0 /\ amount <= MaxExact - (track.banked + track.unbanked)
Add(track, amount) ==
  LET total == track.banked + track.unbanked + amount
  IN [banked |-> (total \div Bank) * Bank, unbanked |-> total % Bank]

Dropped(state, percent) == [w \in Weapons |-> (state.weapons[w].unbanked * percent) \div 100]

Outcome(op, credited, dropped, destroyed, state) ==
  [kind |-> op, credited |-> credited, dropped |-> dropped, destroyed |-> destroyed, state |-> state]
NotApplicable == [ok |-> FALSE]
Applicable(outcome) == [ok |-> TRUE, state |-> outcome.state, outcome |-> outcome]

AwardTo(state, e) ==
  IF Fits(state.weapons[e.weapon], e.amount)
  THEN Applicable(Outcome("award", e.amount, NoPoints, NoPoints,
                          [state EXCEPT !.weapons[e.weapon] = Add(@, e.amount)]))
  ELSE NotApplicable

\* A death drops a share of what is unbanked; a new stain destroys the old one.
Death(state, e) ==
  LET dropped == Dropped(state, e.percent)
      left    == [w \in Weapons |-> [state.weapons[w] EXCEPT !.unbanked = @ - dropped[w]]] IN
  Applicable(IF dropped = NoPoints THEN Outcome("death", 0, NoPoints, NoPoints, state)
             ELSE Outcome("death", 0, dropped, state.stain.points,
                          [weapons |-> left, stain |-> [id |-> e.key, points |-> dropped]]))

Reclaim(state, e) ==
  LET points == state.stain.points
      stained == {w \in Weapons : points[w] > 0}
      regained == [w \in Weapons |-> IF w \in stained THEN Add(state.weapons[w], points[w]) ELSE state.weapons[w]] IN
  IF e.stain # "" /\ e.stain = state.stain.id /\ \A w \in stained : Fits(state.weapons[w], points[w])
  THEN Applicable(Outcome("reclaim", Total(points), NoPoints, NoPoints,
                          [weapons |-> regained, stain |-> Fresh.stain]))
  ELSE NotApplicable

Transition(state, e) ==
  LET next == CASE e.op = "award"   -> AwardTo(state, e)
                [] e.op = "death"   -> Death(state, e)
                [] e.op = "reclaim" -> Reclaim(state, e)
  IN IF next.ok /\ ValidState(next.state) THEN next ELSE NotApplicable

\* decodeOutcome: what the retained reader accepts of an audit.
Decodable(o) ==
  /\ ValidState(o.state) /\ o.credited \in 0..MaxExact
  /\ \A w \in Weapons : o.dropped[w] \in 0..Bank - 1 /\ o.destroyed[w] \in 0..Bank - 1
  /\ IF o.kind = "death"
     THEN /\ o.credited = 0
          /\ IF o.dropped = NoPoints THEN o.destroyed = NoPoints ELSE o.dropped = o.state.stain.points
     ELSE o.credited > 0 /\ o.dropped = NoPoints /\ o.destroyed = NoPoints
  /\ o.kind = "reclaim" => o.state.stain.id = ""

\* historical: the outcome is of this event.
Historical(o, e) ==
  /\ Decodable(o) /\ o.kind = e.op
  /\ o.kind = "award" => o.credited = e.amount
  /\ o.kind = "death" /\ o.dropped # NoPoints => o.state.stain.id = e.key

-----------------------------------------------------------------------------
\* Storage.
Malformed == [is |-> "malformed"]
NoRecord  == [value |-> [is |-> "absent"], version |-> 0]   \* version 0 is the "*" of a create
NoAudit   == [request |-> [is |-> "absent"]]

Requests  == CASE kind = "mastery" -> Events [] kind = "inventory" -> Containers [] kind = "character" -> Characters
Keys      == {r.key : r \in Events} \cup {r.key : r \in Containers} \cup {r.key : r \in Characters}
Idle      == [pc |-> "idle"]

Init ==
  /\ kind \in {"inventory", "character", "mastery"}
  /\ record \in {NoRecord, [value |-> Malformed, version |-> 1]}
  /\ \E bad \in SUBSET Keys : Cardinality(bad) <= 1 /\
       audits = [k \in Keys |-> IF k \in bad THEN [request |-> Malformed] ELSE NoAudit]
  /\ calls = [c \in Calls |-> Idle]
  /\ awarded = 0 /\ lost = 0

Step(c, next) == calls' = [calls EXCEPT ![c] = next]
Goto(c, pc)   == Step(c, [calls[c] EXCEPT !.pc = pc])
\* A call keeps what it asked and what it was answered until its caller asks again.
Answer(c, answer) ==
  Step(c, [pc |-> "done", request |-> calls[c].request, answer |-> answer])
ReadOnly == UNCHANGED <<kind, record, audits, awarded, lost>>
Failed(c) == Answer(c, [as |-> "storage"])

\* The strict readers: of an audit, of a stored document, of a mastery record.
ReadableAudit(audit) == audit.request # Malformed
Readable == record.value # Malformed
Decoded  == IF record = NoRecord THEN Fresh ELSE record.value

Reported(c, outcome) ==
  IF kind = "mastery" /\ ~Historical(outcome, calls[c].request) THEN Failed(c)
  ELSE Answer(c, [as |-> "ok", outcome |-> outcome])

\* resolveExistingAudit: the same key must name the same request.
Resolved(c) ==
  LET audit == audits[calls[c].request.key] IN
  CASE ~ReadableAudit(audit) -> Failed(c)
    [] ReadableAudit(audit) /\ audit.request = calls[c].request -> Reported(c, audit.outcome)
    [] OTHER -> Answer(c, [as |-> "key conflict"])
Audited(c) == audits[calls[c].request.key] # NoAudit

-----------------------------------------------------------------------------
\* A save quotes the version its caller observed, at whatever time, or "*".
Ask(c) ==
  /\ calls[c].pc \in {"idle", "done"}
  /\ \E r \in Requests :
       IF kind = "mastery" THEN \E pc \in {"lookup", "resolve"} : Step(c, [pc |-> pc, request |-> r])
       ELSE \E v \in 0..record.version : Step(c, [pc |-> "observe", request |-> r, version |-> v])
  /\ ReadOnly

\* The document is encoded: two requests with one canonical form are one request.
Encoded(c) ==
  LET encoded == Encode(calls[c].request)
      request == [key |-> encoded.key, payload |-> encoded.payload] IN
  IF ~encoded.ok THEN Answer(c, [as |-> "not a document"])
  ELSE Step(c, [pc |-> "apply", request |-> request, version |-> calls[c].version,
                next |-> [ok |-> TRUE, state |-> request.payload, outcome |-> Cardinality(request.payload.doc)]])

\* Mutant of Observe: a quoted version is evidence enough.
ObserveNothing(c) == calls[c].pc = "observe" /\ Encoded(c) /\ ReadOnly

\* LoadBeforeReplace: an unreadable record is not overwritten.
Observe(c) ==
  /\ calls[c].pc = "observe"
  /\ IF calls[c].version # 0 /\ ~Readable THEN Failed(c)
     ELSE \/ Encoded(c)
          \/ calls[c].version # 0 /\ Failed(c)
  /\ ReadOnly

\* Store.Apply of mastery: replay before state.
Lookup(c) ==
  /\ calls[c].pc = "lookup"
  /\ \/ IF Audited(c) THEN Resolved(c) ELSE Goto(c, "load")
     \/ Failed(c)
  /\ ReadOnly

\* Nothing is dispatched that the retained reader would refuse.
Load(c) ==
  /\ calls[c].pc = "load"
  /\ \/ /\ Readable
        /\ LET next == Transition(Decoded, calls[c].request)
           IN IF next.ok /\ ~Decodable(next.outcome) THEN Answer(c, [as |-> "invalid"])
              ELSE Step(c, [pc |-> IF next.ok THEN "apply" ELSE "relook", request |-> calls[c].request,
                            version |-> record.version, next |-> next])
     \/ Failed(c)
  /\ ReadOnly

\* Store.Resolve: no audit is no evidence that a write failed.
Resolve(c) ==
  /\ calls[c].pc = "resolve"
  /\ \/ IF Audited(c) THEN Resolved(c) ELSE Answer(c, [as |-> "indeterminate"])
     \/ Answer(c, [as |-> "indeterminate"])
  /\ ReadOnly

\* Mutant of Relook: an event the state refuses is refused.
RelookNothing(c) ==
  calls[c].pc = "relook" /\ Answer(c, [as |-> "invalid"]) /\ ReadOnly

\* An event the state refuses may be the one that changed it.
Relook(c) ==
  /\ calls[c].pc = "relook"
  /\ \/ IF Audited(c) THEN Resolved(c) ELSE Answer(c, [as |-> "invalid"])
     \/ Failed(c)
  /\ ReadOnly

\* playerstate.Apply reads the audit, then writes record and audit together.
Apply(c) ==
  /\ calls[c].pc = "apply"
  /\ \/ IF Audited(c) THEN Resolved(c) ELSE Goto(c, "write")
     \/ Failed(c)
  /\ ReadOnly

\* Mutant of Accepted: the record is replaced whatever its version.
AcceptedUnversioned(c) == ~Audited(c)
\* One rejected version rejects the batch; the audit is create-only.
Accepted(c) == calls[c].version = record.version /\ ~Audited(c)

Commits(c) ==
  LET next == calls[c].next IN
  /\ record' = [value |-> next.state, version |-> record.version + 1]
  /\ audits' = [audits EXCEPT ![calls[c].request.key] =
                  [request |-> calls[c].request, outcome |-> next.outcome]]
  /\ IF kind = "mastery"
     THEN /\ awarded' = awarded + IF next.outcome.kind = "award" THEN next.outcome.credited ELSE 0
          /\ lost' = lost + Total(next.outcome.destroyed)
     ELSE UNCHANGED <<awarded, lost>>
  /\ UNCHANGED kind

Write(c) ==
  /\ calls[c].pc = "write"
  /\ \/ /\ Accepted(c) /\ Commits(c)
        /\ \/ Reported(c, calls[c].next.outcome)
           \/ Step(c, [calls[c] EXCEPT !.pc = "unsure"])   \* the acknowledgement is lost
     \/ (~Accepted(c) /\ Goto(c, "rejected") /\ ReadOnly)
     \/ (Goto(c, "unsure") /\ ReadOnly)                     \* nothing was written

\* Mutant of AfterWrite: a rejected version is a conflict, whoever wrote.
RejectedIsConflict(c) ==
  /\ calls[c].pc \in {"rejected", "unsure"}
  /\ IF calls[c].pc = "rejected" THEN Answer(c, [as |-> "conflict"])
     ELSE IF Audited(c) THEN Resolved(c) ELSE Answer(c, [as |-> "indeterminate"])
  /\ ReadOnly

\* resolveAfterWrite.
AfterWrite(c) ==
  /\ calls[c].pc \in {"rejected", "unsure"}
  /\ \/ IF Audited(c) THEN Resolved(c)
        ELSE IF calls[c].pc = "rejected" THEN Answer(c, [as |-> "conflict"])
        ELSE Answer(c, [as |-> "indeterminate"])
     \/ Answer(c, [as |-> "indeterminate"])
  /\ ReadOnly

Next == \E c \in Calls : \/ Ask(c) \/ Observe(c) \/ Lookup(c) \/ Load(c) \/ Relook(c) \/ Resolve(c)
                         \/ Apply(c) \/ Write(c) \/ AfterWrite(c)

Spec == Init /\ [][Next]_vars

-----------------------------------------------------------------------------
\* No point is minted or lost outside an award and the stain a death destroys,
\* however calls overlap and are repeated: a retried award counts once, two
\* events that read the same state do not overwrite each other.
PointsConserved ==
  kind = "mastery" /\ record.value \notin {NoRecord.value, Malformed} =>
    Worth(record.value) + lost = awarded

\* An answer agrees with the audit at the moment it is given: ok reports the
\* committed outcome of this very request, and a refusal (the state, a version)
\* means that the request's key has committed nothing, so a retry of a committed
\* mutation is never told that it failed.
\* And a record this server cannot read is never replaced: not by a create, not by a
\* caller that quotes its version.
AnswerAgrees(c) ==
  calls[c].pc # "done" /\ calls'[c].pc = "done" =>
    LET audit == audits'[calls'[c].request.key]
        answer == calls'[c].answer
    IN /\ answer.as = "ok" => audit.request = calls'[c].request /\ audit.outcome = answer.outcome
       /\ answer.as \in {"conflict", "invalid"} => audit = NoAudit
MalformedKept == record.value = Malformed => record' = record
AnswersMatchAudit == [][(\A c \in Calls : AnswerAgrees(c)) /\ MalformedKept]_vars
=============================================================================
