--------------------------- MODULE CustodyWitness ---------------------------
(***************************************************************************)
(* The custody witness (internal/custodywitness): one forward-only record   *)
(* per allocator generation, kept in a table outside Nakama so that a       *)
(* restored Nakama can be told from the history it replaced.                *)
(*                                                                         *)
(* A record is the set of grants issued and one pin per stage reached:      *)
(* registered, drained, handoff, owner, recovered, published.  A pin, the   *)
(* digest of the acknowledgement of its stage, is that acknowledgement.     *)
(***************************************************************************)
EXTENDS Naturals, Sequences, FiniteSets

CONSTANT Writers   \* the processes that hold a client of the table

VARIABLES witness,  \* the record in the table the clients were pinned to
          pinned,   \* FALSE once another table answers under its name
          writes    \* each client's write, at most one at a time

witnessVars == <<witness, pinned, writes>>

NoWitness == [issued |-> {}, pins |-> <<>>]
Rank(r)   == Len(r.pins)

Opens(r) == Rank(r) = 1 /\ r.issued = {}

\* Another grant is registered, or the next stage is pinned on what is there.
Follows(r, previous) ==
  /\ Rank(previous) > 0
  /\ \/ /\ Rank(r) = 1 /\ Rank(previous) = 1
        /\ Cardinality(r.issued) = Cardinality(previous.issued) + 1
        /\ r.pins # previous.pins
     \/ /\ Rank(r) = Rank(previous) + 1
        /\ r.issued = previous.issued
        /\ SubSeq(r.pins, 1, Rank(previous)) = previous.pins

Truncate(r, rank) == [r EXCEPT !.pins = SubSeq(@, 1, rank)]

Classify(stored, expected) ==
  CASE stored = expected -> "verified"
    [] Rank(stored) > Rank(expected) /\ Truncate(stored, Rank(expected)) = expected -> "witness-ahead"
    [] Rank(stored) < Rank(expected) /\ Truncate(expected, Rank(stored)) = stored   -> "witness-behind"
    [] OTHER -> "conflicting"

Compare(expected) ==
  CASE ~pinned -> "table-replaced"
    [] pinned /\ witness = NoWitness -> "absent"
    [] OTHER -> Classify(witness, expected)

NotWriting == [at |-> "idle"]

\* WriteGeneration: the record must open a generation or follow the one its
\* writer holds; that one is the condition of the write.
WriteGeneration(p, previous, next) ==
  /\ writes' = [writes EXCEPT ![p] =
       IF (previous = NoWitness /\ Opens(next)) \/ Follows(next, previous)
       THEN [at |-> "put", was |-> previous, is |-> next] ELSE [at |-> "unknown"]]
  /\ UNCHANGED <<witness, pinned>>

WriteGoes(p, at) == writes' = [writes EXCEPT ![p].at = at]

\* Mutant of PutLands: the write is unconditional.
PutAlways(p) == TRUE
PutLands(p) == witness = writes[p].was

\* The conditional write; its reply may be lost whether or not it was made.
Put(p) ==
  /\ writes[p].at = "put"
  /\ IF ~pinned THEN (\E at \in {"confirm", "reread", "unknown"} : WriteGoes(p, at)) /\ UNCHANGED witness
     ELSE \/ /\ PutLands(p) /\ witness' = writes[p].is
             /\ (WriteGoes(p, "confirm") \/ WriteGoes(p, "reread"))
          \/ /\ ~PutLands(p) /\ WriteGoes(p, "unknown") /\ UNCHANGED witness
          \/ /\ WriteGoes(p, "reread") /\ UNCHANGED witness
  /\ UNCHANGED pinned

\* An acknowledgement counts only from the pinned table.
Confirm(p) ==
  /\ writes[p].at = "confirm"
  /\ WriteGoes(p, IF pinned THEN "ok" ELSE "unknown")
  /\ UNCHANGED <<witness, pinned>>

\* An unknown outcome is read back once, and must be there exactly.
Reread(p) ==
  /\ writes[p].at = "reread"
  /\ \/ pinned /\ witness = writes[p].is /\ WriteGoes(p, "ok")
     \/ WriteGoes(p, "unknown")
  /\ UNCHANGED <<witness, pinned>>

ReplaceTable == pinned /\ pinned' = FALSE /\ UNCHANGED <<witness, writes>>

WitnessStep == \/ ReplaceTable
               \/ \E p \in Writers : Put(p) \/ Confirm(p) \/ Reread(p)

Written(p)  == writes[p].at = "ok"
Unwritten(p) == writes[p].at = "unknown"
EndWrite(p) == writes' = [writes EXCEPT ![p] = NotWriting] /\ UNCHANGED <<witness, pinned>>
=============================================================================
