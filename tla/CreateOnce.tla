------------------------------ MODULE CreateOnce ------------------------------
(***************************************************************************)
(* Two stores of private rows that are created once and never written       *)
(* again.  nakamageneration keeps the membership of an allocator            *)
(* generation: a creation may be retried, and an identical row is adopted.  *)
(* zonecustody keeps who supervises an original zone lifetime and with what *)
(* receipt: a handle tries once, and only an acknowledgement makes custody. *)
(*                                                                         *)
(* A write goes to storage and lands there when it likes, or never, and its *)
(* caller may stop waiting at any moment.  A row's version is the digest of *)
(* its value, so a row is its own version.                                  *)
(***************************************************************************)
EXTENDS Naturals, FiniteSets

CONSTANTS Creators,   \* processes that create the one generation of this model
          Want,       \* Want[c]: the members a creator creates it with
          Founds,     \* what may be in its row before
          Owners,     \* handles on the one zone lifetime of this model
          Who,        \* Who[o]: the owner and child a handle was made for
          Receipts,   \* receipts a handle may be given: its lifetime's or not
          MaxTries    \* bound on a creator's retries

VARIABLES row,     \* what each key holds: at most one value
          sent,    \* the writes that were sent
          create,  \* the creators
          owner    \* the handles

vars == <<row, sent, create, owner>>

Init ==
  /\ row \in {[generation |-> found, enrollment |-> {}, custody |-> {}] : found \in Founds}
  /\ sent = {}
  /\ create = [c \in Creators |-> [at |-> "idle", try |-> 0, told |-> "nothing", record |-> {}]]
  /\ owner = [o \in Owners |-> [at |-> "new", attempted |-> FALSE, receipt |-> {}]]

-----------------------------------------------------------------------------
\* A create-only write lands once.  Its sender learns that it was made, if it
\* still waits and the acknowledgement is whole; nothing else tells it apart.
Send(by, try, key, value) ==
  sent' = sent \cup {[by |-> by, try |-> try, key |-> key, value |-> value, made |-> "sent"]}

Land(w) ==
  /\ w.made = "sent"
  /\ LET made == IF row[w.key] = {} THEN "made" ELSE "refused" IN
       /\ row' = IF made = "made" THEN [row EXCEPT ![w.key] = {w.value}] ELSE row
       /\ sent' = (sent \ {w}) \cup {[w EXCEPT !.made = made]}
  /\ UNCHANGED <<create, owner>>

\* Mutant of Acknowledged: a row that is there counts as one's own.
FoundThere(by, try, key) == \E w \in sent : w.by = by /\ w.try = try /\ w.key = key /\ row[key] = {w.value}
Acknowledged(by, try, key) ==
  \E w \in sent : w.by = by /\ w.try = try /\ w.key = key /\ w.made = "made"

-----------------------------------------------------------------------------
Opened(members) == [schema |-> 1, members |-> members, digest |-> members, state |-> "open"]

\* decodeDocument: schema 2 is read, not written; a digest must be its members'.
Readable(doc) ==
  /\ doc.schema \in {1, 2} /\ (doc.state = "open" \/ (doc.schema = 2 /\ doc.state = "draining"))
  /\ doc.members # {} /\ doc.digest = doc.members
ReaderOnly(doc) == doc.schema # 1

\* Mutant of Same: the generation's identity is enough.
SameIdentity(doc, want) == ~ReaderOnly(doc)
Same(doc, want) == ~ReaderOnly(doc) /\ doc = want

CreatorGoes(c, at) == create' = [create EXCEPT ![c].at = at] /\ UNCHANGED <<row, owner>>
CreatorEnds(c, told, record) ==
  /\ create' = [create EXCEPT ![c] = [at |-> "done", try |-> create[c].try, told |-> told, record |-> record]]
  /\ UNCHANGED <<row, owner>>

Adopt(c, doc) ==
  IF Same(doc, Opened(Want[c])) THEN CreatorEnds(c, "open", {doc}) ELSE CreatorEnds(c, "conflict", {})

\* CreateOpen looks before it writes; the caller retries what it was not told.
CreateOpen(c) ==
  /\ create[c].at = "idle" \/ (create[c].told \in {"unavailable", "indeterminate"} /\ create[c].at = "done")
  /\ create[c].try < MaxTries
  /\ create' = [create EXCEPT ![c] = [@ EXCEPT !.at = "load", !.try = create[c].try + 1]]
  /\ UNCHANGED <<row, sent, owner>>

Load(c) ==
  /\ create[c].at = "load" /\ UNCHANGED sent
  /\ \/ CreatorEnds(c, "unavailable", {})               \* the read failed or was cancelled
     \/ row.generation = {} /\ CreatorGoes(c, "write")
     \/ \E doc \in row.generation :
          IF Readable(doc) THEN Adopt(c, doc) ELSE CreatorEnds(c, "storage", {})

Write(c) ==
  /\ create[c].at = "write"
  /\ \/ CreatorEnds(c, "unavailable", {}) /\ UNCHANGED sent
     \/ CreatorGoes(c, "wait") /\ Send(c, create[c].try, "generation", Opened(Want[c]))

WriteReturns(c) ==
  /\ create[c].at = "wait" /\ UNCHANGED sent
  /\ \/ /\ Acknowledged(c, create[c].try, "generation")
        /\ CreatorEnds(c, "open", {Opened(Want[c])})
     \/ CreatorGoes(c, "reread")

Reread(c) ==
  /\ create[c].at = "reread" /\ UNCHANGED sent
  /\ \/ CreatorEnds(c, "indeterminate", {})             \* failed, absent or unreadable
     \/ \E doc \in row.generation : Readable(doc) /\ Adopt(c, doc)

-----------------------------------------------------------------------------
OwnerGoes(o, at) == owner' = [owner EXCEPT ![o].at = at] /\ UNCHANGED <<row, create>>

Observation(o) == [who |-> Who[o]]
Custody(o, r) == [enrollment |-> Observation(o), receipt |-> r]

\* Reserve consumes the one attempt of a handle and of its copies.
Reserve(o) ==
  /\ owner[o].at = "new" /\ ~owner[o].attempted
  /\ \/ /\ owner' = [owner EXCEPT ![o] = [at |-> "unknown", attempted |-> TRUE, receipt |-> {}]]
        /\ UNCHANGED <<row, create, sent>>
     \/ /\ owner' = [owner EXCEPT ![o] = [at |-> "enrolling", attempted |-> TRUE, receipt |-> {}]]
        /\ Send(o, 1, "enrollment", Observation(o)) /\ UNCHANGED <<row, create>>

Reserved(o) ==
  /\ owner[o].at = "enrolling" /\ UNCHANGED sent
  /\ \/ Acknowledged(o, 1, "enrollment") /\ OwnerGoes(o, "enrolled")
     \/ OwnerGoes(o, "unknown")

\* RetainOriginal, once; a receipt of another lifetime spoils the handle.
RetainOriginal(o, r) ==
  /\ owner[o].at = "enrolled"
  /\ \/ OwnerGoes(o, "unknown") /\ UNCHANGED sent
     \/ /\ r.matches
        /\ owner' = [owner EXCEPT ![o] = [at |-> "retaining", attempted |-> TRUE, receipt |-> {r}]]
        /\ Send(o, 1, "custody", Custody(o, r)) /\ UNCHANGED <<row, create>>

Retained(o) ==
  /\ owner[o].at = "retaining" /\ UNCHANGED sent
  /\ \/ Acknowledged(o, 1, "custody") /\ OwnerGoes(o, "accepted")
     \/ OwnerGoes(o, "unknown")

\* Read: both rows are there and are what the pins say.
ReadHolds(o) ==
  /\ row.enrollment = {Observation(o)}
  /\ row.custody = {Custody(o, r) : r \in owner[o].receipt}

Next ==
  \/ \E w \in sent : Land(w)
  \/ \E c \in Creators : CreateOpen(c) \/ Load(c) \/ Write(c) \/ WriteReturns(c) \/ Reread(c)
  \/ \E o \in Owners : \/ Reserve(o) \/ Reserved(o) \/ Retained(o)
                       \/ \E r \in Receipts : RetainOriginal(o, r)

Spec == Init /\ [][Next]_vars

-----------------------------------------------------------------------------
\* Every creator that is told the generation is open is told of the membership it
\* asked for, in a row writers may adopt, and that row is there whatever other
\* creators, retries and late writes do: no two believe in different members.
MembershipHolds ==
  \A c \in Creators : create[c].told = "open" =>
    create[c].record = {Opened(Want[c])} /\ row.generation = create[c].record

\* One handle at most ever has custody of the lifetime, a supervisor restarted
\* under the same name included, and its pins are what a reader finds.
OneCustody ==
  /\ Cardinality({o \in Owners : owner[o].at = "accepted"}) <= 1
  /\ \A o \in Owners : owner[o].at = "accepted" => ReadHolds(o)
=============================================================================
