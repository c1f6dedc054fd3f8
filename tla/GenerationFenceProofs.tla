----------------------- MODULE GenerationFenceProofs -----------------------
(***************************************************************************)
(* The closed generation, for any number of servers, grants, recoverers,   *)
(* restores and changes of a server, with and without a witness.           *)
(***************************************************************************)
EXTENDS GenerationFence, FiniteSetTheorems, TLAPS

USE DEF None

Outcomes     == {"allocated", "uncommitted"}
Observations == UNION {[D -> Outcomes] : D \in SUBSET Servers}
Stages == {"registered", "drained", "handoff", "owner", "recovered", "published"}
Pin    == [stage : Stages, of : (SUBSET Servers) \cup Recoverers \cup Observations]
Record == [issued : SUBSET Servers, pins : Seq(Pin)]
Row   == [phase : {"open", "draining"}, grants : SUBSET Servers]

Server == [version : Nat, state : {"ready", "allocated", "shutdown"}, barrier : Writers \cup {None}]
GrantAts == {None, "prepared", "register", "witness", "issued", "submitted", "done", "refused"}
GenPCs   == {"open", "drain to fence", "drain to hand off", "fence", "hand off", "handed",
             "closed", "failed"}
Gen == [pc : GenPCs, closed : BOOLEAN, uncertain : BOOLEAN, gate : Servers \cup {"free", Owner},
        head : Row, issued : SUBSET Servers, acked : Record]


\* One field of a generation at a time; the operators that change several.
LEMMA GenEdits ==
  ASSUME NEW g \in Gen
  PROVE  /\ \A v \in GenPCs : [g EXCEPT !.pc = v] \in Gen
         /\ \A v \in BOOLEAN : [g EXCEPT !.closed = v] \in Gen
         /\ \A v \in BOOLEAN : [g EXCEPT !.uncertain = v] \in Gen
         /\ \A v \in Servers \cup {"free", Owner} : [g EXCEPT !.gate = v] \in Gen
         /\ \A v \in Row : [g EXCEPT !.head = v] \in Gen
         /\ \A v \in SUBSET Servers : [g EXCEPT !.issued = v] \in Gen
         /\ \A v \in Record : [g EXCEPT !.acked = v] \in Gen
BY DEF Gen

LEMMA Breaking ==
  ASSUME NEW g \in Gen
  PROVE  /\ Broken(g) \in Gen /\ Broken(g).gate = "free" /\ Broken(g).closed /\ Broken(g).uncertain
         /\ Broken(g).pc = g.pc /\ Broken(g).head = g.head /\ Broken(g).issued = g.issued
         /\ Broken(g).acked = g.acked
<1>1. [g EXCEPT !.gate = "free"] \in Gen
  BY GenEdits
<1>2. [[g EXCEPT !.gate = "free"] EXCEPT !.closed = TRUE] \in Gen
  BY <1>1, GenEdits
<1>3. [[[g EXCEPT !.gate = "free"] EXCEPT !.closed = TRUE] EXCEPT !.uncertain = TRUE] \in Gen
  BY <1>2, GenEdits
<1>4. Broken(g) \in Gen
  BY <1>3, Zenon DEF Broken
<1>5. /\ Broken(g).gate = "free" /\ Broken(g).closed /\ Broken(g).uncertain
      /\ Broken(g).pc = g.pc /\ Broken(g).head = g.head /\ Broken(g).issued = g.issued
      /\ Broken(g).acked = g.acked
  BY DEF Broken, Gen
<1> QED  BY <1>4, <1>5

LEMMA Failing ==
  ASSUME NEW g \in Gen
  PROVE  LET n == [Broken(g) EXCEPT !.pc = "failed"] IN
         /\ n \in Gen /\ n.pc = "failed" /\ n.gate = "free" /\ n.closed /\ n.uncertain
         /\ n.head = g.head /\ n.issued = g.issued /\ n.acked = g.acked
<1> DEFINE b == Broken(g)
           n == [b EXCEPT !.pc = "failed"]
<1>1. /\ b \in Gen /\ b.gate = "free" /\ b.closed /\ b.uncertain
      /\ b.head = g.head /\ b.issued = g.issued /\ b.acked = g.acked
  BY Breaking
<1> HIDE DEF b
<1>2. n \in Gen
  BY <1>1, GenEdits DEF GenPCs
<1>3. /\ n.pc = "failed" /\ n.gate = b.gate /\ n.closed = b.closed /\ n.uncertain = b.uncertain
      /\ n.head = b.head /\ n.issued = b.issued /\ n.acked = b.acked
  BY <1>1 DEF Gen
<1> QED  BY <1>1, <1>2, <1>3 DEF b

\* The records a writer writes.
LEMMA Recording ==
  /\ \A gs \in SUBSET Servers : Registration(gs) \in Record
  /\ \A r \in Record, stage \in Stages, of \in (SUBSET Servers) \cup Recoverers \cup Observations :
       /\ Pinned(r, stage, of) \in Record /\ Rank(Pinned(r, stage, of)) = Rank(r) + 1
       /\ Pinned(r, stage, of).issued = r.issued
       /\ Pinned(r, stage, of).pins = Append(r.pins, StagePin(stage, of))
<1>1. \A gs \in SUBSET Servers : Registration(gs) \in Record
  BY DEF Registration, Record, Pin, StagePin, Stages
<1>2. ASSUME NEW r \in Record, NEW stage \in Stages,
             NEW of \in (SUBSET Servers) \cup Recoverers \cup Observations
      PROVE  /\ Pinned(r, stage, of) \in Record /\ Rank(Pinned(r, stage, of)) = Rank(r) + 1
             /\ Pinned(r, stage, of).issued = r.issued
             /\ Pinned(r, stage, of).pins = Append(r.pins, StagePin(stage, of))
  <2>1. StagePin(stage, of) \in Pin
    BY DEF StagePin, Pin
  <2>2. r.pins \in Seq(Pin) /\ Append(r.pins, StagePin(stage, of)) \in Seq(Pin)
    BY <2>1 DEF Record
  <2> QED  BY <2>1, <2>2 DEF Pinned, Record, Rank
<1> QED  BY <1>1, <1>2

-----------------------------------------------------------------------------
\* No registration is under way, and none will begin.
Settled == gen.closed /\ \A s \in Servers : grants[s].at \notin {"register", "witness"}

GenTyped ==
  /\ grants \in [Servers -> [at : GrantAts, frozen : Nat]]
  /\ server \in [Servers -> Server]
  /\ gen \in Gen /\ committed \subseteq Servers /\ registered \subseteq Servers /\ IsFiniteSet(registered)
  /\ handed \in {[at |-> None]} \cup [at : {"handed"}, head : Row, acked : Record]
  /\ drained \in BOOLEAN

\* A frozen version is never ahead of its server; it is behind once the server was
\* committed or barred. A registration in progress holds the gate.
GrantInv ==
  /\ \A s \in Servers :
       /\ grants[s].at # None => grants[s].frozen <= server[s].version
       /\ server[s].barrier # None => grants[s].at # None /\ grants[s].frozen < server[s].version
       /\ s \in committed => s \in gen.issued /\ grants[s].frozen < server[s].version
       /\ server[s].state = "allocated" => s \in committed
       /\ grants[s].at \in {"issued", "submitted"} => s \in gen.issued
       /\ s \in gen.issued => grants[s].at \notin {None, "prepared", "register", "witness"}
       /\ grants[s].at \in {"register", "witness"} => gen.gate = s
  /\ gen.head.grants = gen.issued

\* Once the row is drained nothing is registered any more; what is handed on is the
\* drained row.
PhaseInv ==
  /\ gen.pc # "open" => gen.closed
  /\ gen.uncertain => gen.closed /\ gen.gate = "free"
  /\ gen.gate = Owner \/ gen.pc \in {"fence", "hand off", "handed", "closed"} => drained
  /\ gen.gate = Owner \/ gen.pc \in {"hand off", "handed", "closed"} => gen.head.phase = "draining"
  /\ drained => Settled
  /\ handed.at # None => gen.pc = "closed" /\ handed.head = gen.head

\* Every issued grant is registered, and without doubt no other but the one that
\* waits for its witness.
RegisteredInv ==
  /\ gen.issued \subseteq registered
  /\ \A s \in Servers : grants[s].at = "witness" => s \in registered
  /\ gen.uncertain \/ \A s \in registered : s \in gen.issued \/ grants[s].at = "witness"
  /\ drained => registered = gen.issued
  /\ \A s \in Servers : grants[s].at = "register" => Cardinality(gen.issued) < MaxGrants

GenInv == GenTyped /\ GrantInv /\ PhaseInv /\ RegisteredInv

\* What a step may change of what was judged before it.
Later ==
  /\ \A s \in Servers :
       /\ server[s].version <= server'[s].version
       /\ server[s].barrier # None => server'[s].barrier # None
       /\ grants[s].at # None => grants'[s].at # None /\ grants'[s].frozen = grants[s].frozen
       /\ s \in committed => s \in committed'
       /\ s \in committed' /\ s \notin committed =>
            grants[s].frozen = server[s].version /\ server[s].version < server'[s].version
  /\ Settled => Settled' /\ gen'.issued = gen.issued
  /\ drained => drained'
  /\ handed.at # None => handed' = handed

Kept == GenInv' /\ Later

LEMMA GrantMoves ==
  ASSUME GenTyped, NEW s \in Servers, NEW at \in GrantAts, GrantAt(s, at)
  PROVE  /\ grants' \in [Servers -> [at : GrantAts, frozen : Nat]]
         /\ \A k \in Servers : k # s => grants'[k] = grants[k]
         /\ \A k \in Servers : grants'[k].frozen = grants[k].frozen
         /\ grants'[s].at = at
BY DEF GrantAt, GenTyped

\* A grant that moves on while the generation stands still.
LEMMA OnlyMoves ==
  ASSUME Sane, GenInv, NEW s \in Servers, NEW at \in GrantAts, GrantAt(s, at),
         UNCHANGED <<server, gen, handed, committed, registered, drained>>,
         grants[s].at # None, at \notin {None, "prepared", "register", "witness"},
         at \in {"issued", "submitted"} => s \in gen.issued, grants[s].at # "witness"
  PROVE  Kept
<1>1. /\ grants' \in [Servers -> [at : GrantAts, frozen : Nat]]
      /\ \A k \in Servers : k # s => grants'[k] = grants[k]
      /\ \A k \in Servers : grants'[k].frozen = grants[k].frozen
      /\ grants'[s].at = at
  BY GrantMoves DEF GenInv
<1>2. GenTyped'
  BY <1>1 DEF GenInv, GenTyped
<1>3. GrantInv'
  BY <1>1 DEF GenInv, GenTyped, GrantInv, Server
<1>4. Settled => Settled'
  BY <1>1 DEF Settled
<1>5. PhaseInv'
  BY <1>4 DEF GenInv, PhaseInv
<1>6. RegisteredInv'
  BY <1>1 DEF GenInv, GenTyped, RegisteredInv
<1>7. Later
  BY <1>1, <1>4 DEF Later, Server, GenInv, GenTyped, GrantInv
<1> QED  BY <1>2, <1>3, <1>5, <1>6, <1>7 DEF Kept, GenInv

\* Steps that touch none of this.
LEMMA StandsStill ==
  ASSUME GenInv, UNCHANGED <<server, grants, gen, handed, committed, registered, drained>>
  PROVE  Kept
<1>1. GenInv' /\ (Settled => Settled')
  BY DEF GenInv, GenTyped, GrantInv, PhaseInv, RegisteredInv, Settled
<1> QED  BY <1>1 DEF Kept, Later, Server, GenInv, GenTyped

LEMMA PrepareKeeps ==
  ASSUME Sane, GenInv, NEW s \in Servers, Prepare(s)
  PROVE  Kept
<1>1. /\ grants' = [grants EXCEPT ![s] = [at |-> "prepared", frozen |-> server[s].version]]
      /\ grants[s].at = None /\ ~gen.closed /\ server[s].state = "ready" /\ server[s].barrier = None
      /\ UNCHANGED <<server, gen, handed, committed, registered, drained>>
  BY DEF Prepare, Admitting
<1>2. /\ grants' \in [Servers -> [at : GrantAts, frozen : Nat]]
      /\ \A k \in Servers : k # s => grants'[k] = grants[k]
      /\ grants'[s].at = "prepared" /\ grants'[s].frozen = server[s].version
  BY <1>1 DEF GenInv, GenTyped, GrantAts, Server
<1>3. GenTyped'
  BY <1>1, <1>2 DEF GenInv, GenTyped
<1>4. s \notin gen.issued /\ s \notin committed
  BY <1>1 DEF GenInv, GrantInv
<1>5. GrantInv'
  BY <1>1, <1>2, <1>4 DEF GenInv, GenTyped, GrantInv, Server
<1>6. ~Settled /\ ~drained
  BY <1>1 DEF Settled, GenInv, PhaseInv
<1>7. PhaseInv'
  BY <1>1, <1>6 DEF GenInv, PhaseInv
<1>8. RegisteredInv'
  BY <1>1, <1>2, <1>6 DEF GenInv, GenTyped, RegisteredInv
<1>9. Later
  BY <1>1, <1>2, <1>6 DEF Later, Server, GenInv, GenTyped, GrantInv
<1> QED  BY <1>3, <1>5, <1>7, <1>8, <1>9 DEF Kept, GenInv

LEMMA TakeGateKeeps ==
  ASSUME Sane, GenInv, NEW s \in Servers, TakeGate(s)
  PROVE  Kept
<1>0. grants[s].at = "prepared" /\ UNCHANGED <<server, handed, committed, registered, drained>>
  BY DEF TakeGate
<1>1. CASE GrantAt(s, "refused") /\ UNCHANGED gen
  BY <1>0, <1>1, OnlyMoves DEF GrantAts
<1>2. CASE ~(GrantAt(s, "refused") /\ UNCHANGED gen)
  <2>1. /\ gen.gate = "free" /\ Admitting /\ GrantAt(s, "register")
        /\ gen' = [gen EXCEPT !.gate = s]
    BY <1>2 DEF TakeGate
  <2>2. /\ grants' \in [Servers -> [at : GrantAts, frozen : Nat]]
        /\ \A k \in Servers : k # s => grants'[k] = grants[k]
        /\ \A k \in Servers : grants'[k].frozen = grants[k].frozen
        /\ grants'[s].at = "register"
    BY <2>1, GrantMoves DEF GenInv, GrantAts
  <2>3. /\ gen' \in Gen /\ gen'.gate = s /\ gen'.pc = gen.pc /\ gen'.closed = gen.closed
        /\ gen'.uncertain = gen.uncertain /\ gen'.head = gen.head /\ gen'.issued = gen.issued
    BY <2>1, GenEdits DEF GenInv, GenTyped, Gen
  <2>4. GenTyped'
    BY <1>0, <2>2, <2>3 DEF GenInv, GenTyped
  <2>5. \A k \in Servers : grants[k].at \notin {"register", "witness"}
    BY <2>1 DEF GenInv, GrantInv, Sane
  <2>6. GrantInv'
    BY <1>0, <2>2, <2>3, <2>5 DEF GenInv, GenTyped, GrantInv, Server
  <2>7. ~Settled /\ ~drained /\ ~gen.uncertain
    BY <2>1 DEF Admitting, Settled, GenInv, PhaseInv
  <2>8. PhaseInv'
    BY <1>0, <2>3, <2>7 DEF GenInv, PhaseInv, Sane
  <2>9. RegisteredInv'
    BY <1>0, <2>1, <2>2, <2>3, <2>5, <2>7 DEF GenInv, GenTyped, RegisteredInv, Admitting
  <2>10. Later
    BY <1>0, <2>2, <2>7 DEF Later, Server, GenInv, GenTyped, GrantInv
  <2> QED  BY <2>4, <2>6, <2>8, <2>9, <2>10 DEF Kept, GenInv
<1> QED  BY <1>1, <1>2

LEMMA RegisterKeeps ==
  ASSUME Sane, GenInv, NEW s \in Servers, Register(s)
  PROVE  Kept
<1>0. grants[s].at = "register" /\ UNCHANGED <<server, handed, committed, drained>>
  BY DEF Register
<1>1. /\ gen.gate = s /\ ~gen.uncertain /\ ~drained /\ registered = gen.issued /\ s \notin gen.issued
      /\ gen.pc \notin {"fence", "hand off", "handed", "closed"} /\ handed.at = None
      /\ \A k \in Servers : k # s => grants[k].at \notin {"register", "witness"}
  <2>1. gen.gate = s /\ s \notin gen.issued /\ \A k \in Servers : k # s => grants[k].at \notin {"register", "witness"}
    BY <1>0 DEF GenInv, GrantInv
  <2>2. ~gen.uncertain /\ ~drained
    BY <1>0, <2>1 DEF GenInv, PhaseInv, Settled, Sane
  <2>3. registered = gen.issued
    BY <1>0, <2>1, <2>2 DEF GenInv, GenTyped, RegisteredInv
  <2> QED  BY <2>1, <2>2, <2>3 DEF GenInv, PhaseInv
<1>2. CASE /\ registered' = registered \cup {s} /\ GrantAt(s, "witness") /\ UNCHANGED gen
  <2>2. /\ grants' \in [Servers -> [at : GrantAts, frozen : Nat]]
        /\ \A k \in Servers : k # s => grants'[k] = grants[k]
        /\ \A k \in Servers : grants'[k].frozen = grants[k].frozen
        /\ grants'[s].at = "witness"
    BY <1>2, GrantMoves DEF GenInv, GrantAts
  <2>3. registered' \subseteq Servers /\ IsFiniteSet(registered')
    BY <1>2, FS_AddElement DEF GenInv, GenTyped
  <2>4. GenTyped'
    BY <1>0, <1>2, <2>2, <2>3 DEF GenInv, GenTyped
  <2>5. GrantInv'
    BY <1>0, <1>1, <1>2, <2>2 DEF GenInv, GenTyped, GrantInv, Server
  <2>6. Settled = Settled' /\ ~Settled
    BY <1>0, <2>2 DEF Settled
  <2>7. PhaseInv'
    BY <1>0, <1>1, <1>2 DEF GenInv, PhaseInv
  <2>8. RegisteredInv'
    BY <1>0, <1>1, <1>2, <2>2 DEF GenInv, GenTyped, RegisteredInv
  <2>9. Later
    BY <1>0, <2>2, <2>6 DEF Later, Server, GenInv, GenTyped, GrantInv
  <2> QED  BY <2>4, <2>5, <2>7, <2>8, <2>9 DEF Kept, GenInv
<1>3. CASE /\ registered' \in {registered, registered \cup {s}} /\ GrantAt(s, "refused")
           /\ gen' = Broken(gen)
  <2>2. /\ grants' \in [Servers -> [at : GrantAts, frozen : Nat]]
        /\ \A k \in Servers : k # s => grants'[k] = grants[k]
        /\ \A k \in Servers : grants'[k].frozen = grants[k].frozen
        /\ grants'[s].at = "refused"
    BY <1>3, GrantMoves DEF GenInv, GrantAts
  <2>3. registered' \subseteq Servers /\ IsFiniteSet(registered') /\ registered \subseteq registered'
    BY <1>3, FS_AddElement DEF GenInv, GenTyped
  <2>4. /\ gen' \in Gen /\ gen'.gate = "free" /\ gen'.closed /\ gen'.uncertain
        /\ gen'.pc = gen.pc /\ gen'.head = gen.head /\ gen'.issued = gen.issued
    BY <1>3, Breaking DEF GenInv, GenTyped
  <2>5. GenTyped'
    BY <1>0, <2>2, <2>3, <2>4 DEF GenInv, GenTyped
  <2>6. GrantInv'
    BY <1>0, <1>1, <2>2, <2>4 DEF GenInv, GenTyped, GrantInv, Server
  <2>7. ~Settled
    BY <1>0 DEF Settled
  <2>8. PhaseInv'
    BY <1>0, <1>1, <2>4 DEF GenInv, PhaseInv, Sane
  <2>9. RegisteredInv'
    BY <1>0, <1>1, <2>2, <2>3, <2>4 DEF GenInv, GenTyped, RegisteredInv
  <2>10. Later
    BY <1>0, <2>2, <2>7 DEF Later, Server, GenInv, GenTyped, GrantInv
  <2> QED  BY <2>5, <2>6, <2>8, <2>9, <2>10 DEF Kept, GenInv
<1> QED  BY <1>2, <1>3 DEF Register

\* The grant is issued, or given up with its registration kept.
LEMMA IssueKeeps ==
  ASSUME Sane, GenInv, NEW s \in Servers, Issue(s)
  PROVE  Kept
<1> DEFINE next  == Open(gen.head.grants \cup {s})
           k1    == [gen EXCEPT !.head = next]
           kept  == [k1 EXCEPT !.issued = gen.issued \cup {s}]
           acked == [kept EXCEPT !.acked = Registration(next.grants)]
<1>0. grants[s].at = "witness" /\ UNCHANGED <<server, handed, committed, registered, drained>>
  BY DEF Issue
<1>1. PICK at \in {"refused", "issued"} :
        GrantAt(s, at) /\ gen' \in {Broken(kept), Broken(acked), Release(acked)}
  BY DEF Issue
<1>2. next \in Row /\ next.grants = gen.head.grants \cup {s}
  BY DEF Open, Admission, Row, GenInv, GenTyped, Gen
<1>3. k1 \in Gen /\ k1.head = next /\ k1.pc = gen.pc /\ k1.closed = gen.closed /\ k1.uncertain = gen.uncertain
      /\ k1.issued = gen.issued
  BY <1>2, GenEdits DEF GenInv, GenTyped, Gen
<1>4. gen.issued \cup {s} \in SUBSET Servers
  BY DEF GenInv, GenTyped, Gen
<1> HIDE DEF next, k1
<1>5. kept \in Gen /\ kept.head = next /\ kept.pc = gen.pc /\ kept.closed = gen.closed
      /\ kept.uncertain = gen.uncertain /\ kept.issued = gen.issued \cup {s}
  BY <1>3, <1>4, GenEdits DEF Gen
<1> HIDE DEF kept
<1>6. Registration(next.grants) \in Record
  BY <1>2, Recording DEF Row
<1>7. acked \in Gen /\ acked.head = next /\ acked.pc = gen.pc /\ acked.closed = gen.closed
      /\ acked.uncertain = gen.uncertain /\ acked.issued = gen.issued \cup {s}
  BY <1>5, <1>6, GenEdits DEF Gen
<1> HIDE DEF acked
<1>8. Release(acked) \in Gen /\ Release(acked).head = next /\ Release(acked).pc = gen.pc
      /\ Release(acked).closed = gen.closed /\ Release(acked).gate = "free"
      /\ Release(acked).uncertain = gen.uncertain /\ Release(acked).issued = gen.issued \cup {s}
  BY <1>7, GenEdits DEF Gen, Release
<1>9. /\ gen' \in Gen /\ gen'.gate = "free" /\ gen'.head = next /\ gen'.pc = gen.pc
      /\ gen'.issued = gen.issued \cup {s} /\ (gen.closed => gen'.closed)
      /\ gen'.uncertain => gen'.closed \/ gen.uncertain
  BY <1>1, <1>5, <1>7, <1>8, Breaking
<1>10. /\ grants' \in [Servers -> [at : GrantAts, frozen : Nat]]
       /\ \A k \in Servers : k # s => grants'[k] = grants[k]
       /\ \A k \in Servers : grants'[k].frozen = grants[k].frozen
       /\ grants'[s].at \in {"refused", "issued"}
  BY <1>1, GrantMoves DEF GenInv, GrantAts
<1>11. /\ gen.gate = s /\ ~gen.uncertain /\ ~drained /\ ~Settled
       /\ gen.pc \notin {"fence", "hand off", "handed", "closed"} /\ handed.at = None
       /\ \A k \in Servers : k # s => grants[k].at \notin {"register", "witness"}
  <2>1. gen.gate = s /\ \A k \in Servers : k # s => grants[k].at \notin {"register", "witness"}
    BY <1>0 DEF GenInv, GrantInv
  <2>2. ~gen.uncertain /\ ~drained
    BY <1>0, <2>1 DEF GenInv, PhaseInv, Settled, Sane
  <2> QED  BY <1>0, <2>1, <2>2 DEF GenInv, PhaseInv, Settled
<1>12. GenTyped'
  BY <1>0, <1>9, <1>10 DEF GenInv, GenTyped
<1>13. GrantInv'
  BY <1>0, <1>2, <1>9, <1>10, <1>11 DEF GenInv, GenTyped, GrantInv, Server
<1>14. PhaseInv'
  BY <1>0, <1>9, <1>11 DEF GenInv, PhaseInv, Sane
<1>15. RegisteredInv'
  BY <1>0, <1>9, <1>10, <1>11 DEF GenInv, GenTyped, RegisteredInv
<1>16. Later
  <2>1. ~Settled
    BY <1>11
  <2> QED  BY <1>0, <1>10, <2>1 DEF Later, Server, GenInv, GenTyped, GrantInv
<1> QED  BY <1>12, <1>13, <1>14, <1>15, <1>16 DEF Kept, GenInv

LEMMA SubmitKeeps ==
  ASSUME Sane, GenInv, NEW s \in Servers, Commit(s) \/ Lose(s)
  PROVE  Kept
<1>1. PICK at \in {"submitted", "done"} : GrantAt(s, at)
  BY DEF Commit, Lose
<1>2. /\ grants[s].at \in {"issued", "submitted"}
      /\ UNCHANGED <<server, gen, handed, committed, registered, drained>>
  BY DEF Commit, Lose
<1>3. s \in gen.issued
  BY <1>2 DEF GenInv, GrantInv
<1> QED  BY <1>1, <1>2, <1>3, OnlyMoves DEF GrantAts

\* The write lands only on the version it was frozen at, and moves it on.
LEMMA LandKeeps ==
  ASSUME Sane, GenInv, NEW s \in Servers, Land(s)
  PROVE  Kept
<1>0. /\ grants[s].at = "submitted" /\ GrantAt(s, "done") /\ s \in gen.issued
      /\ UNCHANGED <<gen, handed, registered, drained>>
  BY DEF Land, GenInv, GrantInv
<1>1. CASE UNCHANGED <<server, committed>>
  BY <1>0, <1>1, OnlyMoves DEF GrantAts
<1>2. CASE ~UNCHANGED <<server, committed>>
  <2>1. /\ grants[s].frozen = server[s].version
        /\ server' = [server EXCEPT ![s].version = @ + 1, ![s].state = "allocated"]
        /\ committed' = committed \cup {s}
    BY <1>2 DEF Land, Unchanged
  <2> DEFINE t == [server EXCEPT ![s].version = server[s].version + 1]
  <2>2. server' = [t EXCEPT ![s].state = "allocated"]
    BY <2>1
  <2>3. /\ t \in [Servers -> Server] /\ \A k \in Servers : k # s => t[k] = server[k]
        /\ t[s].version = server[s].version + 1 /\ t[s].barrier = server[s].barrier
    BY DEF GenInv, GenTyped, Server
  <2> HIDE DEF t
  <2>5. /\ server' \in [Servers -> Server] /\ \A k \in Servers : k # s => server'[k] = server[k]
        /\ server'[s].version = server[s].version + 1 /\ server'[s].barrier = server[s].barrier
    BY <2>2, <2>3 DEF Server
  <2>6. /\ grants' \in [Servers -> [at : GrantAts, frozen : Nat]]
        /\ \A k \in Servers : k # s => grants'[k] = grants[k]
        /\ \A k \in Servers : grants'[k].frozen = grants[k].frozen
        /\ grants'[s].at = "done"
    BY <1>0, GrantMoves DEF GenInv, GrantAts
  <2>7. GenTyped'
    BY <1>0, <2>1, <2>5, <2>6 DEF GenInv, GenTyped
  <2>8. GrantInv'
    BY <1>0, <2>1, <2>5, <2>6 DEF GenInv, GenTyped, GrantInv, Server
  <2>9. Settled => Settled'
    BY <1>0, <2>6 DEF Settled
  <2>10. PhaseInv'
    BY <1>0, <2>9 DEF GenInv, PhaseInv
  <2>11. RegisteredInv'
    BY <1>0, <2>6 DEF GenInv, GenTyped, RegisteredInv
  <2>12. Later
    BY <1>0, <2>1, <2>5, <2>6, <2>9 DEF Later, Server, GenInv, GenTyped, GrantInv
  <2> QED  BY <2>7, <2>8, <2>10, <2>11, <2>12 DEF Kept, GenInv
<1> QED  BY <1>1, <1>2

\* A server that moves on: by itself, or barred by a fence.
LEMMA ServerMoves ==
  ASSUME Sane, GenInv, NEW s \in Servers,
         UNCHANGED <<grants, gen, handed, committed, registered, drained>>,
         server' \in [Servers -> Server],
         \A k \in Servers : k # s => server'[k] = server[k],
         server'[s].version = server[s].version + 1,
         server'[s].state \in {server[s].state, "shutdown"},
         server[s].barrier # None => server'[s].barrier # None,
         server'[s].barrier # server[s].barrier => grants[s].at # None
  PROVE  Kept
<1>1. GenTyped' /\ (Settled => Settled')
  BY DEF GenInv, GenTyped, Settled
<1>2. GrantInv'
  BY DEF GenInv, GenTyped, GrantInv, Server
<1>3. PhaseInv' /\ RegisteredInv'
  BY <1>1 DEF GenInv, PhaseInv, RegisteredInv
<1>4. Later
  BY <1>1 DEF Later, Server, GenInv, GenTyped
<1> QED  BY <1>1, <1>2, <1>3, <1>4 DEF Kept, GenInv

LEMMA TouchKeeps ==
  ASSUME Sane, GenInv, NEW s \in Servers, Touch(s)
  PROVE  Kept
<1>1. PICK st \in {server[s].state, "shutdown"} :
        server' = [server EXCEPT ![s].version = @ + 1, ![s].state = st]
  BY DEF Touch
<1> DEFINE t == [server EXCEPT ![s].version = server[s].version + 1]
<1>2. server' = [t EXCEPT ![s].state = st]
  BY <1>1
<1>3. /\ t \in [Servers -> Server] /\ \A k \in Servers : k # s => t[k] = server[k]
      /\ t[s].version = server[s].version + 1 /\ t[s].barrier = server[s].barrier
  BY DEF GenInv, GenTyped, Server
<1>4. st \in {"ready", "allocated", "shutdown"}
  BY DEF GenInv, GenTyped, Server
<1> HIDE DEF t
<1>5. /\ server' \in [Servers -> Server] /\ \A k \in Servers : k # s => server'[k] = server[k]
      /\ server'[s].version = server[s].version + 1 /\ server'[s].barrier = server[s].barrier
      /\ server'[s].state = st
  BY <1>2, <1>3, <1>4 DEF Server
<1>6. UNCHANGED <<grants, gen, handed, committed, registered, drained>>
  BY DEF Touch
<1> QED  BY <1>5, <1>6, ServerMoves

LEMMA BarKeeps ==
  ASSUME Sane, GenInv, NEW f \in Writers, FenceBar(f),
         fence[f].at = "bar" => fence[f].server \in Servers /\ grants[fence[f].server].at # None
  PROVE  Kept
<1> DEFINE s == fence[f].server
<1>0. UNCHANGED <<grants, gen, handed, committed, registered, drained>> /\ s \in Servers /\ grants[s].at # None
  BY DEF FenceBar, FenceOnly
<1>1. CASE UNCHANGED server
  BY <1>0, <1>1, StandsStill
<1>2. CASE ~UNCHANGED server
  <2>0. server' = [server EXCEPT ![s].version = @ + 1, ![s].barrier = f]
    BY <1>2 DEF FenceBar
  <2> HIDE DEF s
  <2> DEFINE t == [server EXCEPT ![s].version = server[s].version + 1]
  <2>1. server' = [t EXCEPT ![s].barrier = f]
    BY <2>0
  <2>2. /\ t \in [Servers -> Server] /\ \A k \in Servers : k # s => t[k] = server[k]
        /\ t[s].version = server[s].version + 1 /\ t[s].state = server[s].state
    BY <1>0 DEF GenInv, GenTyped, Server
  <2> HIDE DEF t
  <2>4. /\ server' \in [Servers -> Server] /\ \A k \in Servers : k # s => server'[k] = server[k]
        /\ server'[s].version = server[s].version + 1 /\ server'[s].barrier = f
        /\ server'[s].state = server[s].state /\ f # None
    BY <1>0, <2>1, <2>2 DEF Server, Sane
  <2> QED  BY <1>0, <2>4, ServerMoves
<1> QED  BY <1>1, <1>2

\* The row is drained, if at all, with the gate free.
DrainsAtMost == drained' = drained \/ (drained' = TRUE /\ gen.gate = "free" /\ ~gen.uncertain)

LEMMA DrainsOnce ==
  ASSUME GenInv, DrainsAtMost
  PROVE  drained' \in BOOLEAN /\ (drained => drained') /\ (drained' => drained \/ (gen.gate = "free" /\ ~gen.uncertain))
<1>1. drained \in BOOLEAN
  BY DEF GenInv, GenTyped
<1>2. CASE drained' = drained
  <2>1. drained' \in BOOLEAN
    BY <1>1, <1>2
  <2>2. drained => drained'
    BY <1>2, Zenon
  <2>3. drained' => drained
    BY <1>2, Zenon
  <2> QED  BY <2>1, <2>2, <2>3
<1>3. CASE drained' = TRUE /\ gen.gate = "free" /\ ~gen.uncertain
  BY <1>3
<1> QED  BY <1>2, <1>3 DEF DrainsAtMost

LEMMA Versions ==
  ASSUME GenInv
  PROVE  \A s \in Servers : /\ server[s].version \in Nat /\ grants[s].frozen \in Nat
                              /\ server[s].version <= server[s].version
BY DEF GenInv, GenTyped, Server

\* A step of the generation's end: the grants stand still.
LEMMA PhaseMoves ==
  ASSUME Sane, GenInv, UNCHANGED <<server, grants, committed, registered>>,
         gen' \in Gen, gen'.issued = gen.issued, gen'.head.grants = gen.head.grants,
         gen'.closed, gen.uncertain => gen'.uncertain, gen'.uncertain => gen'.gate = "free",
         \A s \in Servers : grants[s].at \in {"register", "witness"} => gen'.gate = s,
         gen'.gate = Owner \/ gen'.pc \in {"fence", "hand off", "handed", "closed"} => drained',
         gen'.gate = Owner \/ gen'.pc \in {"hand off", "handed", "closed"} => gen'.head.phase = "draining",
         DrainsAtMost,
         \/ UNCHANGED handed /\ handed.at = None
         \/ /\ gen'.pc = "closed" /\ gen.pc # "closed"
            /\ handed' \in [at : {"handed"}, head : Row, acked : Record] /\ handed'.head = gen'.head
  PROVE  Kept
<1>0. drained' \in BOOLEAN /\ (drained => drained') /\ (drained' => drained \/ (gen.gate = "free" /\ ~gen.uncertain))
  BY DrainsOnce
<1>1. GenTyped'
  BY <1>0 DEF GenInv, GenTyped
<1>2. GrantInv'
  BY DEF GenInv, GenTyped, GrantInv, Server
<1>3. drained' => /\ \A s \in Servers : grants[s].at \notin {"register", "witness"}
                  /\ registered = gen.issued
  <2>1. CASE drained
    BY <2>1 DEF GenInv, PhaseInv, RegisteredInv, Settled
  <2>2. CASE gen.gate = "free" /\ ~gen.uncertain
    <3>1. \A s \in Servers : grants[s].at \notin {"register", "witness"}
      BY <2>2 DEF GenInv, GrantInv, Sane
    <3> QED  BY <2>2, <3>1 DEF GenInv, GenTyped, RegisteredInv
  <2> QED  BY <1>0, <2>1, <2>2
<1>4. (drained' => Settled') /\ (Settled => Settled')
  BY <1>3 DEF Settled
<1>5. PhaseInv'
  BY <1>4 DEF GenInv, PhaseInv
<1>6. RegisteredInv'
  BY <1>3 DEF GenInv, RegisteredInv
<1>7. handed.at = None
  BY DEF GenInv, PhaseInv
<1>8. Later
  <2>1. \A s \in Servers : server[s].version <= server[s].version
    BY Versions
  <2>2. UNCHANGED <<server, grants, committed>> /\ (Settled => Settled' /\ gen'.issued = gen.issued)
    BY <1>4
  <2> QED  BY <1>0, <1>7, <2>1, <2>2 DEF Later
<1> QED  BY <1>1, <1>2, <1>5, <1>6, <1>8 DEF Kept, GenInv

LEMMA CloseKeeps ==
  ASSUME Sane, GenInv, Fence \/ CloseForRecovery
  PROVE  Kept
<1>1. PICK pc \in {"drain to fence", "drain to hand off"} : Close(pc)
  BY DEF Fence, CloseForRecovery
<1>2. /\ ~gen.closed /\ gen' = [gen EXCEPT !.closed = TRUE, !.pc = pc]
      /\ UNCHANGED <<server, grants, handed, committed, registered, drained>>
  BY <1>1 DEF Close
<1> DEFINE c == [gen EXCEPT !.closed = TRUE]
<1>3. c \in Gen /\ c.closed /\ c.gate = gen.gate /\ c.uncertain = gen.uncertain /\ c.head = gen.head
      /\ c.issued = gen.issued
  BY GenEdits DEF GenInv, GenTyped, Gen
<1>4. gen' = [c EXCEPT !.pc = pc]
  BY <1>2
<1> HIDE DEF c
<1>b. gen' \in Gen
  BY <1>3, <1>4, GenEdits DEF GenPCs
<1>5. gen'.closed /\ gen'.gate = gen.gate /\ gen'.uncertain = gen.uncertain
      /\ gen'.head = gen.head /\ gen'.issued = gen.issued /\ gen'.pc = pc
  BY <1>3, <1>4 DEF Gen
<1>6. ~drained /\ gen.gate # Owner /\ ~gen.uncertain /\ handed.at = None
  BY <1>2 DEF GenInv, PhaseInv, Settled
<1>7. \A s \in Servers : grants[s].at \in {"register", "witness"} => gen'.gate = s
  BY <1>5 DEF GenInv, GrantInv
<1>8. gen'.head.grants = gen.head.grants /\ gen'.pc \notin {"fence", "hand off", "handed", "closed"}
  BY <1>5
<1> QED  BY <1>2, <1>b, <1>5, <1>6, <1>7, <1>8, PhaseMoves DEF DrainsAtMost

LEMMA FailKeeps ==
  ASSUME Sane, GenInv, gen' = [Broken(gen) EXCEPT !.pc = "failed"], handed.at = None,
         UNCHANGED <<server, grants, handed, committed, registered>>,
         \A s \in Servers : grants[s].at \notin {"register", "witness"},
         DrainsAtMost
  PROVE  Kept
<1>1. gen \in Gen
  BY DEF GenInv, GenTyped
<1>2. gen' \in Gen /\ gen'.pc = "failed" /\ gen'.gate = "free" /\ gen'.closed /\ gen'.uncertain
      /\ gen'.head = gen.head /\ gen'.issued = gen.issued
  BY <1>1, Failing
<1> QED  BY <1>2, PhaseMoves DEF Sane, DrainsAtMost

LEMMA DrainKeeps ==
  ASSUME Sane, GenInv, Drain
  PROVE  Kept
<1>1. gen.pc \in {"drain to fence", "drain to hand off"} /\ gen.gate = "free"
      /\ UNCHANGED <<server, grants, handed, committed, registered>>
  BY DEF Drain
<1>2. gen.closed /\ handed.at = None
  BY <1>1 DEF GenInv, PhaseInv
<1>3. \A s \in Servers : grants[s].at \notin {"register", "witness"}
  BY <1>1 DEF GenInv, GrantInv, Sane
<1>4. CASE /\ gen' = [Broken(gen) EXCEPT !.pc = "failed"]
           /\ UNCHANGED drained \/ (drained' = TRUE /\ ~gen.uncertain)
  BY <1>1, <1>2, <1>3, <1>4, FailKeeps DEF DrainsAtMost
<1>5. CASE /\ ~gen.uncertain /\ drained' = TRUE
           /\ gen' = [gen EXCEPT !.gate = Owner, !.head = Draining(gen.head.grants)]
  <2> DEFINE next == Draining(gen.head.grants)
             c == [gen EXCEPT !.gate = Owner]
  <2>1. next \in Row /\ next.phase = "draining" /\ next.grants = gen.head.grants
    BY DEF Draining, Admission, Row, GenInv, GenTyped, Gen
  <2>2. c \in Gen /\ c.closed = gen.closed /\ c.gate = Owner /\ c.uncertain = gen.uncertain
        /\ c.issued = gen.issued /\ c.pc = gen.pc
    BY GenEdits DEF GenInv, GenTyped, Gen
  <2>3. gen' = [c EXCEPT !.head = next]
    BY <1>5
  <2> HIDE DEF c, next
  <2>4. gen' \in Gen /\ gen'.closed = gen.closed /\ gen'.gate = Owner /\ gen'.uncertain = gen.uncertain
        /\ gen'.head = next /\ gen'.issued = gen.issued /\ gen'.pc = gen.pc
    BY <2>1, <2>2, <2>3, GenEdits DEF Gen
  <2> QED  BY <1>1, <1>2, <1>3, <1>5, <2>1, <2>4, PhaseMoves DEF DrainsAtMost
<1> QED  BY <1>4, <1>5 DEF Drain

LEMMA DrainedKeeps ==
  ASSUME Sane, GenInv, Drained
  PROVE  Kept
<1>b. gen \in Gen
  BY DEF GenInv, GenTyped
<1>1. gen.gate = Owner /\ gen.pc \in {"drain to fence", "drain to hand off"}
      /\ UNCHANGED <<server, grants, handed, committed, registered, drained>>
  BY DEF Drained
<1>2. gen.closed /\ handed.at = None /\ drained /\ gen.head.phase = "draining" /\ ~gen.uncertain
  BY <1>1 DEF GenInv, PhaseInv, Sane
<1>3. \A s \in Servers : grants[s].at \notin {"register", "witness"}
  BY <1>2 DEF GenInv, PhaseInv, Settled
<1>4. CASE gen' = [Broken(gen) EXCEPT !.pc = "failed"]
  BY <1>1, <1>2, <1>3, <1>4, FailKeeps DEF DrainsAtMost
<1>5. CASE gen' # [Broken(gen) EXCEPT !.pc = "failed"]
  <2> DEFINE rec   == Pinned(gen.acked, "drained", gen.head.grants)
             acked == [gen EXCEPT !.acked = rec]
  <2>1. \/ gen' = [Release(acked) EXCEPT !.pc = "fence"]
        \/ gen' = [acked EXCEPT !.pc = "hand off"]
    BY <1>5 DEF Drained
  <2>2. rec \in Record
    BY Recording DEF Stages, GenInv, GenTyped, Gen, Row
  <2> HIDE DEF rec
  <2>a. acked \in Gen
    BY <1>b, <2>2, GenEdits
  <2>3. acked.closed = gen.closed /\ acked.gate = Owner /\ acked.uncertain = gen.uncertain
        /\ acked.head = gen.head /\ acked.issued = gen.issued
    BY <1>1, <1>b, <2>2 DEF Gen
  <2> HIDE DEF acked
  <2>b. Release(acked) \in Gen
    BY <2>a, GenEdits DEF Release
  <2>4. Release(acked).closed = gen.closed /\ Release(acked).gate = "free"
        /\ Release(acked).uncertain = gen.uncertain
        /\ Release(acked).head = gen.head /\ Release(acked).issued = gen.issued
    BY <2>a, <2>3 DEF Release, Gen
  <2>c. gen' \in Gen
    BY <2>1, <2>a, <2>b, GenEdits DEF GenPCs
  <2>5. /\ gen'.closed = gen.closed /\ gen'.uncertain = gen.uncertain
        /\ gen'.head = gen.head /\ gen'.issued = gen.issued /\ gen'.gate \in {"free", Owner}
        /\ gen'.pc \in {"fence", "hand off"}
    BY <2>1, <2>a, <2>b, <2>3, <2>4 DEF Gen
  <2> QED  BY <1>1, <1>2, <1>3, <1>b, <2>c, <2>5, PhaseMoves DEF DrainsAtMost
<1> QED  BY <1>4, <1>5

LEMMA PublishHandoffKeeps ==
  ASSUME Sane, GenInv, PublishHandoff
  PROVE  Kept
<1>b. gen \in Gen
  BY DEF GenInv, GenTyped
<1>1. gen.pc = "hand off"
      /\ UNCHANGED <<server, grants, handed, committed, registered, drained>>
  BY DEF PublishHandoff
<1>2. gen.closed /\ handed.at = None /\ drained /\ gen.head.phase = "draining"
  BY <1>1 DEF GenInv, PhaseInv
<1>3. \A s \in Servers : grants[s].at \notin {"register", "witness"}
  BY <1>2 DEF GenInv, PhaseInv, Settled
<1>4. CASE gen' = [Broken(gen) EXCEPT !.pc = "failed"]
  BY <1>1, <1>2, <1>3, <1>4, FailKeeps DEF DrainsAtMost
<1>5. CASE gen' = [gen EXCEPT !.pc = "handed"]
  <2>a. gen' \in Gen
    BY <1>5, <1>b, GenEdits DEF GenPCs
  <2>1. gen'.closed = gen.closed /\ gen'.gate = gen.gate /\ gen'.uncertain = gen.uncertain
        /\ gen'.head = gen.head /\ gen'.issued = gen.issued /\ gen'.pc = "handed"
    BY <1>5, <1>b DEF Gen
  <2>2. gen.uncertain => gen.gate = "free"
    BY DEF GenInv, PhaseInv
  <2> QED  BY <1>1, <1>2, <1>3, <1>b, <2>a, <2>1, <2>2, PhaseMoves DEF DrainsAtMost
<1> QED  BY <1>4, <1>5 DEF PublishHandoff

LEMMA HandOffKeeps ==
  ASSUME Sane, GenInv, HandOff
  PROVE  Kept
<1>b. gen \in Gen
  BY DEF GenInv, GenTyped
<1>1. gen.pc = "handed" /\ UNCHANGED <<server, grants, committed, registered, drained>>
  BY DEF HandOff
<1>2. gen.closed /\ handed.at = None /\ drained /\ gen.head.phase = "draining"
  BY <1>1 DEF GenInv, PhaseInv
<1>3. \A s \in Servers : grants[s].at \notin {"register", "witness"}
  BY <1>2 DEF GenInv, PhaseInv, Settled
<1>4. CASE gen' = [Broken(gen) EXCEPT !.pc = "failed"] /\ UNCHANGED handed
  BY <1>1, <1>2, <1>3, <1>4, FailKeeps DEF DrainsAtMost
<1>5. CASE ~(gen' = [Broken(gen) EXCEPT !.pc = "failed"] /\ UNCHANGED handed)
  <2> DEFINE rec == Pinned(gen.acked, "handoff", gen.head.grants)
             c   == Release(gen)
  <2>1. gen' = [c EXCEPT !.pc = "closed"] /\ handed' = [at |-> "handed", head |-> gen.head, acked |-> rec]
    BY <1>5 DEF HandOff
  <2>2. rec \in Record /\ gen.head \in Row
    BY Recording DEF Stages, GenInv, GenTyped, Gen, Row
  <2>a. c \in Gen
    BY <1>b, GenEdits DEF Release
  <2>3. c.closed = gen.closed /\ c.gate = "free" /\ c.uncertain = gen.uncertain
        /\ c.head = gen.head /\ c.issued = gen.issued
    BY <1>b DEF Release, Gen
  <2> HIDE DEF c, rec
  <2>b. gen' \in Gen
    BY <2>1, <2>a, GenEdits DEF GenPCs
  <2>4. gen'.closed = gen.closed /\ gen'.gate = "free" /\ gen'.uncertain = gen.uncertain
        /\ gen'.head = gen.head /\ gen'.issued = gen.issued /\ gen'.pc = "closed"
    BY <2>1, <2>a, <2>3 DEF Gen
  <2>5. handed' \in [at : {"handed"}, head : Row, acked : Record] /\ handed'.head = gen'.head
    BY <2>1, <2>2, <2>4
  <2>6. Owner # "free"
    BY DEF Sane
  <2> QED  BY <1>1, <1>2, <1>3, <1>b, <2>b, <2>4, <2>5, <2>6, PhaseMoves DEF DrainsAtMost
<1> QED  BY <1>4, <1>5

-----------------------------------------------------------------------------
\* What was observed of a barred grant is the truth, and stays it: its write can no
\* longer land.
Judged(s, outcome) ==
  /\ grants[s].at # None /\ grants[s].frozen < server[s].version /\ server[s].barrier # None
  /\ s \in committed <=> outcome = "allocated"

Final(obs) ==
  /\ Settled /\ drained /\ DOMAIN obs = gen.issued
  /\ \A s \in DOMAIN obs : Judged(s, obs[s])

FenceAts   == {"idle", "next", "bar", "read back", "accepted", "failed"}
RecoverAts == {"idle", "own", "owner", "reserved", "fencing", "recovering", "recovered",
               "read back", "publishing", "published", "failed"}
Fencing    == [at : FenceAts, seen : Nat, outcome : Outcomes \cup {None},
               server : Servers \cup {None}, obs : Observations]
FenceTyped ==
  /\ fence \in [Writers -> Fencing]
  /\ recover \in [Recoverers -> [at : RecoverAts, acked : Record]]

\* A fence judges issued grants of a drained generation only; what it read before the
\* barrier holds as long as the server did not change.
FenceSound(f) ==
  /\ IF fence[f].at = "idle" THEN DOMAIN fence[f].obs = {}
                             ELSE drained /\ (f # Owner => handed.at # None)
  /\ \A s \in DOMAIN fence[f].obs : s \in gen.issued /\ Judged(s, fence[f].obs[s])
  /\ fence[f].at \in {"bar", "read back"} =>
       /\ fence[f].server \in gen.issued /\ fence[f].server \notin DOMAIN fence[f].obs
       /\ fence[f].outcome \in Outcomes
  /\ fence[f].at = "bar" =>
       /\ fence[f].seen <= server[fence[f].server].version
       /\ fence[f].seen = server[fence[f].server].version =>
            (fence[f].server \in committed <=> fence[f].outcome = "allocated")
  /\ fence[f].at = "read back" => Judged(fence[f].server, fence[f].outcome)
  /\ fence[f].at = "accepted" => Final(fence[f].obs)

RecoverSound(r) ==
  /\ recover[r].at \notin {"idle", "failed"} => handed.at # None
  /\ recover[r].at \in {"recovering", "recovered", "read back", "publishing", "published"} =>
       Final(fence[r].obs)

FenceInv == /\ FenceTyped
            /\ \A f \in Writers : FenceSound(f)
            /\ \A r \in Recoverers : RecoverSound(r)

LEMMA FinalStays ==
  ASSUME GenInv, Kept
  PROVE  /\ \A s \in Servers, o \in Outcomes : Judged(s, o) => Judged(s, o)'
         /\ \A obs \in Observations : Final(obs) => Final(obs)'
<1>1. ASSUME NEW s \in Servers, NEW o \in Outcomes, Judged(s, o)
      PROVE  Judged(s, o)'
  <2>1. /\ server[s].version <= server'[s].version /\ server'[s].barrier # None
        /\ grants'[s].at # None /\ grants'[s].frozen = grants[s].frozen
        /\ s \in committed => s \in committed'
        /\ s \in committed' /\ s \notin committed => grants[s].frozen = server[s].version
    BY <1>1 DEF Kept, Later, Judged
  <2>2. server[s].version \in Nat /\ grants[s].frozen \in Nat
    BY Versions
  <2>3. s \in committed' <=> s \in committed
    BY <1>1, <2>1, <2>2 DEF Judged
  <2>4. grants[s].frozen < server'[s].version
    <3>1. server'[s].version \in Nat
      BY DEF Kept, GenInv, GenTyped, Server
    <3> QED  BY <1>1, <2>1, <2>2, <3>1 DEF Judged
  <2> QED  BY <1>1, <2>1, <2>3, <2>4 DEF Judged
<1>2. ASSUME NEW obs \in Observations, Final(obs)
      PROVE  Final(obs)'
  <2>1. Settled' /\ drained' /\ gen'.issued = gen.issued
    BY <1>2 DEF Kept, Later, Final
  <2>2. \A s \in DOMAIN obs : s \in Servers /\ obs[s] \in Outcomes
    BY DEF Observations
  <2>3. \A s \in DOMAIN obs : Judged(s, obs[s])'
    BY <1>1, <1>2, <2>2 DEF Final
  <2> QED  BY <1>2, <2>1, <2>3 DEF Final
<1> QED  BY <1>1, <1>2

LEMMA FenceStays ==
  ASSUME GenInv, Kept, FenceTyped, NEW f \in Writers, FenceSound(f), fence'[f] = fence[f]
  PROVE  FenceSound(f)'
<1> DEFINE e == fence[f]
<1>1. e \in Fencing /\ e.obs \in Observations
  BY DEF FenceTyped, Fencing
<1>2. gen.issued \subseteq Servers
  BY DEF GenInv, GenTyped, Gen
<1>3. CASE e.at = "idle"
  BY <1>3 DEF FenceSound
<1>4. CASE e.at # "idle"
  <2>1. drained /\ (f # Owner => handed.at # None) /\ Settled
    BY <1>4 DEF FenceSound, GenInv, PhaseInv
  <2>2. drained' /\ (f # Owner => handed'.at # None) /\ gen'.issued = gen.issued
    BY <2>1 DEF Kept, Later
  <2>3. \A s \in DOMAIN e.obs : s \in Servers /\ e.obs[s] \in Outcomes
    BY <1>1 DEF Observations
  <2>4. \A s \in DOMAIN e.obs : s \in gen.issued /\ Judged(s, e.obs[s])'
    BY <2>3, FinalStays DEF FenceSound
  <2>5. e.at = "accepted" => Final(e.obs)'
    BY <1>1, FinalStays DEF FenceSound
  <2>6. CASE e.at \notin {"bar", "read back"}
    BY <1>4, <2>2, <2>4, <2>5, <2>6 DEF FenceSound
  <2>7. CASE e.at \in {"bar", "read back"}
    <3> DEFINE s == e.server
    <3>1. s \in gen.issued /\ s \in Servers /\ s \notin DOMAIN e.obs /\ e.outcome \in Outcomes
      BY <1>2, <2>7 DEF FenceSound
    <3>2. e.at = "read back" => Judged(s, e.outcome)'
      BY <3>1, FinalStays DEF FenceSound
    <3>3. e.at = "bar" =>
            /\ e.seen <= server'[s].version
            /\ e.seen = server'[s].version => (s \in committed' <=> e.outcome = "allocated")
      <4>1. SUFFICES ASSUME e.at = "bar"
                     PROVE  /\ e.seen <= server'[s].version
                            /\ e.seen = server'[s].version => (s \in committed' <=> e.outcome = "allocated")
        OBVIOUS
      <4>2. /\ e.seen <= server[s].version
            /\ e.seen = server[s].version => (s \in committed <=> e.outcome = "allocated")
        BY <4>1 DEF FenceSound
      <4>3. /\ server[s].version <= server'[s].version
            /\ s \in committed => s \in committed'
            /\ s \in committed' /\ s \notin committed => server[s].version < server'[s].version
        BY <3>1 DEF Kept, Later
      <4>4. server[s].version \in Nat /\ server'[s].version \in Nat /\ e.seen \in Nat
        <5>1. server'[s].version \in Nat
          BY <3>1 DEF Kept, GenInv, GenTyped, Server
        <5>2. e.seen \in Nat
          BY <1>1 DEF Fencing
        <5> QED  BY <3>1, <5>1, <5>2, Versions
      <4>5. CASE e.seen < server'[s].version
        BY <4>4, <4>5
      <4>6. CASE e.seen = server'[s].version
        <5>1. e.seen = server[s].version /\ server[s].version = server'[s].version
          BY <4>2, <4>3, <4>4, <4>6
        <5> QED  BY <4>2, <4>3, <4>4, <4>6, <5>1
      <4> QED  BY <4>2, <4>3, <4>4, <4>5, <4>6
    <3> HIDE DEF s
    <3>4. /\ fence'[f].at = e.at /\ fence'[f].server = s /\ fence'[f].outcome = e.outcome
          /\ fence'[f].obs = e.obs /\ fence'[f].seen = e.seen
      BY DEF s
    <3> HIDE DEF e
    <3>5. fence'[f].at # "idle" /\ fence'[f].at # "accepted"
      BY <1>4, <2>7, <3>4
    <3>6. drained' /\ (f # Owner => handed'.at # None)
      BY <2>2
    <3>7. \A d \in DOMAIN fence'[f].obs : d \in gen'.issued /\ Judged(d, fence[f].obs[d])'
      BY <2>2, <2>4, <3>4 DEF e
    <3>8. /\ fence'[f].server \in gen'.issued /\ fence'[f].server \notin DOMAIN fence'[f].obs
          /\ fence'[f].outcome \in Outcomes
      BY <2>2, <3>1, <3>4
    <3>9. fence'[f].at = "bar" =>
            /\ fence'[f].seen <= server'[fence'[f].server].version
            /\ fence'[f].seen = server'[fence'[f].server].version =>
                 (fence'[f].server \in committed' <=> fence'[f].outcome = "allocated")
      BY <3>3, <3>4
    <3>10. fence'[f].at = "read back" => Judged(fence[f].server, fence[f].outcome)'
      BY <3>2, <3>4 DEF e, s
    <3> QED  BY <3>5, <3>6, <3>7, <3>8, <3>9, <3>10 DEF FenceSound
  <2> QED  BY <2>6, <2>7
<1> QED  BY <1>3, <1>4

LEMMA RecoverStays ==
  ASSUME GenInv, Kept, FenceTyped, NEW r \in Recoverers, RecoverSound(r), Sane,
         recover'[r].at = recover[r].at, fence'[r].obs = fence[r].obs
  PROVE  RecoverSound(r)'
<1>1. fence[r].obs \in Observations
  BY DEF FenceTyped, Fencing, Sane
<1>2. Final(fence[r].obs) => Final(fence[r].obs)'
  BY <1>1, FinalStays
<1>3. handed.at # None => handed'.at # None
  BY DEF Kept, Later
<1> QED  BY <1>2, <1>3 DEF RecoverSound, Final

LEMMA FencesStay ==
  ASSUME Sane, GenInv, Kept, FenceInv, UNCHANGED <<fence, recover>>
  PROVE  FenceInv'
<1>1. FenceTyped'
  BY DEF FenceInv, FenceTyped
<1>2. \A f \in Writers : FenceSound(f)'
  BY FenceStays DEF FenceInv
<1>3. \A r \in Recoverers : RecoverSound(r)'
  BY RecoverStays DEF FenceInv
<1> QED  BY <1>1, <1>2, <1>3 DEF FenceInv

\* One fence moves, its observations kept.
LEMMA FenceMoves ==
  ASSUME Sane, GenInv, Kept, FenceInv, NEW f \in Writers,
         fence' \in [Writers -> Fencing], \A k \in Writers : k # f => fence'[k] = fence[k],
         fence'[f].obs = fence[f].obs, FenceSound(f)', UNCHANGED recover
  PROVE  FenceInv'
<1>1. FenceTyped'
  BY DEF FenceInv, FenceTyped
<1>2. \A k \in Writers : FenceSound(k)'
  BY FenceStays DEF FenceInv
<1>3. \A r \in Recoverers : fence'[r].obs = fence[r].obs
  BY DEF Sane
<1>4. \A r \in Recoverers : RecoverSound(r)'
  BY <1>3, RecoverStays DEF FenceInv
<1> QED  BY <1>1, <1>2, <1>4 DEF FenceInv

LEMMA FenceAtMoves ==
  ASSUME FenceTyped, NEW f \in Writers, NEW at \in FenceAts, FenceAt(f, at)
  PROVE  /\ fence' \in [Writers -> Fencing] /\ \A k \in Writers : k # f => fence'[k] = fence[k]
         /\ fence'[f].at = at /\ fence'[f].obs = fence[f].obs
BY DEF FenceAt, FenceTyped, Fencing

\* A fence whose observations are as sound as before need not be at anything.
LEMMA FenceRests ==
  ASSUME Sane, GenInv, Kept, FenceInv, NEW f \in Writers, NEW at \in {"next", "failed"}, FenceAt(f, at),
         drained, f # Owner => handed.at # None, UNCHANGED recover
  PROVE  FenceInv'
<1>1. /\ fence' \in [Writers -> Fencing] /\ \A k \in Writers : k # f => fence'[k] = fence[k]
      /\ fence'[f].at = at /\ fence'[f].obs = fence[f].obs
  BY FenceAtMoves DEF FenceInv, FenceAts
<1>2. drained' /\ (f # Owner => handed'.at # None) /\ gen'.issued = gen.issued
  BY DEF Kept, Later, GenInv, PhaseInv
<1>3. \A s \in DOMAIN fence[f].obs : s \in Servers /\ fence[f].obs[s] \in Outcomes
  BY DEF FenceInv, FenceTyped, Fencing, Observations
<1>4. \A s \in DOMAIN fence[f].obs : s \in gen.issued /\ Judged(s, fence[f].obs[s])'
  <2>1. \A s \in DOMAIN fence[f].obs : s \in gen.issued /\ Judged(s, fence[f].obs[s])
    BY DEF FenceInv, FenceSound
  <2>2. ASSUME NEW s \in DOMAIN fence[f].obs
        PROVE  Judged(s, fence[f].obs[s])'
    <3>1. Judged(s, fence[f].obs[s]) /\ s \in Servers /\ fence[f].obs[s] \in Outcomes
      BY <1>3, <2>1
    <3>2. PICK o \in Outcomes : o = fence[f].obs[s]
      BY <3>1
    <3>3. Judged(s, o)'
      BY <3>1, <3>2, FinalStays
    <3>4. fence'[f].obs[s] = o
      BY <1>1, <3>2
    <3> QED  BY <3>3, <3>4 DEF Judged
  <2> QED  BY <2>1, <2>2
<1>5. FenceSound(f)'
  BY <1>1, <1>2, <1>4 DEF FenceSound
<1> QED  BY <1>1, <1>5, FenceMoves

\* What a fence that has begun fences is what the generation issued.
LEMMA FencesIssued ==
  ASSUME Sane, GenInv, FenceInv, NEW f \in Writers, fence[f].at # "idle"
  PROVE  Fenced(f) = gen.issued /\ drained /\ Settled /\ (f # Owner => handed.at # None)
<1>1. drained /\ (f # Owner => handed.at # None)
  BY DEF FenceInv, FenceSound
<1>2. f # Owner => handed.head = gen.head
  BY <1>1 DEF GenInv, PhaseInv
<1>3. gen.head.grants = gen.issued /\ Settled
  BY <1>1 DEF GenInv, GrantInv, PhaseInv
<1> QED  BY <1>1, <1>2, <1>3 DEF Fenced

\* What a server tells is the truth of its grant as long as the server does not change.
LEMMA OutcomeTells ==
  ASSUME Sane, GenInv, NEW f \in Writers, NEW s \in gen.issued, OutcomeAt(f, s) # None
  PROVE  OutcomeAt(f, s) \in Outcomes /\ (s \in committed <=> OutcomeAt(f, s) = "allocated")
<1>1. s \in Servers /\ server[s].version \in Nat /\ grants[s].frozen \in Nat
  BY Versions DEF GenInv, GenTyped, Gen
<1>2. s \in committed => grants[s].frozen < server[s].version
  BY <1>1 DEF GenInv, GrantInv
<1>3. server[s].state = "allocated" => s \in committed
  BY <1>1 DEF GenInv, GrantInv
<1>4. CASE OutcomeAt(f, s) = "uncommitted"
  <2>1. server[s].version = grants[s].frozen
    BY <1>4 DEF OutcomeAt, Unchanged
  <2> QED  BY <1>1, <1>2, <1>4, <2>1 DEF Outcomes
<1>5. CASE OutcomeAt(f, s) = "allocated"
  <2>1. server[s].state = "allocated"
    BY <1>5 DEF OutcomeAt
  <2> QED  BY <1>3, <1>5, <2>1 DEF Outcomes
<1> QED  BY <1>4, <1>5 DEF OutcomeAt

LEMMA FenceReadKeeps ==
  ASSUME Sane, GenInv, FenceInv, NEW f \in Writers, FenceRead(f)
  PROVE  Kept /\ FenceInv'
<1>1. /\ fence[f].at = "next" /\ UNCHANGED recover
      /\ UNCHANGED <<server, grants, gen, handed, committed, registered, drained>>
  BY DEF FenceRead, FenceOnly
<1>2. Kept
  BY <1>1, StandsStill
<1>3. Fenced(f) = gen.issued /\ drained /\ Settled /\ (f # Owner => handed.at # None)
  BY <1>1, FencesIssued
<1>4. CASE FenceAt(f, "failed")
  BY <1>1, <1>2, <1>3, <1>4, FenceRests
<1>5. CASE ~FenceAt(f, "failed")
  <2> DEFINE e == fence[f]
  <2>1. PICK s \in gen.issued \ DOMAIN e.obs :
          /\ OutcomeAt(f, s) # None
          /\ fence' = [fence EXCEPT ![f] = [e EXCEPT !.at = "bar", !.server = s, !.seen = server[s].version,
                                                     !.outcome = OutcomeAt(f, s)]]
    BY <1>3, <1>5 DEF FenceRead
  <2>2. OutcomeAt(f, s) \in Outcomes /\ (s \in committed <=> OutcomeAt(f, s) = "allocated")
    BY <2>1, OutcomeTells
  <2>3. s \in Servers /\ server[s].version \in Nat
    BY Versions DEF GenInv, GenTyped, Gen
  <2>4. e \in Fencing
    BY DEF FenceInv, FenceTyped
  <2> DEFINE n == [e EXCEPT !.at = "bar", !.server = s, !.seen = server[s].version, !.outcome = OutcomeAt(f, s)]
  <2>5. /\ n.at = "bar" /\ n.server = s /\ n.seen = server[s].version
        /\ n.outcome = OutcomeAt(f, s) /\ n.obs = e.obs
    BY <2>4 DEF Fencing
  <2>6. n \in Fencing
    BY <2>2, <2>3, <2>4 DEF Fencing, FenceAts
  <2> HIDE DEF n
  <2>7. fence' = [fence EXCEPT ![f] = n]
    BY <2>1 DEF n
  <2>8. fence' \in [Writers -> Fencing] /\ (\A k \in Writers : k # f => fence'[k] = fence[k]) /\ fence'[f] = n
    BY <2>6, <2>7 DEF FenceInv, FenceTyped
  <2>9. \A d \in DOMAIN e.obs : d \in gen.issued /\ Judged(d, e.obs[d])
    BY DEF FenceInv, FenceSound
  <2>10. \A d \in DOMAIN n.obs : d \in gen'.issued /\ Judged(d, fence[f].obs[d])'
    <3>1. \A d \in DOMAIN n.obs : fence'[f].obs[d] = fence[f].obs[d]
      BY <2>5, <2>8
    <3> QED  BY <1>1, <2>5, <2>9, <3>1 DEF Judged
  <2>11. FenceSound(f)'
    <3>1. /\ fence'[f].at = "bar" /\ fence'[f].server = s /\ fence'[f].seen = server[s].version
          /\ fence'[f].outcome = OutcomeAt(f, s) /\ fence'[f].obs = n.obs /\ fence'[f].obs = e.obs
      BY <2>5, <2>8
    <3>2. drained' /\ (f # Owner => handed'.at # None)
      BY <1>1, <1>3
    <3>3. fence'[f].server \in gen'.issued /\ fence'[f].server \notin DOMAIN fence'[f].obs
          /\ fence'[f].outcome \in Outcomes
      BY <1>1, <2>1, <2>2, <3>1
    <3>4. /\ fence'[f].seen <= server'[fence'[f].server].version
          /\ fence'[f].server \in committed' <=> fence'[f].outcome = "allocated"
      BY <1>1, <2>2, <2>3, <3>1
    <3>5. \A d \in DOMAIN fence'[f].obs : d \in gen'.issued /\ Judged(d, fence[f].obs[d])'
      BY <2>10, <3>1
    <3> QED  BY <3>1, <3>2, <3>3, <3>4, <3>5 DEF FenceSound
  <2> QED  BY <1>1, <1>2, <2>5, <2>8, <2>11, FenceMoves
<1> QED  BY <1>4, <1>5

\* After the barrier the observation can no longer be overtaken.
LEMMA FenceBarKeeps ==
  ASSUME Sane, GenInv, FenceInv, NEW f \in Writers, FenceBar(f)
  PROVE  Kept /\ FenceInv'
<1> DEFINE e == fence[f]
           s == e.server
<1>1. e.at = "bar" /\ UNCHANGED <<recover, grants, gen, handed, committed, registered, drained>>
  BY DEF FenceBar, FenceOnly
<1>2. drained /\ Settled /\ (f # Owner => handed.at # None)
  BY <1>1, FencesIssued
<1>3. /\ s \in gen.issued /\ s \notin DOMAIN e.obs /\ e.outcome \in Outcomes
      /\ e.seen = server[s].version => (s \in committed <=> e.outcome = "allocated")
  BY <1>1 DEF FenceInv, FenceSound
<1>4. s \in Servers /\ grants[s].at # None /\ server[s].version \in Nat /\ grants[s].frozen \in Nat
      /\ grants[s].frozen <= server[s].version
  <2>1. s \in Servers
    BY <1>3 DEF GenInv, GenTyped, Gen
  <2>2. grants[s].at # None
    BY <1>3, <2>1 DEF GenInv, GrantInv
  <2>3. grants[s].frozen <= server[s].version
    BY <2>1, <2>2 DEF GenInv, GrantInv
  <2> QED  BY <2>1, <2>2, <2>3, Versions
<1>5. Kept
  BY <1>1, <1>4, BarKeeps
<1>6. CASE FenceAt(f, "failed")
  BY <1>1, <1>2, <1>5, <1>6, FenceRests
<1>7. CASE ~FenceAt(f, "failed")
  <2>1. /\ server[s].version = e.seen
        /\ server' = [server EXCEPT ![s].version = @ + 1, ![s].barrier = f]
        /\ fence' = [fence EXCEPT ![f] = [e EXCEPT !.at = "read back", !.seen = server[s].version + 1]]
    BY <1>7 DEF FenceBar, Unchanged
  <2>2. e \in Fencing
    BY DEF FenceInv, FenceTyped
  <2> DEFINE n == [e EXCEPT !.at = "read back", !.seen = server[s].version + 1]
  <2>3. /\ n.at = "read back" /\ n.server = e.server /\ n.outcome = e.outcome /\ n.obs = e.obs
    BY <2>2 DEF Fencing
  <2>4. n \in Fencing
    <3>1. server[s].version + 1 \in Nat
      BY <1>4
    <3> QED  BY <2>2, <3>1 DEF Fencing, FenceAts
  <2>5. server[s] \in Server /\ server \in [Servers -> Server]
    BY <1>4 DEF GenInv, GenTyped
  <2> HIDE DEF n
  <2>6. fence' \in [Writers -> Fencing] /\ (\A k \in Writers : k # f => fence'[k] = fence[k]) /\ fence'[f] = n
    BY <2>1, <2>4 DEF n, FenceInv, FenceTyped
  <2> HIDE DEF s
  <2>7. server'[s].version = server[s].version + 1 /\ server'[s].barrier = f
    BY <1>4, <2>1, <2>5 DEF Server
  <2>8. f # None
    BY DEF Sane
  <2>9. s \in committed <=> e.outcome = "allocated"
    BY <1>3, <2>1
  <2>10. /\ grants'[s].at # None /\ grants'[s].frozen < server'[s].version /\ server'[s].barrier # None
         /\ s \in committed' <=> e.outcome = "allocated"
    BY <1>1, <1>4, <2>7, <2>8, <2>9
  <2>11. \A d \in DOMAIN e.obs : d \in gen.issued /\ Judged(d, e.obs[d])
    BY DEF FenceInv, FenceSound
  <2>12. \A d \in DOMAIN e.obs : d \in Servers /\ e.obs[d] \in Outcomes
    BY <2>2 DEF Fencing, Observations
  <2>13. \A d \in DOMAIN e.obs : fence'[f].obs[d] = e.obs[d]
    BY <2>3, <2>6
  <2>14. ASSUME NEW d \in DOMAIN e.obs
         PROVE  Judged(d, fence[f].obs[d])'
    <3>1. PICK o \in Outcomes : o = e.obs[d]
      BY <2>12
    <3>2. d \in Servers /\ Judged(d, o)
      BY <2>11, <2>12, <3>1
    <3>3. Judged(d, o)'
      BY <1>5, <3>2, FinalStays
    <3> QED  BY <2>13, <3>1, <3>3 DEF Judged
  <2>15. FenceSound(f)'
    <3>1. fence'[f].at = "read back" /\ fence'[f].server = s /\ fence'[f].outcome = e.outcome
          /\ fence'[f].obs = e.obs
      BY <2>3, <2>6 DEF s
    <3>2. drained' /\ (f # Owner => handed'.at # None)
      BY <1>1, <1>2
    <3>3. fence'[f].server \in gen'.issued /\ fence'[f].server \notin DOMAIN fence'[f].obs
          /\ fence'[f].outcome \in Outcomes
      BY <1>1, <1>3, <3>1 DEF s
    <3>4. Judged(fence[f].server, fence[f].outcome)'
      BY <2>10, <3>1 DEF Judged
    <3>5. \A d \in DOMAIN fence'[f].obs : d \in gen'.issued /\ Judged(d, fence[f].obs[d])'
      BY <1>1, <2>11, <2>14, <3>1
    <3> QED  BY <3>1, <3>2, <3>3, <3>4, <3>5 DEF FenceSound
  <2> QED  BY <1>1, <1>5, <2>3, <2>6, <2>15, FenceMoves
<1> QED  BY <1>6, <1>7

LEMMA FenceReadBackKeeps ==
  ASSUME Sane, GenInv, FenceInv, NEW f \in Writers, FenceReadBack(f)
  PROVE  Kept /\ FenceInv'
<1> DEFINE e == fence[f]
           s == e.server
<1>1. /\ e.at = "read back" /\ UNCHANGED recover
      /\ UNCHANGED <<server, grants, gen, handed, committed, registered, drained>>
  BY DEF FenceReadBack, FenceOnly
<1>2. Kept
  BY <1>1, StandsStill
<1>3. drained /\ Settled /\ (f # Owner => handed.at # None)
  BY <1>1, FencesIssued
<1>4. CASE FenceAt(f, "failed")
  BY <1>1, <1>2, <1>3, <1>4, FenceRests
<1>5. CASE ~FenceAt(f, "failed")
  <2> DEFINE obs == [d \in DOMAIN e.obs \cup {s} |-> IF d = s THEN e.outcome ELSE e.obs[d]]
  <2>1. fence' = [fence EXCEPT ![f].at = "next", ![f].obs = obs]
    BY <1>5 DEF FenceReadBack
  <2>2. e \in Fencing /\ gen.issued \subseteq Servers
    BY DEF FenceInv, FenceTyped, GenInv, GenTyped, Gen
  <2>3. s \in gen.issued /\ s \in Servers /\ s \notin DOMAIN e.obs /\ e.outcome \in Outcomes
        /\ Judged(s, e.outcome)
    BY <1>1, <2>2 DEF FenceInv, FenceSound
  <2>4. \A d \in DOMAIN e.obs : d \in gen.issued /\ d \in Servers /\ e.obs[d] \in Outcomes /\ Judged(d, e.obs[d])
    <3>1. \A d \in DOMAIN e.obs : d \in gen.issued /\ Judged(d, e.obs[d])
      BY DEF FenceInv, FenceSound
    <3>2. \A d \in DOMAIN e.obs : d \in Servers /\ e.obs[d] \in Outcomes
      BY <2>2 DEF Fencing, Observations
    <3> QED  BY <3>1, <3>2
  <2>5. DOMAIN obs = DOMAIN e.obs \cup {s} /\ obs \in [DOMAIN e.obs \cup {s} -> Outcomes]
    BY <2>3, <2>4
  <2>6. obs \in Observations
    BY <2>3, <2>4, <2>5 DEF Observations
  <2>7. \A d \in DOMAIN obs : d \in gen.issued /\ Judged(d, obs[d])
    BY <2>3, <2>4
  <2> HIDE DEF obs
  <2> DEFINE m == [e EXCEPT !.at = "next"]
             n == [m EXCEPT !.obs = obs]
  <2>8. m \in Fencing /\ m.at = "next"
    BY <2>2 DEF Fencing, FenceAts
  <2>9. n.at = m.at /\ n.obs = obs
    BY <2>8 DEF Fencing
  <2>a. n \in Fencing
    BY <2>6, <2>8 DEF Fencing
  <2> HIDE DEF m
  <2>10. fence' = [fence EXCEPT ![f] = n]
    BY <2>1, Zenon DEF n, m, FenceInv, FenceTyped
  <2> HIDE DEF n
  <2>11. fence' \in [Writers -> Fencing] /\ (\A k \in Writers : k # f => fence'[k] = fence[k]) /\ fence'[f] = n
    BY <2>a, <2>10 DEF FenceInv, FenceTyped
  <2>12. FenceSound(f)'
    <3>1. fence'[f].at = "next" /\ fence'[f].obs = obs
      BY <2>8, <2>9, <2>11
    <3>2. \A d \in DOMAIN fence'[f].obs : d \in gen'.issued /\ Judged(d, fence[f].obs[d])'
      BY <1>1, <2>7, <3>1 DEF Judged
    <3>3. drained' /\ (f # Owner => handed'.at # None)
      BY <1>1, <1>3
    <3> QED  BY <3>1, <3>2, <3>3 DEF FenceSound
  <2>13. ASSUME NEW k \in Writers
         PROVE  FenceSound(k)'
    BY <1>2, <2>11, <2>12, FenceStays DEF FenceInv
  <2>14. ASSUME NEW r \in Recoverers
         PROVE  RecoverSound(r)'
    <3>1. CASE r # f
      <4>1. fence'[r].obs = fence[r].obs
        BY <2>11, <3>1 DEF Sane
      <4> QED  BY <1>1, <1>2, <4>1, RecoverStays DEF FenceInv
    <3>2. CASE r = f
      <4>1. ~Final(e.obs)
        BY <2>3 DEF Final
      <4> QED  BY <1>1, <3>2, <4>1 DEF FenceInv, RecoverSound
    <3> QED  BY <3>1, <3>2
  <2>15. FenceTyped'
    BY <1>1, <2>11 DEF FenceInv, FenceTyped
  <2> QED  BY <1>2, <2>13, <2>14, <2>15 DEF FenceInv
<1> QED  BY <1>4, <1>5

\* All that a fence has observed at its end is final.
LEMMA CompleteIsFinal ==
  ASSUME Sane, GenInv, FenceInv, NEW f \in Writers, FenceComplete(f)
  PROVE  Final(fence[f].obs)
<1>1. Fenced(f) = gen.issued /\ drained /\ Settled
  BY FencesIssued DEF FenceComplete
<1> QED  BY <1>1 DEF FenceComplete, Final, FenceInv, FenceSound

\* What was final can be accepted, whatever the fence was at.
LEMMA Accepting ==
  ASSUME Sane, GenInv, FenceInv, NEW f \in Writers, FenceAt(f, "accepted"), Final(fence[f].obs),
         f # Owner => handed.at # None,
         UNCHANGED <<server, grants, gen, handed, committed, registered, drained>>
  PROVE  FenceSound(f)'
<1>1. fence'[f].at = "accepted" /\ fence'[f].obs = fence[f].obs
  BY FenceAtMoves DEF FenceInv, FenceAts
<1>2. Final(fence[f].obs)'
  BY <1>1 DEF Final, Judged, Settled
<1>3. \A d \in DOMAIN fence'[f].obs : d \in gen'.issued /\ Judged(d, fence[f].obs[d])'
  BY <1>2 DEF Final
<1> QED  BY <1>1, <1>2, <1>3 DEF FenceSound, Final

LEMMA FenceAcceptKeeps ==
  ASSUME Sane, GenInv, FenceInv, FenceAccept
  PROVE  Kept /\ FenceInv'
<1>0. Owner \in Writers
  BY DEF Sane
<1>1. UNCHANGED <<recover, server, grants, gen, handed, committed, registered, drained>>
      /\ FenceComplete(Owner)
  BY DEF FenceAccept, FenceOnly
<1>2. Kept
  BY <1>1, StandsStill
<1>3. Final(fence[Owner].obs)
  BY <1>0, <1>1, CompleteIsFinal
<1>4. CASE FenceAt(Owner, "failed")
  BY <1>0, <1>1, <1>2, <1>3, <1>4, FenceRests DEF Final
<1>5. CASE FenceAt(Owner, "accepted")
  <2>1. FenceSound(Owner)'
    BY <1>0, <1>1, <1>3, <1>5, Accepting
  <2>2. /\ fence' \in [Writers -> Fencing] /\ \A k \in Writers : k # Owner => fence'[k] = fence[k]
        /\ fence'[Owner].obs = fence[Owner].obs
    BY <1>0, <1>5, FenceAtMoves DEF FenceInv, FenceAts
  <2> QED  BY <1>0, <1>1, <1>2, <2>1, <2>2, FenceMoves
<1> QED  BY <1>4, <1>5 DEF FenceAccept

\* The owner's fence begins once its row is drained.
LEMMA DrainedFences ==
  ASSUME Sane, GenInv, FenceInv, Drained
  PROVE  FenceInv'
<1>1. Kept
  BY DrainedKeeps
<1>2. gen.gate = Owner /\ drained /\ UNCHANGED recover
  BY DEF Drained, GenInv, PhaseInv
<1>3. CASE UNCHANGED fence
  BY <1>1, <1>2, <1>3, FencesStay
<1>4. CASE ~UNCHANGED fence
  <2>1. FenceAt(Owner, "next") /\ Owner \in Writers
    BY <1>4 DEF Drained, FenceAt, Sane
  <2> QED  BY <1>1, <1>2, <2>1, FenceRests
<1> QED  BY <1>3, <1>4

-----------------------------------------------------------------------------
\* One recoverer moves, and its fence perhaps, the observations kept.
LEMMA RecovererMoves ==
  ASSUME Sane, GenInv, FenceInv, NEW r \in Recoverers,
         UNCHANGED <<server, grants, gen, handed, committed, registered, drained>>,
         fence' \in [Writers -> Fencing], \A k \in Writers : k # r => fence'[k] = fence[k],
         fence'[r].obs = fence[r].obs, FenceSound(r)',
         recover' \in [Recoverers -> [at : RecoverAts, acked : Record]],
         \A k \in Recoverers : k # r => recover'[k] = recover[k],
         recover'[r].at \notin {"idle", "failed"} => handed.at # None,
         recover'[r].at \in {"recovering", "recovered", "read back", "publishing", "published"} =>
           Final(fence[r].obs)
  PROVE  Kept /\ FenceInv'
<1>1. Kept /\ r \in Writers
  BY StandsStill DEF Sane
<1>2. FenceTyped'
  BY DEF FenceTyped
<1>3. \A k \in Writers : FenceSound(k)'
  BY <1>1, FenceStays DEF FenceInv
<1>4. ASSUME NEW k \in Recoverers
      PROVE  RecoverSound(k)'
  <2>1. CASE k # r
    <3>1. fence'[k].obs = fence[k].obs
      BY <2>1 DEF Sane
    <3> QED  BY <1>1, <2>1, <3>1, RecoverStays DEF FenceInv
  <2>2. CASE k = r
    <3>1. Final(fence[r].obs) => Final(fence[r].obs)'
      BY DEF Final, Judged, Settled
    <3> QED  BY <2>2, <3>1 DEF RecoverSound
  <2> QED  BY <2>1, <2>2
<1> QED  BY <1>1, <1>2, <1>3, <1>4 DEF FenceInv

\* The recoverer alone moves.
LEMMA RecovererAlone ==
  ASSUME Sane, GenInv, FenceInv, NEW r \in Recoverers,
         UNCHANGED <<server, grants, gen, handed, committed, registered, drained, fence>>,
         recover' \in [Recoverers -> [at : RecoverAts, acked : Record]],
         \A k \in Recoverers : k # r => recover'[k] = recover[k],
         recover'[r].at \notin {"idle", "failed"} => handed.at # None,
         recover'[r].at \in {"recovering", "recovered", "read back", "publishing", "published"} =>
           Final(fence[r].obs)
  PROVE  Kept /\ FenceInv'
<1>1. r \in Writers /\ Kept
  BY StandsStill DEF Sane
<1>2. FenceSound(r)'
  BY <1>1, FenceStays DEF FenceInv
<1>3. fence' \in [Writers -> Fencing]
  BY DEF FenceInv, FenceTyped
<1> QED  BY <1>2, <1>3, RecovererMoves

LEMMA RecoverAtMoves ==
  ASSUME FenceTyped, NEW r \in Recoverers, NEW at \in RecoverAts, RecoverAt(r, at)
  PROVE  /\ recover' \in [Recoverers -> [at : RecoverAts, acked : Record]]
         /\ \A k \in Recoverers : k # r => recover'[k] = recover[k]
         /\ recover'[r].at = at /\ recover'[r].acked = recover[r].acked
BY DEF RecoverAt, FenceTyped

LEMMA RecoverAtKeeps ==
  ASSUME Sane, GenInv, FenceInv, NEW r \in Recoverers, NEW at \in RecoverAts, RecoverAt(r, at),
         UNCHANGED <<server, grants, gen, handed, committed, registered, drained, fence>>,
         at \notin {"idle", "failed"} => handed.at # None,
         at \in {"recovering", "recovered", "read back", "publishing", "published"} => Final(fence[r].obs)
  PROVE  Kept /\ FenceInv'
<1>1. /\ recover' \in [Recoverers -> [at : RecoverAts, acked : Record]]
      /\ \A k \in Recoverers : k # r => recover'[k] = recover[k]
      /\ recover'[r].at = at
  BY RecoverAtMoves DEF FenceInv
<1> QED  BY <1>1, RecovererAlone

LEMMA RecoverStepKeeps ==
  ASSUME Sane, GenInv, FenceInv, NEW r \in Recoverers,
         Reserve(r) \/ Own(r) \/ Recover(r) \/ Publish(r) \/ ReadPublication(r)
  PROVE  Kept /\ FenceInv'
<1>0. UNCHANGED <<server, grants, gen, handed, committed, registered, drained, fence>>
  BY DEF Reserve, Own, Recover, Publish, ReadPublication, RecoverOnly
<1>1. CASE Reserve(r)
  <2>1. handed.at # None /\ \E at \in {"own", "failed"} : RecoverAt(r, at)
    BY <1>1 DEF Reserve, NewRecoveryOwner
  <2> QED  BY <1>0, <2>1, RecoverAtKeeps DEF RecoverAts
<1>2. CASE Own(r)
  <2>1. handed.at # None
    BY <1>2 DEF Own, FenceInv, RecoverSound
  <2>2. \E at \in {"owner", "failed"} : RecoverAt(r, at)
    BY <1>2 DEF Own
  <2> QED  BY <1>0, <2>1, <2>2, RecoverAtKeeps DEF RecoverAts
<1>3. CASE Recover(r)
  <2>1. handed.at # None /\ FenceComplete(r) /\ RecoverAt(r, "recovering") /\ r \in Writers
    BY <1>3 DEF Recover, FenceInv, RecoverSound, Sane
  <2>2. Final(fence[r].obs)
    BY <2>1, CompleteIsFinal
  <2> QED  BY <1>0, <2>1, <2>2, RecoverAtKeeps DEF RecoverAts
<1>4. CASE Publish(r) \/ ReadPublication(r)
  <2>1. handed.at # None /\ Final(fence[r].obs)
    BY <1>4 DEF Publish, ReadPublication, FenceInv, RecoverSound
  <2>2. \E at \in {"read back", "publishing", "failed"} : RecoverAt(r, at)
    BY <1>4 DEF Publish, ReadPublication
  <2> QED  BY <1>0, <2>1, <2>2, RecoverAtKeeps DEF RecoverAts
<1> QED  BY <1>1, <1>2, <1>3, <1>4

LEMMA VerifyWitnessKeeps ==
  ASSUME Sane, GenInv, FenceInv, NEW r \in Recoverers, VerifyWitness(r)
  PROVE  Kept /\ FenceInv'
<1>0. UNCHANGED <<server, grants, gen, handed, committed, registered, drained>>
  BY DEF VerifyWitness, RecoverOnly
<1>1. handed.at # None /\ drained /\ r \in Writers
  BY DEF VerifyWitness, FenceInv, RecoverSound, GenInv, PhaseInv, Sane
<1>2. CASE UNCHANGED fence
  <2>1. \E at \in {"fencing", "failed"} : RecoverAt(r, at)
    BY DEF VerifyWitness
  <2> QED  BY <1>0, <1>1, <1>2, <2>1, RecoverAtKeeps DEF RecoverAts
<1>3. CASE RecoverAt(r, "fencing") /\ FenceAt(r, "next")
  <2>1. /\ fence' \in [Writers -> Fencing] /\ \A k \in Writers : k # r => fence'[k] = fence[k]
        /\ fence'[r].at = "next" /\ fence'[r].obs = fence[r].obs
    BY <1>1, <1>3, FenceAtMoves DEF FenceInv, FenceAts
  <2>2. /\ recover' \in [Recoverers -> [at : RecoverAts, acked : Record]]
        /\ \A k \in Recoverers : k # r => recover'[k] = recover[k]
        /\ recover'[r].at = "fencing"
    BY <1>3, RecoverAtMoves DEF FenceInv, RecoverAts
  <2>3. FenceSound(r)'
    <3>1. \A d \in DOMAIN fence[r].obs : d \in gen.issued /\ Judged(d, fence[r].obs[d])
      BY <1>1 DEF FenceInv, FenceSound
    <3>2. \A d \in DOMAIN fence'[r].obs : d \in gen'.issued /\ Judged(d, fence[r].obs[d])'
      BY <1>0, <2>1, <3>1 DEF Judged
    <3> QED  BY <1>0, <1>1, <2>1, <3>2 DEF FenceSound
  <2> QED  BY <1>0, <1>1, <2>1, <2>2, <2>3, RecovererMoves
<1> QED  BY <1>2, <1>3 DEF VerifyWitness

\* The end of a write: what it was for is kept, or the capability is gone.
LEMMA AfterWitnessKeeps ==
  ASSUME Sane, GenInv, FenceInv, NEW r \in Recoverers,
         Reserved(r) \/ Recovered(r) \/ Published(r)
  PROVE  Kept /\ FenceInv'
<1>0. /\ UNCHANGED <<server, grants, gen, handed, committed, registered, drained>>
      /\ handed.at # None /\ r \in Writers
  BY DEF Reserved, Recovered, Published, AfterWitness, RecoverOnly, FenceInv, RecoverSound, Sane
<1>1. CASE RecoverAt(r, "failed") /\ UNCHANGED fence
  BY <1>0, <1>1, RecoverAtKeeps DEF RecoverAts
<1>2. ASSUME NEW from, NEW to \in RecoverAts, NEW stage \in Stages,
             NEW of \in Recoverers \cup Observations, AfterWitness(r, from, to, stage, of),
             ~(RecoverAt(r, "failed") /\ UNCHANGED fence)
      PROVE  /\ recover' \in [Recoverers -> [at : RecoverAts, acked : Record]]
             /\ \A k \in Recoverers : k # r => recover'[k] = recover[k]
             /\ recover'[r].at = to
             /\ IF stage = "recovered" THEN FenceAt(r, "accepted") ELSE UNCHANGED fence
  <2> DEFINE acked == IF stage = "owner" THEN Pinned(handed.acked, stage, of)
                                         ELSE Pinned(recover[r].acked, stage, of)
             n == [at |-> to, acked |-> acked]
  <2>1. recover' = [recover EXCEPT ![r] = n]
    BY <1>2 DEF AfterWitness
  <2>2. handed.acked \in Record /\ recover[r].acked \in Record
    BY <1>0 DEF GenInv, GenTyped, FenceInv, FenceTyped
  <2>3. acked \in Record
    BY <1>2, <2>2, Recording
  <2> HIDE DEF acked
  <2>4. n \in [at : RecoverAts, acked : Record]
    BY <1>2, <2>3
  <2>5. IF stage = "recovered" THEN FenceAt(r, "accepted") ELSE UNCHANGED fence
    BY <1>2 DEF AfterWitness
  <2> QED  BY <2>1, <2>4, <2>5 DEF FenceInv, FenceTyped
<1>3. fence[r].obs \in Observations
  BY <1>0 DEF FenceInv, FenceTyped, Fencing
<1>4. CASE Reserved(r) /\ ~(RecoverAt(r, "failed") /\ UNCHANGED fence)
  <2>1. /\ recover' \in [Recoverers -> [at : RecoverAts, acked : Record]]
        /\ \A k \in Recoverers : k # r => recover'[k] = recover[k]
        /\ recover'[r].at = "reserved" /\ UNCHANGED fence
    BY <1>2, <1>4 DEF Reserved, RecoverAts, Stages
  <2> QED  BY <1>0, <2>1, RecovererAlone
<1>5. CASE Published(r) /\ ~(RecoverAt(r, "failed") /\ UNCHANGED fence)
  <2>1. /\ recover' \in [Recoverers -> [at : RecoverAts, acked : Record]]
        /\ \A k \in Recoverers : k # r => recover'[k] = recover[k]
        /\ recover'[r].at = "published" /\ UNCHANGED fence
    BY <1>2, <1>5 DEF Published, RecoverAts, Stages
  <2>2. Final(fence[r].obs)
    BY <1>5 DEF Published, AfterWitness, FenceInv, RecoverSound
  <2> QED  BY <1>0, <2>1, <2>2, RecovererAlone
<1>6. CASE Recovered(r) /\ ~(RecoverAt(r, "failed") /\ UNCHANGED fence)
  <2>1. /\ recover' \in [Recoverers -> [at : RecoverAts, acked : Record]]
        /\ \A k \in Recoverers : k # r => recover'[k] = recover[k]
        /\ recover'[r].at = "recovered" /\ FenceAt(r, "accepted")
    BY <1>2, <1>3, <1>6 DEF Recovered, RecoverAts, Stages
  <2>2. Final(fence[r].obs)
    BY <1>6 DEF Recovered, AfterWitness, FenceInv, RecoverSound
  <2>3. FenceSound(r)'
    BY <1>0, <2>1, <2>2, Accepting
  <2>4. /\ fence' \in [Writers -> Fencing] /\ \A k \in Writers : k # r => fence'[k] = fence[k]
        /\ fence'[r].obs = fence[r].obs
    BY <1>0, <2>1, FenceAtMoves DEF FenceInv, FenceAts
  <2> QED  BY <1>0, <2>1, <2>2, <2>3, <2>4, RecovererMoves
<1>7. (RecoverAt(r, "failed") /\ UNCHANGED fence) \/ ~(RecoverAt(r, "failed") /\ UNCHANGED fence)
  OBVIOUS
<1> QED  BY <1>1, <1>4, <1>5, <1>6, <1>7

-----------------------------------------------------------------------------
LEMMA Initially ==
  ASSUME Sane, Init
  PROVE  GenInv /\ FenceInv
<1>1. {} \in SUBSET Servers /\ Registration({}) \in Record /\ Open({}) \in Row
  BY Recording DEF Open, Admission, Row
<1>2. gen \in Gen
  BY <1>1 DEF Init, Gen, GenPCs
<1>3. GenTyped
  BY <1>2, FS_EmptySet DEF Init, GenTyped, GrantAts, Server, Sane
<1>4. GrantInv
  BY DEF Init, GrantInv, Open, Admission
<1>5. PhaseInv
  BY DEF Init, PhaseInv, Sane
<1>6. RegisteredInv
  BY DEF Init, RegisteredInv
<1>7. FenceTyped
  <2>1. <<>> \in Observations
    BY DEF Observations
  <2>2. NotFencing \in Fencing
    BY <2>1 DEF NotFencing, Fencing, FenceAts
  <2>3. NoWitness \in Record
    BY DEF NoWitness, Record
  <2> QED  BY <2>2, <2>3 DEF Init, FenceTyped, RecoverAts
<1>8. \A f \in Writers : FenceSound(f)
  <2>1. DOMAIN <<>> = {}
    OBVIOUS
  <2>2. \A f \in Writers : fence[f].at = "idle" /\ DOMAIN fence[f].obs = {}
    BY <2>1 DEF Init, NotFencing
  <2> QED  BY <2>2 DEF FenceSound
<1>9. \A r \in Recoverers : RecoverSound(r)
  BY DEF Init, RecoverSound
<1> QED  BY <1>3, <1>4, <1>5, <1>6, <1>7, <1>8, <1>9 DEF GenInv, FenceInv

\* The steps that move neither a fence nor a recoverer.
LEMMA GenerationSteps ==
  ASSUME Sane, GenInv, FenceInv,
         \/ \E s \in Servers : \/ Prepare(s) \/ TakeGate(s) \/ Register(s) \/ Issue(s)
                               \/ Commit(s) \/ Land(s) \/ Lose(s) \/ Touch(s)
         \/ Fence \/ CloseForRecovery \/ Drain \/ PublishHandoff \/ HandOff
  PROVE  Kept /\ UNCHANGED <<fence, recover>>
<1>1. ASSUME NEW s \in Servers, Prepare(s) \/ TakeGate(s) \/ Register(s) \/ Issue(s)
      PROVE  Kept /\ UNCHANGED <<fence, recover>>
  <2>1. UNCHANGED <<fence, recover>>
    BY <1>1 DEF Prepare, TakeGate, Register, Issue
  <2> QED  BY <1>1, <2>1, PrepareKeeps, TakeGateKeeps, RegisterKeeps, IssueKeeps
<1>2. ASSUME NEW s \in Servers, Commit(s) \/ Land(s) \/ Lose(s) \/ Touch(s)
      PROVE  Kept /\ UNCHANGED <<fence, recover>>
  <2>1. UNCHANGED <<fence, recover>>
    BY <1>2 DEF Commit, Land, Lose, Touch
  <2> QED  BY <1>2, <2>1, SubmitKeeps, LandKeeps, TouchKeeps
<1>3. CASE Fence \/ CloseForRecovery
  BY <1>3, CloseKeeps DEF Fence, CloseForRecovery, Close
<1>4. CASE Drain
  BY <1>4, DrainKeeps DEF Drain
<1>5. CASE PublishHandoff
  BY <1>5, PublishHandoffKeeps DEF PublishHandoff
<1>6. CASE HandOff
  BY <1>6, HandOffKeeps DEF HandOff
<1> QED  BY <1>1, <1>2, <1>3, <1>4, <1>5, <1>6

LEMMA Steps ==
  ASSUME Sane, GenInv, FenceInv, [Next]_vars
  PROVE  Kept /\ FenceInv'
<1>1. CASE \/ \E s \in Servers : \/ Prepare(s) \/ TakeGate(s) \/ Register(s) \/ Issue(s)
                                 \/ Commit(s) \/ Land(s) \/ Lose(s) \/ Touch(s)
           \/ Fence \/ CloseForRecovery \/ Drain \/ PublishHandoff \/ HandOff
  BY <1>1, GenerationSteps, FencesStay
<1>2. CASE Drained
  BY <1>2, DrainedKeeps, DrainedFences
<1>3. CASE FenceAccept
  BY <1>3, FenceAcceptKeeps
<1>4. CASE \E f \in Writers : FenceRead(f) \/ FenceBar(f) \/ FenceReadBack(f)
  BY <1>4, FenceReadKeeps, FenceBarKeeps, FenceReadBackKeeps
<1>5. CASE \E r \in Recoverers : \/ Reserve(r) \/ Own(r) \/ Reserved(r) \/ VerifyWitness(r) \/ Recover(r)
                                 \/ Recovered(r) \/ Publish(r) \/ ReadPublication(r) \/ Published(r)
  BY <1>5, RecoverStepKeeps, VerifyWitnessKeeps, AfterWitnessKeeps
<1>6. CASE (WitnessStep /\ UNCHANGED genVars) \/ Restore \/ BackUp \/ UNCHANGED vars
  <2>1. UNCHANGED <<fence, recover, server, grants, gen, handed, committed, registered, drained>>
    BY <1>6 DEF genVars, vars, Restore, BackUp
  <2> QED  BY <2>1, StandsStill, FencesStay
<1> QED  BY <1>1, <1>2, <1>3, <1>4, <1>5, <1>6, Zenon DEF Next

\* What was accepted is exactly what was allocated.
LEMMA FinalIsCommitted ==
  ASSUME GenInv, NEW obs \in Observations, Final(obs)
  PROVE  committed = AllocatedIn(obs)
<1>1. committed \subseteq DOMAIN obs
  BY DEF GenInv, GenTyped, GrantInv, Final
<1>2. \A s \in DOMAIN obs : s \in committed <=> obs[s] = "allocated"
  BY DEF Final, Judged
<1> QED  BY <1>1, <1>2 DEF AllocatedIn

-----------------------------------------------------------------------------
\* The records: a recovery is pinned only with what is final.
TrueRecords == {rec \in Record : \A i \in 1..Rank(rec) :
                  rec.pins[i].stage = "recovered" => rec.pins[i].of \in {o \in Observations : Final(o)}}

Live  == {"put", "confirm", "reread", "ok"}
Write == {NotWriting} \cup [at : {"unknown"}]
         \cup [at : Live \cup {"unknown"}, was : Record, is : TrueRecords]

OwnerPinned(rec, r) == Rank(rec) >= 4 /\ rec.pins[4] = StagePin("owner", r)

\* A write acknowledged by the pinned table is in it, or was followed there.
WriteSound(p) ==
  /\ writes[p].at = "put" => \/ writes[p].was = NoWitness /\ Opens(writes[p].is)
                             \/ Follows(writes[p].is, writes[p].was)
  /\ writes[p].at = "ok" \/ (writes[p].at = "confirm" /\ pinned) =>
       \A r \in Recoverers : OwnerPinned(writes[p].is, r) => OwnerPinned(witness, r)

WitnessInv ==
  /\ witnessed \in BOOLEAN /\ pinned \in BOOLEAN /\ witness \in TrueRecords
  /\ writes \in [Writers -> Write]
  /\ \A p \in Writers : WriteSound(p)

AckedInv ==
  /\ gen.acked \in TrueRecords
  /\ handed.at # None => handed.acked \in TrueRecords
  /\ \A r \in Recoverers : recover[r].acked \in TrueRecords

LEMMA TruthStays ==
  ASSUME GenInv, Kept
  PROVE  TrueRecords \subseteq TrueRecords'
<1>1. \A o \in {o \in Observations : Final(o)} : o \in {q \in Observations : Final(q)'}
  BY FinalStays
<1> QED  BY <1>1 DEF TrueRecords

LEMMA TrueRegistration == \A gs \in SUBSET Servers : Registration(gs) \in TrueRecords
<1>1. \A gs \in SUBSET Servers : Registration(gs) \in Record
  BY Recording
<1>2. \A gs \in SUBSET Servers : /\ Rank(Registration(gs)) = 1
                                 /\ Registration(gs).pins[1].stage = "registered"
  BY DEF Registration, StagePin, Rank
<1> QED  BY <1>1, <1>2 DEF TrueRecords

LEMMA TruePinned ==
  ASSUME NEW rec \in TrueRecords, NEW stage \in Stages,
         NEW of \in (SUBSET Servers) \cup Recoverers \cup Observations,
         stage = "recovered" => of \in {o \in Observations : Final(o)}
  PROVE  Pinned(rec, stage, of) \in TrueRecords
<1> DEFINE n == Pinned(rec, stage, of)
<1>1. rec \in Record
  BY DEF TrueRecords
<1>2. n \in Record /\ Rank(n) = Rank(rec) + 1 /\ n.pins = Append(rec.pins, StagePin(stage, of))
  BY <1>1, Recording
<1>3. rec.pins \in Seq(Pin) /\ Rank(rec) = Len(rec.pins) /\ Rank(rec) \in Nat
  BY <1>1 DEF Record, Rank
<1> HIDE DEF n
<1>4. \A i \in 1..Rank(rec) : n.pins[i] = rec.pins[i]
  BY <1>2, <1>3
<1>5. n.pins[Rank(rec) + 1] = StagePin(stage, of)
  BY <1>2, <1>3
<1>6. ASSUME NEW i \in 1..Rank(n), n.pins[i].stage = "recovered"
      PROVE  n.pins[i].of \in {o \in Observations : Final(o)}
  <2>1. CASE i \in 1..Rank(rec)
    BY <1>4, <1>6, <2>1 DEF TrueRecords
  <2>2. CASE i = Rank(rec) + 1
    BY <1>5, <1>6, <2>2 DEF StagePin
  <2> QED  BY <1>2, <1>3, <2>1, <2>2
<1> QED  BY <1>2, <1>6 DEF TrueRecords, n

\* A write that goes on keeps what it writes.
LEMMA GoesOn ==
  ASSUME WitnessInv, NEW p \in Writers, writes[p].at \in Live,
         NEW at \in Live \cup {"unknown"}, WriteGoes(p, at)
  PROVE  /\ writes' \in [Writers -> Write] /\ \A k \in Writers : k # p => writes'[k] = writes[k]
         /\ writes'[p].at = at /\ writes'[p].was = writes[p].was /\ writes'[p].is = writes[p].is
         /\ writes[p].was \in Record /\ writes[p].is \in TrueRecords
<1>1. writes[p] \in [at : Live \cup {"unknown"}, was : Record, is : TrueRecords]
  BY DEF WitnessInv, Write, Live, NotWriting
<1>2. [writes[p] EXCEPT !.at = at] \in [at : Live \cup {"unknown"}, was : Record, is : TrueRecords]
  BY <1>1
<1> QED  BY <1>1, <1>2 DEF WitnessInv, WriteGoes, Write

\* The record in the table moves only forward: the pin of an owner stays.
LEMMA PutKeepsOwner ==
  ASSUME WitnessInv, NEW p \in Writers, writes[p].at = "put", PutLands(p), NEW r \in Recoverers,
         OwnerPinned(witness, r)
  PROVE  OwnerPinned(writes[p].is, r)
<1> DEFINE was == writes[p].was
           is  == writes[p].is
<1>1. was = witness
  BY DEF PutLands
<1>2. Rank(was) >= 4 /\ was.pins[4] = StagePin("owner", r)
  BY <1>1 DEF OwnerPinned
<1>3. was \in Record /\ is \in Record
  BY DEF WitnessInv, Write, Live, NotWriting, TrueRecords
<1>4. was.pins \in Seq(Pin) /\ is.pins \in Seq(Pin) /\ Rank(was) = Len(was.pins) /\ Rank(is) = Len(is.pins)
  BY <1>3 DEF Record, Rank
<1>5. was # NoWitness
  BY <1>2 DEF NoWitness, Rank
<1>6. Follows(is, was)
  BY <1>5 DEF WitnessInv, WriteSound
<1> HIDE DEF was, is
<1>7. Rank(is) = Rank(was) + 1 /\ SubSeq(is.pins, 1, Rank(was)) = was.pins
  BY <1>2, <1>6 DEF Follows
<1>8. is.pins[4] = was.pins[4]
  BY <1>2, <1>4, <1>7
<1> QED  BY <1>2, <1>4, <1>7, <1>8 DEF OwnerPinned, is

\* A write keeps what it writes as long as it lives, and the pin of an owner stays.
Forward ==
  /\ \A r \in Recoverers : OwnerPinned(witness, r) => OwnerPinned(witness', r)
  /\ witnessed' = witnessed

WritesOn(p) == writes'[p].at \in Live => writes[p].at \in Live /\ writes'[p].is = writes[p].is

LEMMA WitnessStepKeeps ==
  ASSUME GenInv, WitnessInv, WitnessStep, UNCHANGED genVars
  PROVE  WitnessInv' /\ Forward /\ \A p \in Writers : WritesOn(p)
<1>1. TrueRecords' = TrueRecords /\ witnessed' = witnessed /\ witnessed \in BOOLEAN
  BY DEF genVars, TrueRecords, Final, Judged, Settled, WitnessInv
<1>w. Write' = Write
  BY <1>1 DEF Write
<1>2. CASE ReplaceTable
  BY <1>1, <1>w, <1>2 DEF ReplaceTable, WitnessInv, WriteSound, Forward, WritesOn
<1>3. ASSUME NEW p \in Writers, Put(p) \/ Confirm(p) \/ Reread(p)
      PROVE  WitnessInv' /\ Forward /\ \A k \in Writers : WritesOn(k)
  <2>1. PICK at \in Live \cup {"unknown"} : WriteGoes(p, at)
    BY <1>3 DEF Put, Confirm, Reread, Live
  <2>2. writes[p].at \in Live /\ pinned' = pinned /\ pinned \in BOOLEAN
    BY <1>3 DEF Put, Confirm, Reread, Live, WitnessInv
  <2>3. /\ writes' \in [Writers -> Write] /\ \A k \in Writers : k # p => writes'[k] = writes[k]
        /\ writes'[p].at = at /\ writes'[p].was = writes[p].was /\ writes'[p].is = writes[p].is
        /\ writes[p].was \in Record /\ writes[p].is \in TrueRecords
    BY <2>1, <2>2, GoesOn
  <2>4. at # "put"
    <3>1. \A v \in Live \cup {"unknown"} : WriteGoes(p, v) => writes'[p].at = v
      BY <2>2, GoesOn
    <3>2. \E v \in {"confirm", "reread", "unknown", "ok"} : WriteGoes(p, v)
      BY <1>3 DEF Put, Confirm, Reread
    <3> QED  BY <2>3, <3>1, <3>2 DEF Live
  <2>5. \A k \in Writers : WritesOn(k)
    BY <2>2, <2>3 DEF WritesOn
  <2>6. witness' \in TrueRecords /\ \A r \in Recoverers : OwnerPinned(witness, r) => OwnerPinned(witness', r)
    <3>1. CASE witness' = witness
      BY <3>1 DEF WitnessInv
    <3>2. CASE witness' # witness
      <4>1. writes[p].at = "put" /\ PutLands(p) /\ witness' = writes[p].is
        BY <1>3, <3>2 DEF Put, Confirm, Reread
      <4> QED  BY <2>3, <4>1, PutKeepsOwner
    <3> QED  BY <3>1, <3>2
  <2>7. ASSUME NEW k \in Writers
        PROVE  /\ writes'[k].at = "put" => \/ writes'[k].was = NoWitness /\ Opens(writes'[k].is)
                                           \/ Follows(writes'[k].is, writes'[k].was)
               /\ writes'[k].at = "ok" \/ (writes'[k].at = "confirm" /\ pinned') =>
                    \A r \in Recoverers : OwnerPinned(writes'[k].is, r) => OwnerPinned(witness', r)
    <3>1. CASE k # p
      BY <2>2, <2>3, <2>6, <3>1 DEF WitnessInv, WriteSound
    <3>2. CASE k = p
      <4>1. SUFFICES ASSUME at = "ok" \/ (at = "confirm" /\ pinned), NEW r \in Recoverers,
                            OwnerPinned(writes[p].is, r)
                     PROVE  OwnerPinned(witness', r)
        BY <2>2, <2>3, <2>4, <3>2
      <4>2. CASE Put(p)
        <5>0. \A v \in Live \cup {"unknown"} : WriteGoes(p, v) => writes'[p].at = v
          BY <2>2, GoesOn
        <5>a. \E v \in {"confirm", "reread", "unknown"} : WriteGoes(p, v)
          BY <4>2 DEF Put
        <5>b. at \in {"confirm", "reread", "unknown"}
          BY <2>3, <5>0, <5>a DEF Live
        <5>1. pinned /\ at = "confirm"
          BY <4>1, <5>b
        <5>2. witness' = writes[p].is
          <6>1. WriteGoes(p, "unknown") => writes'[p].at = "unknown"
            BY DEF WriteGoes, WitnessInv
          <6>2. WriteGoes(p, "reread") => writes'[p].at = "reread"
            BY DEF WriteGoes, WitnessInv
          <6> QED  BY <2>3, <4>2, <5>1, <6>1, <6>2 DEF Put
        <5> QED  BY <4>1, <5>2
      <4>3. CASE Confirm(p)
        <5>1. writes[p].at = "confirm" /\ UNCHANGED witness
          BY <4>3 DEF Confirm
        <5>2. pinned
          <6>1. WriteGoes(p, "unknown") => writes'[p].at = "unknown"
            BY DEF WriteGoes, WitnessInv
          <6> QED  BY <2>3, <4>1, <4>3, <6>1 DEF Confirm
        <5> QED  BY <4>1, <5>1, <5>2 DEF WitnessInv, WriteSound
      <4>4. CASE Reread(p)
        <5>1. WriteGoes(p, "unknown") => writes'[p].at = "unknown"
          BY DEF WriteGoes, WitnessInv
        <5> QED  BY <2>3, <4>1, <4>4, <5>1 DEF Reread
      <4> QED  BY <1>3, <4>2, <4>3, <4>4
    <3> QED  BY <3>1, <3>2
  <2>8. WitnessInv'
    BY <1>1, <1>w, <2>2, <2>3, <2>6, <2>7 DEF WitnessInv, WriteSound
  <2> QED  BY <1>1, <2>5, <2>6, <2>8 DEF Forward
<1> QED  BY <1>2, <1>3 DEF WitnessStep

\* A step of a process that writes nothing to the witness.
LEMMA WitnessRests ==
  ASSUME GenInv, Kept, WitnessInv, UNCHANGED <<witnessVars, witnessed>>
  PROVE  WitnessInv' /\ Forward /\ \A p \in Writers : WritesOn(p)
<1>1. TrueRecords \subseteq TrueRecords'
  BY TruthStays
<1>2. UNCHANGED <<witness, pinned, writes, witnessed>>
  BY DEF witnessVars
<1>3. Write \subseteq Write'
  BY <1>1 DEF Write
<1>4. witness' \in TrueRecords' /\ writes' \in [Writers -> Write']
  BY <1>1, <1>2, <1>3 DEF WitnessInv
<1>5. \A p \in Writers : WriteSound(p)'
  BY <1>2 DEF WitnessInv, WriteSound
<1> QED  BY <1>2, <1>4, <1>5 DEF WitnessInv, Forward, WritesOn

\* A write begins.
LEMMA WriteBegins ==
  ASSUME GenInv, Kept, WitnessInv, NEW p \in Writers, UNCHANGED witnessed,
         NEW was \in Record, NEW is, is \in TrueRecords', WriteGeneration(p, was, is)
  PROVE  /\ WitnessInv' /\ Forward
         /\ \A k \in Writers : k # p => WritesOn(k)
         /\ writes'[p].at \in Live => writes'[p].is = is
<1>1. TrueRecords \subseteq TrueRecords'
  BY TruthStays
<1>2. UNCHANGED <<witness, pinned>>
  BY DEF WriteGeneration
<1>3. Write \subseteq Write'
  BY <1>1 DEF Write
<1> DEFINE n == IF (was = NoWitness /\ Opens(is)) \/ Follows(is, was)
                THEN [at |-> "put", was |-> was, is |-> is] ELSE [at |-> "unknown"]
<1>4. writes' = [writes EXCEPT ![p] = n]
  BY DEF WriteGeneration
<1>5. n \in Write' /\ (n.at = "put" => n.was = was /\ n.is = is) /\ n.at \in {"put", "unknown"}
      /\ (n.at = "put" => (was = NoWitness /\ Opens(is)) \/ Follows(is, was))
  BY DEF Write, Live
<1> HIDE DEF n
<1>6. /\ writes' \in [Writers -> Write'] /\ writes'[p] = n
      /\ \A k \in Writers : k # p => writes'[k] = writes[k]
  BY <1>3, <1>4, <1>5 DEF WitnessInv
<1>7. witness' \in TrueRecords'
  BY <1>1, <1>2 DEF WitnessInv
<1>8. ASSUME NEW k \in Writers
      PROVE  WriteSound(k)'
  <2>1. CASE k # p
    BY <1>2, <1>6, <2>1 DEF WitnessInv, WriteSound
  <2>2. CASE k = p
    <3>1. writes'[k].at = "put" => \/ writes'[k].was = NoWitness /\ Opens(writes'[k].is)
                                   \/ Follows(writes'[k].is, writes'[k].was)
      BY <1>5, <1>6, <2>2
    <3>2. writes'[k].at \notin {"ok", "confirm"}
      BY <1>5, <1>6, <2>2
    <3> QED  BY <3>1, <3>2 DEF WriteSound
  <2> QED  BY <2>1, <2>2
<1>9. WitnessInv' /\ Forward
  BY <1>2, <1>6, <1>7, <1>8 DEF WitnessInv, Forward
<1>10. writes'[p].at \in Live => writes'[p].is = is
  BY <1>5, <1>6 DEF Live
<1> QED  BY <1>6, <1>9, <1>10 DEF WritesOn

LEMMA WriteEnds ==
  ASSUME GenInv, Kept, WitnessInv, NEW p \in Writers, UNCHANGED witnessed, EndWrite(p)
  PROVE  WitnessInv' /\ Forward /\ \A k \in Writers : WritesOn(k)
<1>1. TrueRecords \subseteq TrueRecords'
  BY TruthStays
<1>2. UNCHANGED <<witness, pinned>>
  BY DEF EndWrite
<1>3. Write \subseteq Write'
  BY <1>1 DEF Write
<1>4. /\ writes' \in [Writers -> Write'] /\ writes'[p].at = "idle"
      /\ \A k \in Writers : k # p => writes'[k] = writes[k]
  BY <1>3 DEF WitnessInv, EndWrite, NotWriting, Write
<1>5. witness' \in TrueRecords'
  BY <1>1, <1>2 DEF WitnessInv
<1>6. \A k \in Writers : WriteSound(k)'
  BY <1>2, <1>4 DEF WitnessInv, WriteSound
<1> QED  BY <1>2, <1>4, <1>5, <1>6 DEF WitnessInv, Forward, WritesOn, Live

\* What the owner holds of the record: nothing recovers in it.
LEMMA IssueAcks ==
  ASSUME Sane, GenInv, AckedInv, NEW s \in Servers, Issue(s)
  PROVE  gen'.acked \in TrueRecords /\ gen'.pc = gen.pc
<1> DEFINE next  == Open(gen.head.grants \cup {s})
           k1    == [gen EXCEPT !.head = next]
           kept  == [k1 EXCEPT !.issued = gen.issued \cup {s}]
           acked == [kept EXCEPT !.acked = Registration(next.grants)]
<1>1. gen' \in {Broken(kept), Broken(acked), Release(acked)}
  BY DEF Issue
<1>2. next \in Row /\ next.grants \in SUBSET Servers
  BY DEF Open, Admission, Row, GenInv, GenTyped, Gen
<1> HIDE DEF next
<1>3. k1 \in Gen /\ k1.acked = gen.acked /\ k1.pc = gen.pc
  BY <1>2, GenEdits DEF GenInv, GenTyped, Gen
<1>4. gen.issued \cup {s} \in SUBSET Servers
  BY DEF GenInv, GenTyped, Gen
<1> HIDE DEF k1
<1>5. kept \in Gen /\ kept.acked = gen.acked /\ kept.pc = gen.pc
  BY <1>3, <1>4, GenEdits DEF Gen
<1> HIDE DEF kept
<1>6. Registration(next.grants) \in TrueRecords /\ Registration(next.grants) \in Record
  BY <1>2, TrueRegistration, Recording
<1>7. acked \in Gen /\ acked.acked = Registration(next.grants) /\ acked.pc = gen.pc
  BY <1>5, <1>6, GenEdits DEF Gen
<1> HIDE DEF acked
<1>8. Release(acked).acked = acked.acked /\ Release(acked).pc = acked.pc
  BY <1>7 DEF Gen, Release
<1>9. /\ Broken(acked).acked = acked.acked /\ Broken(kept).acked = kept.acked
      /\ Broken(acked).pc = acked.pc /\ Broken(kept).pc = kept.pc
  BY <1>5, <1>7, Breaking
<1> QED  BY <1>1, <1>5, <1>6, <1>7, <1>8, <1>9 DEF AckedInv

LEMMA DrainedAcks ==
  ASSUME Sane, GenInv, AckedInv, Drained
  PROVE  gen'.acked \in TrueRecords
<1>b. gen \in Gen
  BY DEF GenInv, GenTyped
<1>1. CASE gen' = [Broken(gen) EXCEPT !.pc = "failed"]
  BY <1>1, <1>b, Failing DEF AckedInv
<1>2. CASE gen' # [Broken(gen) EXCEPT !.pc = "failed"]
  <2> DEFINE rec   == Pinned(gen.acked, "drained", gen.head.grants)
             acked == [gen EXCEPT !.acked = rec]
  <2>1. \/ gen' = [Release(acked) EXCEPT !.pc = "fence"]
        \/ gen' = [acked EXCEPT !.pc = "hand off"]
    BY <1>2 DEF Drained
  <2>2. rec \in Record
    BY Recording DEF Stages, GenInv, GenTyped, Gen, Row
  <2>3. rec \in TrueRecords
    BY TruePinned DEF AckedInv, Stages, GenInv, GenTyped, Gen, Row
  <2> HIDE DEF rec
  <2>4. acked \in Gen /\ acked.acked = rec
    BY <1>b, <2>2, GenEdits DEF Gen
  <2> HIDE DEF acked
  <2>5. Release(acked) \in Gen /\ Release(acked).acked = rec
    BY <2>4, GenEdits DEF Release, Gen
  <2>6. gen'.acked = rec
    BY <2>1, <2>4, <2>5 DEF Gen
  <2> QED  BY <2>3, <2>6
<1> QED  BY <1>1, <1>2

LEMMA OwnerAcks ==
  ASSUME Sane, GenInv, AckedInv, [Next]_vars
  PROVE  gen'.acked \in TrueRecords
<1>b. gen \in Gen /\ gen.acked \in TrueRecords
  BY DEF GenInv, GenTyped, AckedInv
<1>1. ASSUME NEW s \in Servers, TakeGate(s) \/ Register(s)
      PROVE  gen'.acked \in TrueRecords
  <2>1. gen' = gen \/ gen' = Broken(gen) \/ gen' = [gen EXCEPT !.gate = s]
    BY <1>1 DEF TakeGate, Register
  <2> QED  BY <1>b, <2>1, Breaking DEF Gen
<1>2. CASE Fence \/ CloseForRecovery
  BY <1>b, <1>2 DEF Fence, CloseForRecovery, Close, Gen
<1>3. CASE Drain
  <2> DEFINE c == [gen EXCEPT !.gate = Owner]
  <2>1. \/ gen' = [Broken(gen) EXCEPT !.pc = "failed"]
        \/ gen' = [c EXCEPT !.head = Draining(gen.head.grants)]
    BY <1>3 DEF Drain
  <2>2. c \in Gen /\ c.acked = gen.acked
    BY <1>b, GenEdits DEF Gen
  <2> HIDE DEF c
  <2> QED  BY <1>b, <2>1, <2>2, Failing DEF Gen
<1>4. CASE PublishHandoff
  <2>1. \/ gen' = [Broken(gen) EXCEPT !.pc = "failed"]
        \/ gen' = [gen EXCEPT !.pc = "handed"]
    BY <1>4 DEF PublishHandoff
  <2> QED  BY <1>b, <2>1, Failing DEF Gen
<1>5. CASE HandOff
  <2> DEFINE c == Release(gen)
  <2>1. gen' = [Broken(gen) EXCEPT !.pc = "failed"] \/ gen' = [c EXCEPT !.pc = "closed"]
    BY <1>5 DEF HandOff
  <2>2. c \in Gen /\ c.acked = gen.acked
    BY <1>b, GenEdits DEF Release, Gen
  <2> HIDE DEF c
  <2> QED  BY <1>b, <2>1, <2>2, Failing DEF Gen
<1>6. ASSUME NEW s \in Servers, Prepare(s) \/ Commit(s) \/ Land(s) \/ Lose(s) \/ Touch(s)
      PROVE  gen' = gen
  BY <1>6 DEF Prepare, Commit, Land, Lose, Touch
<1>7. ASSUME NEW f \in Writers, FenceRead(f) \/ FenceBar(f) \/ FenceReadBack(f)
      PROVE  gen' = gen
  BY <1>7 DEF FenceRead, FenceBar, FenceReadBack, FenceOnly
<1>8. ASSUME NEW r \in Recoverers,
             \/ Reserve(r) \/ Own(r) \/ Reserved(r) \/ VerifyWitness(r) \/ Recover(r)
             \/ Recovered(r) \/ Publish(r) \/ ReadPublication(r) \/ Published(r)
      PROVE  gen' = gen
  BY <1>8 DEF Reserve, Own, Reserved, VerifyWitness, Recover, Recovered, Publish, ReadPublication,
              Published, AfterWitness, RecoverOnly
<1>9. FenceAccept \/ (WitnessStep /\ UNCHANGED genVars) \/ Restore \/ BackUp \/ UNCHANGED vars => gen' = gen
  BY DEF FenceAccept, FenceOnly, Restore, BackUp, genVars, vars
<1> QED  BY <1>b, <1>1, <1>2, <1>3, <1>4, <1>5, <1>6, <1>7, <1>8, <1>9, IssueAcks, DrainedAcks, Zenon DEF Next

LEMMA HandedAcks ==
  ASSUME Sane, GenInv, AckedInv, Kept, [Next]_vars
  PROVE  handed'.at # None => handed'.acked \in TrueRecords
<1>1. CASE handed' = handed
  BY <1>1 DEF AckedInv
<1>2. CASE HandOff /\ handed' # handed
  <2>1. handed' = [at |-> "handed", head |-> gen.head, acked |-> Pinned(gen.acked, "handoff", gen.head.grants)]
    BY <1>2 DEF HandOff
  <2>2. Pinned(gen.acked, "handoff", gen.head.grants) \in TrueRecords
    BY TruePinned DEF AckedInv, Stages, GenInv, GenTyped, Gen, Row
  <2> QED  BY <2>1, <2>2
<1>3. ASSUME NEW s \in Servers, \/ Prepare(s) \/ TakeGate(s) \/ Register(s) \/ Issue(s)
                                \/ Commit(s) \/ Land(s) \/ Lose(s) \/ Touch(s)
      PROVE  handed' = handed
  BY <1>3 DEF Prepare, TakeGate, Register, Issue, Commit, Land, Lose, Touch
<1>4. ASSUME NEW f \in Writers, FenceRead(f) \/ FenceBar(f) \/ FenceReadBack(f)
      PROVE  handed' = handed
  BY <1>4 DEF FenceRead, FenceBar, FenceReadBack, FenceOnly
<1>5. ASSUME NEW r \in Recoverers,
             \/ Reserve(r) \/ Own(r) \/ Reserved(r) \/ VerifyWitness(r) \/ Recover(r)
             \/ Recovered(r) \/ Publish(r) \/ ReadPublication(r) \/ Published(r)
      PROVE  handed' = handed
  BY <1>5 DEF Reserve, Own, Reserved, VerifyWitness, Recover, Recovered, Publish, ReadPublication,
              Published, AfterWitness, RecoverOnly
<1>6. Fence \/ CloseForRecovery \/ Drain \/ Drained \/ PublishHandoff => handed' = handed
  BY DEF Fence, CloseForRecovery, Close, Drain, Drained, PublishHandoff
<1>7. FenceAccept \/ (WitnessStep /\ UNCHANGED genVars) \/ Restore \/ BackUp \/ UNCHANGED vars => handed' = handed
  BY DEF FenceAccept, FenceOnly, Restore, BackUp, genVars, vars
<1>8. HandOff \/ ~HandOff
  OBVIOUS
<1> QED  BY <1>1, <1>2, <1>3, <1>4, <1>5, <1>6, <1>7, <1>8, Zenon DEF Next

\* What a step does to a recoverer: nothing, another step of it, or the end of a write.
RecordOf(r, stage, of) == IF stage = "owner" THEN Pinned(handed.acked, stage, of)
                                             ELSE Pinned(recover[r].acked, stage, of)
Moves(r) == \E at \in RecoverAts : RecoverAt(r, at)
Ends(r)  == \/ Reserved(r) /\ recover'[r] = [at |-> "reserved", acked |-> RecordOf(r, "owner", r)]
            \/ Recovered(r) /\ recover'[r] = [at |-> "recovered", acked |-> RecordOf(r, "recovered", fence[r].obs)]
            \/ Published(r) /\ recover'[r] = [at |-> "published", acked |-> RecordOf(r, "published", r)]

LEMMA RecoverSteps ==
  ASSUME FenceTyped, NEW r \in Recoverers,
         \/ Reserve(r) \/ Own(r) \/ Reserved(r) \/ VerifyWitness(r) \/ Recover(r)
         \/ Recovered(r) \/ Publish(r) \/ ReadPublication(r) \/ Published(r)
  PROVE  (Moves(r) \/ Ends(r)) /\ \A k \in Recoverers : k # r => recover'[k] = recover[k]
<1>1. CASE Reserve(r) \/ Own(r) \/ VerifyWitness(r) \/ Recover(r) \/ Publish(r) \/ ReadPublication(r)
  <2>1. \E at \in RecoverAts : RecoverAt(r, at)
    BY <1>1 DEF Reserve, Own, VerifyWitness, Recover, Publish, ReadPublication, RecoverAts
  <2> QED  BY <2>1, RecoverAtMoves DEF Moves
<1>2. ASSUME NEW from, NEW to, NEW stage, NEW of, AfterWitness(r, from, to, stage, of)
      PROVE  \/ RecoverAt(r, "failed")
             \/ /\ recover'[r] = [at |-> to, acked |-> RecordOf(r, stage, of)]
                /\ \A k \in Recoverers : k # r => recover'[k] = recover[k]
  BY <1>2 DEF AfterWitness, RecordOf, FenceTyped
<1>3. RecoverAt(r, "failed") => Moves(r) /\ \A k \in Recoverers : k # r => recover'[k] = recover[k]
  BY RecoverAtMoves DEF Moves, RecoverAts
<1>4. CASE Reserved(r) \/ Recovered(r) \/ Published(r)
  BY <1>2, <1>3, <1>4 DEF Reserved, Recovered, Published, Ends
<1> QED  BY <1>1, <1>4

LEMMA RecovererAcks ==
  ASSUME Sane, GenInv, FenceInv, AckedInv, NEW r \in Recoverers, Moves(r) \/ Ends(r)
  PROVE  recover'[r].acked \in TrueRecords
<1>1. CASE Moves(r)
  BY <1>1, RecoverAtMoves DEF Moves, FenceInv, AckedInv
<1>2. CASE Ends(r)
  <2>1. recover[r].at \in {"owner", "recovering", "publishing"}
    BY <1>2 DEF Ends, Reserved, Recovered, Published, AfterWitness
  <2>2. handed.at # None /\ r \in Writers
    BY <2>1 DEF FenceInv, RecoverSound, Sane
  <2>3. fence[r].obs \in Observations
    BY <2>2 DEF FenceInv, FenceTyped, Fencing
  <2>4. handed.acked \in TrueRecords /\ recover[r].acked \in TrueRecords
    BY <2>2 DEF AckedInv
  <2>5. RecordOf(r, "owner", r) \in TrueRecords /\ RecordOf(r, "published", r) \in TrueRecords
    BY <2>4, TruePinned DEF RecordOf, Stages
  <2>6. CASE Recovered(r)
    <3>1. recover[r].at = "recovering"
      BY <2>6 DEF Recovered, AfterWitness
    <3>2. Final(fence[r].obs)
      BY <3>1 DEF FenceInv, RecoverSound
    <3>3. RecordOf(r, "recovered", fence[r].obs) \in TrueRecords
      BY <2>3, <2>4, <3>2, TruePinned DEF RecordOf, Stages
    <3> QED  BY <1>2, <2>5, <3>3 DEF Ends
  <2>7. CASE ~Recovered(r)
    BY <1>2, <2>5, <2>7 DEF Ends
  <2> QED  BY <2>6, <2>7
<1> QED  BY <1>1, <1>2

\* Only its own steps move a recoverer.
Acts(r) == \/ Reserve(r) \/ Own(r) \/ Reserved(r) \/ VerifyWitness(r) \/ Recover(r)
           \/ Recovered(r) \/ Publish(r) \/ ReadPublication(r) \/ Published(r)

LEMMA RecoverersMove ==
  ASSUME Sane, GenInv, FenceInv, [Next]_vars, NEW r \in Recoverers
  PROVE  Acts(r) \/ recover'[r] = recover[r]
<1>1. ASSUME NEW k \in Recoverers,
             \/ Reserve(k) \/ Own(k) \/ Reserved(k) \/ VerifyWitness(k) \/ Recover(k)
             \/ Recovered(k) \/ Publish(k) \/ ReadPublication(k) \/ Published(k)
      PROVE  Acts(r) \/ recover'[r] = recover[r]
  BY <1>1, RecoverSteps DEF FenceInv, Acts
<1>2. CASE \/ \E s \in Servers : \/ Prepare(s) \/ TakeGate(s) \/ Register(s) \/ Issue(s)
                                 \/ Commit(s) \/ Land(s) \/ Lose(s) \/ Touch(s)
           \/ Fence \/ CloseForRecovery \/ Drain \/ PublishHandoff \/ HandOff
  BY <1>2, GenerationSteps
<1>3. Drained => recover' = recover
  BY DEF Drained
<1>4. ASSUME NEW f \in Writers, FenceRead(f) \/ FenceBar(f) \/ FenceReadBack(f)
      PROVE  recover' = recover
  BY <1>4 DEF FenceRead, FenceBar, FenceReadBack, FenceOnly
<1>5. FenceAccept \/ (WitnessStep /\ UNCHANGED genVars) \/ Restore \/ BackUp \/ UNCHANGED vars => recover' = recover
  BY DEF FenceAccept, FenceOnly, Restore, BackUp, genVars, vars
<1> QED  BY <1>1, <1>2, <1>3, <1>4, <1>5, Zenon DEF Next

LEMMA AckedKeeps ==
  ASSUME Sane, GenInv, FenceInv, AckedInv, [Next]_vars
  PROVE  AckedInv'
<1>1. TrueRecords \subseteq TrueRecords'
  BY Steps, TruthStays
<1>2. gen'.acked \in TrueRecords /\ (handed'.at # None => handed'.acked \in TrueRecords)
  BY Steps, OwnerAcks, HandedAcks
<1>3. \A r \in Recoverers : recover'[r].acked \in TrueRecords
  <2>1. ASSUME NEW r \in Recoverers
        PROVE  recover'[r].acked \in TrueRecords
    <3>1. CASE recover'[r] = recover[r]
      BY <3>1 DEF AckedInv
    <3>2. CASE Acts(r)
      BY <3>2, RecoverSteps, RecovererAcks DEF Acts, FenceInv
    <3> QED  BY <3>1, <3>2, RecoverersMove
  <2> QED  BY <2>1
<1> QED  BY <1>1, <1>2, <1>3 DEF AckedInv

-----------------------------------------------------------------------------
\* Who writes what to the witness.
Begins(p, was, is) == witnessed /\ WriteGeneration(p, was, is)
Writing(p) == \E was \in Record, is \in TrueRecords : Begins(p, was, is)
Ending(p)  == witnessed /\ EndWrite(p)

\* The owner writes what it registered, drained and handed on.
LEMMA OwnerWrites ==
  ASSUME Sane, GenInv, WitnessInv, AckedInv,
         (\E s \in Servers : Register(s) \/ Issue(s)) \/ Drain \/ Drained \/ PublishHandoff \/ HandOff
  PROVE  (UNCHANGED witnessVars \/ Writing(Owner) \/ Ending(Owner)) /\ UNCHANGED witnessed
<1>0. gen.acked \in TrueRecords /\ gen.acked \in Record /\ gen.head.grants \in SUBSET Servers
  BY DEF AckedInv, TrueRecords, GenInv, GenTyped, Gen, Row
<1>1. ASSUME NEW s \in Servers, Register(s)
      PROVE  (UNCHANGED witnessVars \/ Writing(Owner)) /\ UNCHANGED witnessed
  <2> DEFINE next == Open(gen.head.grants \cup {s})
  <2>1. /\ UNCHANGED witnessVars \/ Witness(Owner, gen.acked, Registration(next.grants))
        /\ UNCHANGED witnessed
    BY <1>1 DEF Register
  <2>2. next.grants \in SUBSET Servers
    BY <1>0 DEF Open, Admission
  <2>3. Registration(next.grants) \in TrueRecords
    BY <2>2, TrueRegistration
  <2> HIDE DEF next
  <2> QED  BY <1>0, <2>1, <2>3 DEF Witness, Writing, Begins
<1>2. CASE Drain
  <2> DEFINE next == Draining(gen.head.grants)
  <2>1. /\ UNCHANGED witnessVars \/ Witness(Owner, gen.acked, Pinned(gen.acked, "drained", next.grants))
        /\ UNCHANGED witnessed
    BY <1>2 DEF Drain
  <2>2. next.grants \in SUBSET Servers
    BY <1>0 DEF Draining, Admission
  <2> HIDE DEF next
  <2>3. Pinned(gen.acked, "drained", next.grants) \in TrueRecords
    BY <1>0, <2>2, TruePinned DEF Stages
  <2> QED  BY <1>0, <2>1, <2>3 DEF Witness, Writing, Begins
<1>3. CASE PublishHandoff
  <2>1. /\ UNCHANGED witnessVars \/ Witness(Owner, gen.acked, Pinned(gen.acked, "handoff", gen.head.grants))
        /\ UNCHANGED witnessed
    BY <1>3 DEF PublishHandoff
  <2>2. Pinned(gen.acked, "handoff", gen.head.grants) \in TrueRecords
    BY <1>0, TruePinned DEF Stages
  <2> QED  BY <1>0, <2>1, <2>2 DEF Witness, Writing, Begins
<1>4. ASSUME (\E s \in Servers : Issue(s)) \/ Drained \/ HandOff
      PROVE  (UNCHANGED witnessVars \/ Ending(Owner)) /\ UNCHANGED witnessed
  BY <1>4 DEF Issue, Drained, HandOff, Ending
<1> QED  BY <1>1, <1>2, <1>3, <1>4

LEMMA RecovererWrites ==
  ASSUME Sane, GenInv, FenceInv, WitnessInv, AckedInv, NEW r \in Recoverers,
         \/ Reserve(r) \/ Own(r) \/ Reserved(r) \/ VerifyWitness(r) \/ Recover(r)
         \/ Recovered(r) \/ Publish(r) \/ ReadPublication(r) \/ Published(r)
  PROVE  (UNCHANGED witnessVars \/ Writing(r) \/ Ending(r)) /\ UNCHANGED witnessed
<1>0. recover[r].acked \in TrueRecords /\ r \in Writers /\ TrueRecords \subseteq Record
  BY DEF AckedInv, Sane, TrueRecords
<1>1. CASE Own(r)
  <2>1. handed.at # None
    BY <1>1 DEF Own, FenceInv, RecoverSound
  <2>2. handed.acked \in TrueRecords
    BY <2>1 DEF AckedInv
  <2>3. Pinned(handed.acked, "owner", r) \in TrueRecords
    BY <2>2, TruePinned DEF Stages
  <2>4. /\ UNCHANGED witnessVars \/ Witness(r, handed.acked, Pinned(handed.acked, "owner", r))
        /\ UNCHANGED witnessed
    BY <1>1 DEF Own, RecoverOnly
  <2> QED  BY <1>0, <2>2, <2>3, <2>4 DEF Witness, Writing, Begins
<1>2. CASE Recover(r)
  <2>1. fence[r].obs \in Observations
    BY <1>0 DEF FenceInv, FenceTyped, Fencing
  <2>2. Final(fence[r].obs)
    BY <1>0, <1>2, CompleteIsFinal DEF Recover
  <2>3. Pinned(recover[r].acked, "recovered", fence[r].obs) \in TrueRecords
    BY <1>0, <2>1, <2>2, TruePinned DEF Stages
  <2>4. /\ UNCHANGED witnessVars \/ Witness(r, recover[r].acked, Pinned(recover[r].acked, "recovered", fence[r].obs))
        /\ UNCHANGED witnessed
    BY <1>2 DEF Recover, RecoverOnly, Advance
  <2> QED  BY <1>0, <2>3, <2>4 DEF Witness, Writing, Begins
<1>3. CASE ReadPublication(r)
  <2>1. Pinned(recover[r].acked, "published", r) \in TrueRecords
    BY <1>0, TruePinned DEF Stages
  <2>2. /\ UNCHANGED witnessVars \/ Witness(r, recover[r].acked, Pinned(recover[r].acked, "published", r))
        /\ UNCHANGED witnessed
    BY <1>3 DEF ReadPublication, RecoverOnly, Advance
  <2> QED  BY <1>0, <2>1, <2>2 DEF Witness, Writing, Begins
<1>4. CASE Reserve(r) \/ VerifyWitness(r) \/ Publish(r)
  BY <1>4 DEF Reserve, VerifyWitness, Publish, RecoverOnly
<1>5. CASE Reserved(r) \/ Recovered(r) \/ Published(r)
  BY <1>5 DEF Reserved, Recovered, Published, AfterWitness, RecoverOnly, Ending
<1> QED  BY <1>1, <1>2, <1>3, <1>4, <1>5

LEMMA OneWrites ==
  ASSUME GenInv, Kept, WitnessInv, NEW p \in Writers, UNCHANGED witnessed,
         UNCHANGED witnessVars \/ Writing(p) \/ Ending(p)
  PROVE  WitnessInv' /\ Forward /\ \A k \in Writers : k # p => WritesOn(k)
<1>1. CASE UNCHANGED witnessVars
  BY <1>1, WitnessRests
<1>2. CASE Ending(p)
  BY <1>2, WriteEnds DEF Ending
<1>3. CASE Writing(p)
  <2>1. PICK was \in Record, is \in TrueRecords : WriteGeneration(p, was, is)
    BY <1>3 DEF Writing, Begins
  <2>2. is \in TrueRecords'
    BY TruthStays
  <2> QED  BY <2>1, <2>2, WriteBegins
<1> QED  BY <1>1, <1>2, <1>3

\* The witness through every step; only its own steps touch a recoverer's write.
LEMMA WitnessKeeps ==
  ASSUME Sane, GenInv, FenceInv, WitnessInv, AckedInv, [Next]_vars
  PROVE  /\ WitnessInv' /\ Forward
         /\ \A r \in Recoverers :
              WritesOn(r) \/ Acts(r)
<1>0. Kept /\ Owner \in Writers /\ Owner \notin Recoverers /\ Recoverers \subseteq Writers
  BY Steps DEF Sane
<1>1. CASE (\E s \in Servers : Register(s) \/ Issue(s)) \/ Drain \/ Drained \/ PublishHandoff \/ HandOff
  BY <1>0, <1>1, OwnerWrites, OneWrites
<1>2. ASSUME NEW k \in Recoverers,
             \/ Reserve(k) \/ Own(k) \/ Reserved(k) \/ VerifyWitness(k) \/ Recover(k)
             \/ Recovered(k) \/ Publish(k) \/ ReadPublication(k) \/ Published(k)
      PROVE  WitnessInv' /\ Forward /\ \A r \in Recoverers : WritesOn(r) \/ Acts(r)
  <2>1. WitnessInv' /\ Forward /\ \A r \in Recoverers : r # k => WritesOn(r)
    BY <1>0, <1>2, RecovererWrites, OneWrites
  <2> QED  BY <1>2, <2>1 DEF Acts
<1>3. CASE WitnessStep /\ UNCHANGED genVars
  BY <1>0, <1>3, WitnessStepKeeps
<1>4. ASSUME UNCHANGED <<witnessVars, witnessed>>
      PROVE  WitnessInv' /\ Forward /\ \A r \in Recoverers : WritesOn(r)
  BY <1>0, <1>4, WitnessRests
<1>5. ASSUME NEW s \in Servers, Prepare(s) \/ TakeGate(s) \/ Commit(s) \/ Land(s) \/ Lose(s) \/ Touch(s)
      PROVE  UNCHANGED <<witnessVars, witnessed>>
  BY <1>5 DEF Prepare, TakeGate, Commit, Land, Lose, Touch
<1>6. ASSUME NEW f \in Writers, FenceRead(f) \/ FenceBar(f) \/ FenceReadBack(f)
      PROVE  UNCHANGED <<witnessVars, witnessed>>
  BY <1>6 DEF FenceRead, FenceBar, FenceReadBack, FenceOnly
<1>7. Fence \/ CloseForRecovery \/ FenceAccept \/ Restore \/ BackUp \/ UNCHANGED vars
        => UNCHANGED <<witnessVars, witnessed>>
  BY DEF Fence, CloseForRecovery, Close, FenceAccept, FenceOnly, Restore, BackUp, vars, genVars
<1> QED  BY <1>1, <1>2, <1>3, <1>4, <1>5, <1>6, <1>7, Zenon DEF Next

-----------------------------------------------------------------------------
\* The rows by which a generation is taken over.
Owning == [owner : Recoverers, handoff : Row]
Proven == [owner : Recoverers, obs : Observations]
Rows   == [admission : Row, handoff : SUBSET Row, owner : SUBSET Owning, proof : SUBSET Proven]

RowsInv ==
  /\ rows \in Rows /\ backup \in Rows /\ restores \in Nat
  /\ rows.proof # {} \/ backup.proof # {} => handed.at # None

OwnerRowStays == restores' = 0 => restores = 0 /\ (rows.owner = {} \/ rows'.owner = rows.owner)

LEMMA RowsRest ==
  ASSUME RowsInv, Kept, UNCHANGED <<rows, backup, restores>>
  PROVE  RowsInv' /\ OwnerRowStays
BY DEF RowsInv, OwnerRowStays, Kept, Later

LEMMA RowsWritten ==
  ASSUME RowsInv, Kept, UNCHANGED <<backup, restores>>,
         \/ \E v \in Row : rows' = [rows EXCEPT !.admission = v]
         \/ \E v \in SUBSET Row : rows' = [rows EXCEPT !.handoff = v]
         \/ rows.owner = {} /\ \E v \in SUBSET Owning : rows' = [rows EXCEPT !.owner = v]
         \/ handed.at # None /\ \E v \in SUBSET Proven : rows' = [rows EXCEPT !.proof = v]
  PROVE  RowsInv' /\ OwnerRowStays
<1>1. handed.at # None => handed'.at # None
  BY DEF Kept, Later
<1>2. CASE \E v \in Row : rows' = [rows EXCEPT !.admission = v]
  BY <1>1, <1>2 DEF RowsInv, Rows, OwnerRowStays
<1>3. CASE \E v \in SUBSET Row : rows' = [rows EXCEPT !.handoff = v]
  BY <1>1, <1>3 DEF RowsInv, Rows, OwnerRowStays
<1>4. CASE rows.owner = {} /\ \E v \in SUBSET Owning : rows' = [rows EXCEPT !.owner = v]
  BY <1>1, <1>4 DEF RowsInv, Rows, OwnerRowStays
<1>5. CASE handed.at # None /\ \E v \in SUBSET Proven : rows' = [rows EXCEPT !.proof = v]
  BY <1>1, <1>5 DEF RowsInv, Rows, OwnerRowStays
<1> QED  BY <1>2, <1>3, <1>4, <1>5

LEMMA RowsKeep ==
  ASSUME Sane, GenInv, FenceInv, RowsInv, [Next]_vars
  PROVE  RowsInv' /\ OwnerRowStays
<1>0. Kept /\ gen.head \in Row
  BY Steps DEF GenInv, GenTyped, Gen
<1>1. ASSUME NEW s \in Servers, Register(s)
      PROVE  RowsInv' /\ OwnerRowStays
  <2>1. \/ UNCHANGED rows
        \/ rows' = [rows EXCEPT !.admission = Open(gen.head.grants \cup {s})]
    BY <1>1 DEF Register
  <2>2. Open(gen.head.grants \cup {s}) \in Row
    BY <1>0 DEF Open, Admission, Row
  <2>3. UNCHANGED <<backup, restores>>
    BY <1>1 DEF Register
  <2> QED  BY <1>0, <2>1, <2>2, <2>3, RowsRest, RowsWritten
<1>2. CASE Drain
  <2>1. \/ UNCHANGED rows
        \/ rows' = [rows EXCEPT !.admission = Draining(gen.head.grants)]
    BY <1>2 DEF Drain
  <2>2. Draining(gen.head.grants) \in Row
    BY <1>0 DEF Draining, Admission, Row
  <2>3. UNCHANGED <<backup, restores>>
    BY <1>2 DEF Drain
  <2> QED  BY <1>0, <2>1, <2>2, <2>3, RowsRest, RowsWritten
<1>3. CASE PublishHandoff
  <2>1. UNCHANGED rows \/ rows' = [rows EXCEPT !.handoff = HandoffOf(gen.head)]
    BY <1>3 DEF PublishHandoff
  <2>2. HandoffOf(gen.head) \in SUBSET Row
    BY <1>0 DEF HandoffOf
  <2>3. UNCHANGED <<backup, restores>>
    BY <1>3 DEF PublishHandoff
  <2> QED  BY <1>0, <2>1, <2>2, <2>3, RowsRest, RowsWritten
<1>4. ASSUME NEW r \in Recoverers, Own(r)
      PROVE  RowsInv' /\ OwnerRowStays
  <2>1. UNCHANGED rows \/ (rows.owner = {} /\ rows' = [rows EXCEPT !.owner = OwnerOf(r, handed.head)])
    BY <1>4 DEF Own
  <2>2. handed.at # None
    BY <1>4 DEF Own, FenceInv, RecoverSound
  <2>3. OwnerOf(r, handed.head) \in SUBSET Owning
    BY <2>2 DEF OwnerOf, HandoffOf, Owning, GenInv, GenTyped
  <2>4. UNCHANGED <<backup, restores>>
    BY <1>4 DEF Own, RecoverOnly
  <2> QED  BY <1>0, <2>1, <2>3, <2>4, RowsRest, RowsWritten
<1>5. ASSUME NEW r \in Recoverers, Publish(r)
      PROVE  RowsInv' /\ OwnerRowStays
  <2>1. UNCHANGED rows \/ rows' = [rows EXCEPT !.proof = ProofOf(r, fence[r].obs, handed.head)]
    BY <1>5 DEF Publish
  <2>2. handed.at # None /\ fence[r].obs \in Observations
    BY <1>5 DEF Publish, FenceInv, RecoverSound, FenceTyped, Fencing, Sane
  <2>3. ProofOf(r, fence[r].obs, handed.head) \in SUBSET Proven
    BY <2>2 DEF ProofOf, Proven
  <2>4. UNCHANGED <<backup, restores>>
    BY <1>5 DEF Publish, RecoverOnly
  <2> QED  BY <1>0, <2>1, <2>2, <2>3, <2>4, RowsRest, RowsWritten
<1>6. CASE Restore
  <2>1. rows' = backup /\ restores' = restores + 1 /\ UNCHANGED <<backup, handed>>
    BY <1>6 DEF Restore
  <2> QED  BY <2>1 DEF RowsInv, OwnerRowStays
<1>7. CASE BackUp
  BY <1>7 DEF BackUp, RowsInv, OwnerRowStays
<1>8. ASSUME UNCHANGED <<rows, backup, restores>>
      PROVE  RowsInv' /\ OwnerRowStays
  BY <1>0, <1>8, RowsRest
<1>9. ASSUME NEW s \in Servers, \/ Prepare(s) \/ TakeGate(s) \/ Issue(s)
                                \/ Commit(s) \/ Land(s) \/ Lose(s) \/ Touch(s)
      PROVE  UNCHANGED <<rows, backup, restores>>
  BY <1>9 DEF Prepare, TakeGate, Issue, Commit, Land, Lose, Touch
<1>10. ASSUME NEW f \in Writers, FenceRead(f) \/ FenceBar(f) \/ FenceReadBack(f)
       PROVE  UNCHANGED <<rows, backup, restores>>
  BY <1>10 DEF FenceRead, FenceBar, FenceReadBack, FenceOnly
<1>11. ASSUME NEW r \in Recoverers, \/ Reserve(r) \/ Reserved(r) \/ VerifyWitness(r) \/ Recover(r)
                                    \/ Recovered(r) \/ ReadPublication(r) \/ Published(r)
       PROVE  UNCHANGED <<rows, backup, restores>>
  BY <1>11 DEF Reserve, Reserved, VerifyWitness, Recover, Recovered, ReadPublication, Published,
               AfterWitness, RecoverOnly
<1>12. ASSUME \/ Fence \/ CloseForRecovery \/ Drained \/ HandOff \/ FenceAccept
              \/ (WitnessStep /\ UNCHANGED genVars) \/ UNCHANGED vars
       PROVE  UNCHANGED <<rows, backup, restores>>
  BY <1>12 DEF Fence, CloseForRecovery, Close, Drained, HandOff, FenceAccept, FenceOnly, vars, genVars
<1>13. CASE \E s \in Servers : \/ Prepare(s) \/ TakeGate(s) \/ Register(s) \/ Issue(s)
                               \/ Commit(s) \/ Land(s) \/ Lose(s) \/ Touch(s)
  BY <1>1, <1>8, <1>9, <1>13, Zenon
<1>14. CASE \E r \in Recoverers :
              \/ Reserve(r) \/ Own(r) \/ Reserved(r) \/ VerifyWitness(r) \/ Recover(r)
              \/ Recovered(r) \/ Publish(r) \/ ReadPublication(r) \/ Published(r)
  BY <1>4, <1>5, <1>8, <1>11, <1>14, Zenon
<1>15. CASE \E f \in Writers : FenceRead(f) \/ FenceBar(f) \/ FenceReadBack(f)
  BY <1>8, <1>10, <1>15, Zenon
<1>16. CASE \/ Fence \/ CloseForRecovery \/ Drained \/ HandOff \/ FenceAccept
            \/ (WitnessStep /\ UNCHANGED genVars) \/ UNCHANGED vars
  BY <1>8, <1>12, <1>16, Zenon
<1> QED  BY <1>2, <1>3, <1>6, <1>7, <1>13, <1>14, <1>15, <1>16 DEF Next

-----------------------------------------------------------------------------
\* A recoverer with a record has its pin in the witness for good; without a witness
\* the owner row is its own until storage is restored.
OwnsRow(r) == restores = 0 => rows.owner = OwnerOf(r, handed.head)
Claimed(r) == IF witnessed THEN OwnerPinned(witness, r) ELSE OwnsRow(r)

Granted == {"reserved", "fencing", "recovering", "recovered", "read back", "publishing", "published"}

TakeoverSound(r) ==
  /\ recover[r].at # "idle" => handed.at # None /\ (witnessed => handed.acked = HandoffRecord)
  /\ recover[r].at = "idle" => recover[r].acked = NoWitness
  /\ recover[r].at \in Granted => recover[r].acked # NoWitness
  /\ recover[r].acked # NoWitness => Claimed(r)
  /\ recover[r].at = "owner" =>
       IF witnessed THEN writes[r].at \in Live => writes[r].is = Pinned(handed.acked, "owner", r)
                    ELSE OwnsRow(r)

TakeoverInv == \A r \in Recoverers : TakeoverSound(r)

\* A row that names an owner is nobody else's.
LEMMA OwnsRowStays ==
  ASSUME Sane, GenInv, Kept, OwnerRowStays, NEW r \in Recoverers, OwnsRow(r), handed.at # None
  PROVE  OwnsRow(r)'
<1>1. handed' = handed /\ handed.head.phase = "draining"
  BY DEF Kept, Later, GenInv, PhaseInv
<1>2. OwnerOf(r, handed.head) # {}
  BY <1>1 DEF OwnerOf, HandoffOf
<1> QED  BY <1>1, <1>2 DEF OwnsRow, OwnerRowStays

LEMMA ClaimStays ==
  ASSUME Sane, GenInv, Kept, WitnessInv, Forward, OwnerRowStays, NEW r \in Recoverers, Claimed(r),
         handed.at # None
  PROVE  Claimed(r)'
<1>1. CASE witnessed
  BY <1>1 DEF Claimed, Forward, OwnerPinned
<1>2. CASE ~witnessed
  BY <1>2, OwnsRowStays DEF Claimed, Forward
<1> QED  BY <1>1, <1>2

LEMMA TakeoverRests ==
  ASSUME Sane, GenInv, Kept, WitnessInv, Forward, OwnerRowStays, NEW r \in Recoverers, TakeoverSound(r),
         recover'[r] = recover[r], WritesOn(r) \/ recover[r].at # "owner"
  PROVE  TakeoverSound(r)'
<1>1. CASE recover[r].at = "idle"
  BY <1>1 DEF TakeoverSound, Granted
<1>2. CASE recover[r].at # "idle"
  <2>1. handed' = handed /\ handed.at # None /\ witnessed' = witnessed
    BY <1>2 DEF TakeoverSound, Kept, Later, Forward
  <2>2. HandoffRecord' = HandoffRecord
    BY <2>1 DEF HandoffRecord
  <2>3. Claimed(r) => Claimed(r)'
    BY <2>1, ClaimStays
  <2>4. OwnsRow(r) => OwnsRow(r)'
    BY <2>1, OwnsRowStays
  <2>5. CASE recover[r].at # "owner"
    BY <1>2, <2>1, <2>2, <2>3, <2>5 DEF TakeoverSound
  <2>6. CASE recover[r].at = "owner"
    <3>1. recover'[r].at \notin Granted /\ recover'[r].at = "owner"
      BY <2>6 DEF Granted
    <3>2. handed'.at # None /\ (witnessed' => handed'.acked = HandoffRecord')
      BY <1>2, <2>1, <2>2 DEF TakeoverSound
    <3>3. recover'[r].acked # NoWitness => Claimed(r)'
      BY <2>3 DEF TakeoverSound
    <3>4. witnessed' => (writes'[r].at \in Live => writes'[r].is = Pinned(handed'.acked, "owner", r))
      BY <2>1, <2>6 DEF TakeoverSound, WritesOn
    <3>5. ~witnessed' => OwnsRow(r)'
      BY <2>1, <2>4, <2>6 DEF TakeoverSound
    <3> QED  BY <3>1, <3>2, <3>3, <3>4, <3>5 DEF TakeoverSound
  <2> QED  BY <2>5, <2>6
<1> QED  BY <1>1, <1>2

\* A step that leaves the record of a recoverer as it is.
LEMMA TakeoverMoves ==
  ASSUME Sane, GenInv, Kept, WitnessInv, Forward, OwnerRowStays, NEW r \in Recoverers, TakeoverSound(r),
         FenceTyped, NEW at \in RecoverAts \ {"idle", "owner"}, RecoverAt(r, at),
         at \in Granted => recover[r].at \in Granted,
         handed.at # None, witnessed => handed.acked = HandoffRecord
  PROVE  TakeoverSound(r)'
<1>1. recover'[r].at = at /\ recover'[r].acked = recover[r].acked
  BY RecoverAtMoves
<1>2. handed' = handed /\ witnessed' = witnessed /\ HandoffRecord' = HandoffRecord
  BY DEF Kept, Later, Forward, HandoffRecord
<1>3. Claimed(r) => Claimed(r)'
  BY ClaimStays
<1> QED  BY <1>1, <1>2, <1>3 DEF TakeoverSound

LEMMA OwnTakes ==
  ASSUME Sane, GenInv, Kept, WitnessInv, AckedInv, RowsInv, Forward, OwnerRowStays, FenceTyped,
         NEW r \in Recoverers, TakeoverSound(r), Own(r)
  PROVE  TakeoverSound(r)'
<1>1. recover[r].at = "own" /\ handed.at # None /\ (witnessed => handed.acked = HandoffRecord)
  BY DEF Own, TakeoverSound
<1>2. CASE RecoverAt(r, "failed")
  BY <1>1, <1>2, TakeoverMoves DEF RecoverAts, Granted
<1>3. CASE ~RecoverAt(r, "failed")
  <2>1. /\ rows' = [rows EXCEPT !.owner = OwnerOf(r, handed.head)] /\ RecoverAt(r, "owner")
        /\ Witness(r, handed.acked, Pinned(handed.acked, "owner", r)) /\ UNCHANGED <<handed, witnessed>>
    BY <1>3 DEF Own, RecoverOnly
  <2>2. recover'[r].at = "owner" /\ recover'[r].acked = recover[r].acked
    BY <2>1, RecoverAtMoves DEF RecoverAts
  <2>3. OwnsRow(r)'
    BY <2>1 DEF OwnsRow, RowsInv, Rows
  <2>4. recover'[r].acked # NoWitness => Claimed(r)'
    BY <1>1, <2>2, ClaimStays DEF TakeoverSound
  <2>5. witnessed => (writes'[r].at \in Live => writes'[r].is = Pinned(handed.acked, "owner", r))
    BY <2>1 DEF Witness, WriteGeneration, WitnessInv, Live, Sane
  <2>6. HandoffRecord' = HandoffRecord
    BY <2>1 DEF HandoffRecord
  <2> QED  BY <1>1, <2>1, <2>2, <2>3, <2>4, <2>5, <2>6 DEF TakeoverSound, Granted
<1> QED  BY <1>2, <1>3

\* The record of a handoff has three pins; the owner's is the fourth.
LEMMA OwnerIsFourth ==
  ASSUME Sane, GenInv, handed.at # None, NEW r \in Recoverers
  PROVE  OwnerPinned(Pinned(HandoffRecord, "owner", r), r)
<1> DEFINE gs == handed.head.grants
           a == Registration(gs)
           b == Pinned(a, "drained", gs)
           c == Pinned(b, "handoff", gs)
           d == Pinned(c, "owner", r)
<1>1. gs \in SUBSET Servers
  BY DEF GenInv, GenTyped, Row
<1> HIDE DEF gs
<1>2. a \in Record /\ Rank(a) = 1
  BY <1>1, Recording DEF Registration, Rank
<1> HIDE DEF a
<1>s. "drained" \in Stages /\ "handoff" \in Stages /\ gs \in (SUBSET Servers) \cup Recoverers \cup Observations
  BY <1>1 DEF Stages
<1>3. b \in Record /\ Rank(b) = 2
  <2>1. b \in Record /\ Rank(b) = Rank(a) + 1
    BY <1>2, <1>s, Recording
  <2> QED  BY <1>2, <2>1
<1> HIDE DEF b
<1>4. c \in Record /\ Rank(c) = 3
  <2>1. c \in Record /\ Rank(c) = Rank(b) + 1
    BY <1>3, <1>s, Recording
  <2> QED  BY <1>3, <2>1
<1> HIDE DEF c
<1>5. d \in Record /\ Rank(d) = Rank(c) + 1 /\ d.pins = Append(c.pins, StagePin("owner", r))
  BY <1>4, Recording DEF Stages
<1>6. d.pins[4] = StagePin("owner", r)
  BY <1>4, <1>5 DEF Record, Rank
<1>7. HandoffRecord = c
  BY DEF HandoffRecord, a, b, c, gs
<1> HIDE DEF d
<1>8. Rank(d) >= 4
  BY <1>4, <1>5
<1>9. OwnerPinned(d, r)
  BY <1>6, <1>8 DEF OwnerPinned
<1> QED  BY <1>7, <1>9 DEF d

LEMMA EndTakes ==
  ASSUME Sane, GenInv, Kept, WitnessInv, AckedInv, RowsInv, Forward, OwnerRowStays, FenceTyped,
         NEW r \in Recoverers, TakeoverSound(r), Reserved(r) \/ Recovered(r) \/ Published(r), FenceInv
  PROVE  TakeoverSound(r)'
<1>1. recover[r].at \in {"owner", "recovering", "publishing"} /\ handed.at # None
      /\ (witnessed => handed.acked = HandoffRecord) /\ UNCHANGED <<handed, witnessed>>
  BY DEF Reserved, Recovered, Published, AfterWitness, TakeoverSound, RecoverOnly
<1>2. CASE RecoverAt(r, "failed")
  BY <1>1, <1>2, TakeoverMoves DEF RecoverAts, Granted
<1>3. CASE ~RecoverAt(r, "failed")
  <2>1. /\ recover'[r].at \in Granted
        /\ \E stage \in Stages, of \in Recoverers \cup Observations :
             recover'[r].acked = RecordOf(r, stage, of)
    <3>1. fence[r].obs \in Observations
      BY DEF FenceTyped, Fencing, Sane
    <3>2. ASSUME NEW from, NEW to, NEW stage, NEW of, AfterWitness(r, from, to, stage, of)
          PROVE  recover'[r].at = to /\ recover'[r].acked = RecordOf(r, stage, of)
      BY <1>3, <3>2 DEF AfterWitness, RecordOf, FenceTyped
    <3>3. Reserved(r) => recover'[r].at = "reserved" /\ recover'[r].acked = RecordOf(r, "owner", r)
      BY <3>2 DEF Reserved
    <3>4. Recovered(r) => /\ recover'[r].at = "recovered"
                          /\ recover'[r].acked = RecordOf(r, "recovered", fence[r].obs)
      BY <3>2 DEF Recovered
    <3>5. Published(r) => recover'[r].at = "published" /\ recover'[r].acked = RecordOf(r, "published", r)
      BY <3>2 DEF Published
    <3> QED  BY <3>1, <3>3, <3>4, <3>5 DEF Granted, Stages
  <2>2. recover'[r].acked # NoWitness
    <3>1. handed.acked \in Record /\ recover[r].acked \in Record
      BY <1>1 DEF GenInv, GenTyped, FenceTyped
    <3>2. PICK rec \in Record, stage \in Stages, of \in Recoverers \cup Observations :
            recover'[r].acked = Pinned(rec, stage, of)
      BY <2>1, <3>1 DEF RecordOf
    <3>3. Rank(rec) \in Nat /\ Rank(Pinned(rec, stage, of)) = Rank(rec) + 1
      BY Recording DEF Record, Rank
    <3>4. Rank(NoWitness) = 0
      BY DEF Rank, NoWitness
    <3>5. Rank(Pinned(rec, stage, of)) # Rank(NoWitness)
      BY <3>3, <3>4
    <3> QED  BY <3>2, <3>5
  <2>3. Claimed(r)
    <3>1. CASE recover[r].at # "owner"
      BY <1>1, <3>1 DEF TakeoverSound, Granted
    <3>2. CASE recover[r].at = "owner" /\ ~witnessed
      BY <3>2 DEF TakeoverSound, Claimed
    <3>3. CASE recover[r].at = "owner" /\ witnessed
      <4>1. writes[r].at = "ok"
        BY <1>3, <3>3 DEF Reserved, Recovered, Published, AfterWitness, Written, Unwritten
      <4>2. writes[r].is = Pinned(HandoffRecord, "owner", r)
        BY <1>1, <3>3, <4>1 DEF TakeoverSound, Live
      <4>3. OwnerPinned(writes[r].is, r)
        BY <1>1, <4>2, OwnerIsFourth
      <4>4. OwnerPinned(witness, r)
        BY <4>1, <4>3 DEF WitnessInv, WriteSound, Sane
      <4> QED  BY <3>3, <4>4 DEF Claimed
    <3> QED  BY <3>1, <3>2, <3>3
  <2>4. Claimed(r)'
    BY <1>1, <2>3, ClaimStays
  <2>5. HandoffRecord' = HandoffRecord
    BY <1>1 DEF HandoffRecord
  <2> QED  BY <1>1, <2>1, <2>2, <2>4, <2>5 DEF TakeoverSound, Granted
<1> QED  BY <1>2, <1>3

LEMMA TakeoversKeep ==
  ASSUME Sane, GenInv, FenceInv, WitnessInv, AckedInv, RowsInv, TakeoverInv, [Next]_vars
  PROVE  TakeoverInv'
<1>1. Kept /\ Forward /\ OwnerRowStays /\ FenceTyped
  BY Steps, WitnessKeeps, RowsKeep DEF FenceInv
<1>2. ASSUME NEW r \in Recoverers
      PROVE  TakeoverSound(r)'
  <2>0. TakeoverSound(r)
    BY DEF TakeoverInv
  <2>1. CASE Own(r)
    BY <1>1, <2>0, <2>1, OwnTakes
  <2>2. CASE Reserved(r) \/ Recovered(r) \/ Published(r)
    BY <1>1, <2>0, <2>2, EndTakes
  <2>3. CASE Reserve(r)
    <3>1. /\ handed.at # None /\ (witnessed => handed.acked = HandoffRecord)
          /\ \E at \in {"own", "failed"} : RecoverAt(r, at)
      BY <2>3 DEF Reserve, NewRecoveryOwner
    <3> QED  BY <1>1, <2>0, <3>1, TakeoverMoves DEF RecoverAts, Granted
  <2>4. CASE VerifyWitness(r) \/ Recover(r) \/ Publish(r) \/ ReadPublication(r)
    <3>1. recover[r].at \in Granted
      BY <2>4 DEF VerifyWitness, Recover, Publish, ReadPublication, Granted
    <3>2. \E at \in {"fencing", "recovering", "read back", "publishing", "failed"} : RecoverAt(r, at)
      BY <2>4 DEF VerifyWitness, Recover, Publish, ReadPublication
    <3>3. handed.at # None /\ (witnessed => handed.acked = HandoffRecord)
      BY <2>0, <3>1 DEF TakeoverSound, Granted
    <3> QED  BY <1>1, <2>0, <3>1, <3>2, <3>3, TakeoverMoves DEF RecoverAts
  <2>5. CASE ~Acts(r)
    <3>1. WritesOn(r) /\ recover'[r] = recover[r]
      BY <2>5, WitnessKeeps, RecoverersMove
    <3> QED  BY <1>1, <2>0, <3>1, TakeoverRests
  <2> QED  BY <2>1, <2>2, <2>3, <2>4, <2>5 DEF Acts
<1> QED  BY <1>2 DEF TakeoverInv

-----------------------------------------------------------------------------
IInv == GenInv /\ FenceInv /\ WitnessInv /\ AckedInv /\ RowsInv /\ TakeoverInv

LEMMA InitiallyTrue ==
  ASSUME Sane, Init
  PROVE  IInv
<1>1. NoWitness \in TrueRecords /\ Registration({}) \in TrueRecords
  BY TrueRegistration DEF NoWitness, Record, TrueRecords, Rank
<1>2. WitnessInv
  BY <1>1 DEF Init, WitnessInv, Write, WriteSound, NotWriting
<1>3. AckedInv
  BY <1>1 DEF Init, AckedInv
<1>4. RowsInv
  BY DEF Init, RowsInv, NoRows, Rows, Row, Open, Admission
<1>5. TakeoverInv
  BY DEF Init, TakeoverInv, TakeoverSound, Granted
<1> QED  BY <1>2, <1>3, <1>4, <1>5, Initially DEF IInv

LEMMA Inductive ==
  ASSUME Sane, IInv, [Next]_vars
  PROVE  IInv'
<1>1. GenInv' /\ FenceInv'
  BY Steps DEF IInv, Kept
<1>2. WitnessInv' /\ AckedInv' /\ RowsInv' /\ TakeoverInv'
  BY WitnessKeeps, AckedKeeps, RowsKeep, TakeoversKeep DEF IInv
<1> QED  BY <1>1, <1>2 DEF IInv

\* A publication that verifies is in the record, whose recoveries are final.
LEMMA VerifiedIsFinal ==
  ASSUME Sane, IInv, NEW proof \in rows.proof, PublicationVerified(proof)
  PROVE  committed = AllocatedIn(proof.obs)
<1>1. proof \in Proven /\ handed.at # None
  BY DEF IInv, RowsInv, Rows
<1>2. proof.owner \in Recoverers /\ proof.obs \in Observations
  BY <1>1 DEF Proven
<1> DEFINE a == handed.acked
           b == Pinned(a, "owner", proof.owner)
           c == Pinned(b, "recovered", proof.obs)
           d == Pinned(c, "published", proof.owner)
<1>3. a \in Record
  BY <1>1 DEF IInv, GenInv, GenTyped
<1>4. witness = d
  <2>1. Compare(d) = "verified"
    BY DEF PublicationVerified
  <2> HIDE DEF d
  <2>2. Classify(witness, d) = "verified"
    BY <2>1 DEF Compare
  <2> QED  BY <2>2 DEF Classify
<1> HIDE DEF a
<1>5. b \in Record /\ Rank(b) = Rank(a) + 1
  BY <1>2, <1>3, Recording DEF Stages
<1> HIDE DEF b
<1>6. c \in Record /\ Rank(c) = Rank(b) + 1 /\ c.pins = Append(b.pins, StagePin("recovered", proof.obs))
  BY <1>2, <1>5, Recording DEF Stages
<1> HIDE DEF c
<1>7. d \in Record /\ Rank(d) = Rank(c) + 1 /\ d.pins = Append(c.pins, StagePin("published", proof.owner))
  BY <1>2, <1>6, Recording DEF Stages
<1> HIDE DEF d
<1>8. /\ b.pins \in Seq(Pin) /\ Rank(b) = Len(b.pins) /\ c.pins \in Seq(Pin) /\ Rank(c) = Len(c.pins)
      /\ d.pins \in Seq(Pin) /\ Rank(d) = Len(d.pins)
  BY <1>5, <1>6, <1>7 DEF Record, Rank
<1>9. c.pins[Rank(b) + 1] = StagePin("recovered", proof.obs) /\ Rank(b) + 1 \in 1..Len(c.pins)
  BY <1>6, <1>8
<1>10. d.pins[Rank(b) + 1] = c.pins[Rank(b) + 1] /\ Rank(b) + 1 \in 1..Rank(d)
  BY <1>6, <1>7, <1>8, <1>9
<1>11. witness.pins[Rank(b) + 1] = StagePin("recovered", proof.obs) /\ Rank(b) + 1 \in 1..Rank(witness)
  BY <1>4, <1>9, <1>10
<1>12. witness \in TrueRecords
  BY DEF IInv, WitnessInv
<1>13. proof.obs \in {o \in Observations : Final(o)}
  BY <1>11, <1>12 DEF TrueRecords, StagePin
<1> QED  BY <1>13, FinalIsCommitted DEF IInv

LEMMA OneClaims ==
  ASSUME Sane, IInv, witnessed \/ restores = 0, NEW q \in Recoverers, NEW r \in Recoverers,
         recover[q].acked # NoWitness, recover[r].acked # NoWitness
  PROVE  q = r
<1>1. Claimed(q) /\ Claimed(r) /\ recover[r].at # "idle"
  BY DEF IInv, TakeoverInv, TakeoverSound
<1>2. CASE witnessed
  BY <1>1, <1>2 DEF Claimed, OwnerPinned, StagePin
<1>3. CASE ~witnessed
  <2>1. rows.owner = OwnerOf(q, handed.head) /\ rows.owner = OwnerOf(r, handed.head)
    BY <1>1, <1>3 DEF Claimed, OwnsRow
  <2>2. handed.at # None
    BY <1>1 DEF IInv, TakeoverInv, TakeoverSound
  <2>3. handed.head.phase = "draining"
    BY <2>2 DEF IInv, GenInv, PhaseInv
  <2>4. [owner |-> q, handoff |-> handed.head] \in OwnerOf(r, handed.head)
    BY <2>1, <2>3 DEF OwnerOf, HandoffOf
  <2> QED  BY <2>4 DEF OwnerOf
<1> QED  BY <1>2, <1>3

LEMMA Invariantly == Sane => (Spec => []IInv)
<1> SUFFICES ASSUME Sane PROVE Spec => []IInv
  OBVIOUS
<1>1. Init => IInv
  BY InitiallyTrue
<1>2. IInv /\ [Next]_vars => IInv'
  BY Inductive
<1> QED  BY <1>1, <1>2, PTL DEF Spec

\* Whatever write was still under way when the generation closed, however often its
\* servers changed and its rows were restored: a receipt, a recovery and a publication
\* that verifies tell for good which servers its grants have allocated.
THEOREM ReportsAreFinal == Sane => (Spec => []ReportedIsFinal)
<1> SUFFICES ASSUME Sane PROVE Spec => []ReportedIsFinal
  OBVIOUS
<1>1. IInv => ReportedIsFinal
  <2>1. ASSUME IInv, NEW f \in Holders
        PROVE  committed = AllocatedIn(fence[f].obs)
    BY <2>1, FinalIsCommitted DEF IInv, Holders, FenceInv, FenceTyped, Fencing, FenceSound
  <2>2. ASSUME IInv, NEW proof \in rows.proof, PublicationVerified(proof)
        PROVE  committed = AllocatedIn(proof.obs)
    BY <2>2, VerifiedIsFinal
  <2> QED  BY <2>1, <2>2 DEF ReportedIsFinal
<1> QED  BY <1>1, Invariantly, PTL

\* With a witness, or as long as storage is never restored, one process at most holds
\* the record by which it takes the closed generation over.
THEOREM RecoveredOnce == Sane => (Spec => []OneRecovery)
<1> SUFFICES ASSUME Sane PROVE Spec => []OneRecovery
  OBVIOUS
<1>1. IInv => OneRecovery
  <2> SUFFICES ASSUME IInv, witnessed \/ restores = 0
               PROVE  Cardinality({r \in Recoverers : recover[r].acked # NoWitness}) <= 1
    BY DEF OneRecovery
  <2> DEFINE S == {r \in Recoverers : recover[r].acked # NoWitness}
  <2>1. CASE S = {}
    <3>1. Cardinality(S) = 0
      BY <2>1, FS_EmptySet
    <3> QED  BY <3>1
  <2>2. CASE S # {}
    <3>1. PICK q \in S : TRUE
      BY <2>2
    <3>2. S = {q}
      BY <3>1, OneClaims
    <3>3. Cardinality(S) = 1
      BY <3>2, FS_Singleton
    <3> QED  BY <3>3
  <2> QED  BY <2>1, <2>2
<1> QED  BY <1>1, Invariantly, PTL

-----------------------------------------------------------------------------
\* The fence reference. A generation is draining to it once every registered grant is
\* barred, and fenced once a fence has been accepted; neither ends.
AllBarred == drained /\ \A s \in registered : server[s].barrier # None
AState == IF Holders # {} THEN "fenced"
          ELSE IF drained /\ \A s \in registered : server[s].barrier # None THEN "draining" ELSE "open"
Past   == IF Holders # {} THEN 2
          ELSE IF drained /\ \A s \in registered : server[s].barrier # None THEN 1 ELSE 0

\* Nobody fences before the row is drained for it, or its reservation is verified.
IdleInv ==
  /\ gen.pc \in {"open", "drain to fence", "drain to hand off"} => fence[Owner].at = "idle"
  /\ \A r \in Recoverers : recover[r].at \in {"idle", "own", "owner", "reserved"} => fence[r].at = "idle"

LEMMA BarredStays ==
  ASSUME Sane, GenInv, Kept, AllBarred
  PROVE  AllBarred'
<1>1. registered = gen.issued /\ Settled /\ drained'
  BY DEF AllBarred, GenInv, RegisteredInv, PhaseInv, Kept, Later
<1>2. registered' = gen'.issued /\ gen'.issued = gen.issued /\ registered \subseteq Servers
  BY <1>1 DEF Kept, Later, GenInv, RegisteredInv, GenTyped
<1> QED  BY <1>1, <1>2 DEF AllBarred, Kept, Later

LEMMA HoldersBar ==
  ASSUME Sane, GenInv, NEW obs \in Observations, Final(obs)
  PROVE  AllBarred
BY DEF GenInv, RegisteredInv, Final, Judged, AllBarred

LEMMA HeldIsBarred ==
  ASSUME Sane, GenInv, FenceInv, Holders # {}
  PROVE  AllBarred
<1>1. PICK f \in Writers : fence[f].at = "accepted"
  BY DEF Holders
<1>2. Final(fence[f].obs) /\ fence[f].obs \in Observations
  BY <1>1 DEF FenceInv, FenceSound, FenceTyped, Fencing
<1> QED  BY <1>2, HoldersBar

\* Admission ends before the barriers, and a grant is registered once.
LEMMA RegistersOnce ==
  ASSUME Sane, GenInv, FenceInv, NEW s \in Servers, Register(s)
  PROVE  /\ UNCHANGED <<committed, drained, fence, server>>
         /\ \/ UNCHANGED registered
            \/ /\ registered' = registered \cup {s} /\ s \notin registered
               /\ Cardinality(registered) < MaxGrants /\ ~drained /\ Holders = {}
<1>1. grants[s].at = "register" /\ UNCHANGED <<committed, drained, fence, server>>
  BY DEF Register
<1>2. ~drained
  BY <1>1 DEF GenInv, PhaseInv, Settled
<1>3. Holders = {}
  BY <1>2, HeldIsBarred DEF AllBarred
<1>4. CASE registered' = registered \cup {s} /\ ~gen.uncertain
  <2>1. gen.gate = s
    BY <1>1 DEF GenInv, GrantInv
  <2>2. \A k \in Servers : grants[k].at # "witness"
    BY <1>1, <2>1 DEF GenInv, GrantInv
  <2>3. registered = gen.issued
    BY <1>4, <2>2 DEF GenInv, GenTyped, RegisteredInv
  <2>4. s \notin gen.issued /\ Cardinality(gen.issued) < MaxGrants
    BY <1>1 DEF GenInv, GrantInv, RegisteredInv
  <2> QED  BY <1>1, <1>2, <1>3, <1>4, <2>3, <2>4
<1>5. UNCHANGED registered \/ (registered' = registered \cup {s} /\ ~gen.uncertain)
  BY DEF Register
<1> QED  BY <1>1, <1>4, <1>5

\* No write lands once every registered grant is barred.
LEMMA LandsBefore ==
  ASSUME Sane, GenInv, FenceInv, NEW s \in Servers, Land(s)
  PROVE  /\ UNCHANGED <<registered, drained, fence>> /\ \A k \in Servers : server'[k].barrier = server[k].barrier
         /\ \/ UNCHANGED committed
            \/ /\ committed' = committed \cup {s} /\ s \notin committed /\ s \in registered
               /\ ~AllBarred /\ Holders = {}
<1>1. UNCHANGED <<registered, drained, fence>> /\ grants[s].at = "submitted"
  BY DEF Land
<1>2. s \in gen.issued /\ s \in registered
  BY <1>1 DEF GenInv, GrantInv, RegisteredInv
<1>3. CASE UNCHANGED <<server, committed>>
  BY <1>1, <1>3
<1>4. CASE ~UNCHANGED <<server, committed>>
  <2>1. /\ grants[s].frozen = server[s].version /\ committed' = committed \cup {s}
        /\ server' = [server EXCEPT ![s].version = @ + 1, ![s].state = "allocated"]
    BY <1>4 DEF Land, Unchanged
  <2>2. ~(grants[s].frozen < server[s].version)
    BY <2>1, Versions
  <2>3. s \notin committed /\ server[s].barrier = None
    BY <2>2 DEF GenInv, GrantInv
  <2>4. ~AllBarred
    BY <1>2, <2>3 DEF AllBarred
  <2>5. Holders = {}
    BY <2>4, HeldIsBarred
  <2>6. \A k \in Servers : server'[k].barrier = server[k].barrier
    BY <2>1 DEF GenInv, GenTyped, Server
  <2> QED  BY <1>1, <1>2, <2>1, <2>3, <2>4, <2>5, <2>6
<1> QED  BY <1>3, <1>4

\* What has been accepted stays so, and nothing is accepted before all is barred.
HoldersGrow == Holders \subseteq Holders' /\ (Holders' # Holders => AllBarred)

LEMMA FencesMoveOn ==
  ASSUME FenceTyped, NEW f \in Writers, fence[f].at # "accepted",
         \A k \in Writers : k # f => fence'[k] = fence[k], fence'[f].at = "accepted" => AllBarred
  PROVE  HoldersGrow
BY DEF HoldersGrow, Holders

LEMMA NothingAccepted ==
  ASSUME Sane, GenInv, FenceInv, IdleInv, NEW f \in Writers,
         FenceRead(f) \/ FenceBar(f) \/ FenceReadBack(f)
  PROVE  HoldersGrow /\ IdleInv'
<1>1. fence[f].at \in {"next", "bar", "read back"} /\ UNCHANGED <<gen, recover>>
  BY DEF FenceRead, FenceBar, FenceReadBack, FenceOnly
<1>2. (\A k \in Writers : k # f => fence'[k] = fence[k]) /\ fence'[f].at # "accepted"
  BY DEF FenceRead, FenceBar, FenceReadBack, FenceAt, FenceInv, FenceTyped, Fencing
<1>3. HoldersGrow
  BY <1>1, <1>2, FencesMoveOn DEF FenceInv
<1>4. IdleInv'
  BY <1>1, <1>2 DEF IdleInv, Sane
<1> QED  BY <1>3, <1>4

LEMMA PhasesPass ==
  ASSUME Sane, GenInv, AckedInv, IdleInv, UNCHANGED <<fence, recover>>,
         \/ \E s \in Servers : \/ Prepare(s) \/ TakeGate(s) \/ Register(s) \/ Issue(s)
                               \/ Commit(s) \/ Land(s) \/ Lose(s) \/ Touch(s)
         \/ Fence \/ CloseForRecovery \/ Drain \/ PublishHandoff \/ HandOff
  PROVE  IdleInv'
<1>b. gen \in Gen
  BY DEF GenInv, GenTyped
<1>1. ASSUME NEW s \in Servers, TakeGate(s) \/ Register(s)
      PROVE  gen'.pc = gen.pc
  <2>1. gen' = gen \/ gen' = Broken(gen) \/ gen' = [gen EXCEPT !.gate = s]
    BY <1>1 DEF TakeGate, Register
  <2> QED  BY <1>b, <2>1, Breaking DEF Gen
<1>2. CASE Fence \/ CloseForRecovery
  <2>1. ~gen.closed /\ gen.pc = "open"
    BY <1>2 DEF Fence, CloseForRecovery, Close, GenInv, PhaseInv
  <2> QED  BY <2>1 DEF IdleInv
<1>3. CASE Drain
  <2> DEFINE c == [gen EXCEPT !.gate = Owner]
  <2>1. \/ gen' = [Broken(gen) EXCEPT !.pc = "failed"]
        \/ gen' = [c EXCEPT !.head = Draining(gen.head.grants)]
    BY <1>3 DEF Drain
  <2>2. c \in Gen /\ c.pc = gen.pc
    BY <1>b, GenEdits DEF Gen
  <2> HIDE DEF c
  <2>3. gen'.pc \in {gen.pc, "failed"}
    BY <1>b, <2>1, <2>2, Failing DEF Gen
  <2> QED  BY <2>3 DEF IdleInv
<1>4. CASE PublishHandoff
  <2>1. \/ gen' = [Broken(gen) EXCEPT !.pc = "failed"]
        \/ gen' = [gen EXCEPT !.pc = "handed"]
    BY <1>4 DEF PublishHandoff
  <2>2. gen'.pc \in {"handed", "failed"}
    BY <1>b, <2>1, Failing DEF Gen
  <2> QED  BY <2>2 DEF IdleInv
<1>5. CASE HandOff
  <2> DEFINE c == Release(gen)
  <2>1. gen' = [Broken(gen) EXCEPT !.pc = "failed"] \/ gen' = [c EXCEPT !.pc = "closed"]
    BY <1>5 DEF HandOff
  <2>2. c \in Gen
    BY <1>b, GenEdits DEF Release, Gen
  <2> HIDE DEF c
  <2>3. gen'.pc \in {"closed", "failed"}
    BY <1>b, <2>1, <2>2, Failing DEF Gen
  <2> QED  BY <2>3 DEF IdleInv
<1>6. ASSUME NEW s \in Servers, Prepare(s) \/ Commit(s) \/ Land(s) \/ Lose(s) \/ Touch(s)
      PROVE  gen'.pc = gen.pc
  BY <1>6 DEF Prepare, Commit, Land, Lose, Touch
<1>7. gen'.pc = gen.pc => IdleInv'
  BY DEF IdleInv
<1> QED  BY <1>1, <1>2, <1>3, <1>4, <1>5, <1>6, <1>7, IssueAcks

\* The owner accepts what it has fenced; its fence begins when its row is drained.
LEMMA OwnerAccepts ==
  ASSUME Sane, GenInv, FenceInv, IdleInv, FenceAccept \/ Drained
  PROVE  HoldersGrow /\ IdleInv'
<1>0. Owner \in Writers /\ Owner \notin Recoverers
  BY DEF Sane
<1>1. CASE FenceAccept
  <2>1. fence[Owner].at = "next" /\ UNCHANGED <<gen, recover>>
    BY <1>1 DEF FenceAccept, FenceComplete, FenceOnly
  <2>2. AllBarred
    BY <1>0, <1>1, CompleteIsFinal, HoldersBar DEF FenceAccept, FenceInv, FenceTyped, Fencing
  <2>3. \A k \in Writers : k # Owner => fence'[k] = fence[k]
    BY <1>0, <1>1, FenceAtMoves DEF FenceAccept, FenceAts, FenceInv
  <2>4. IdleInv'
    BY <1>0, <2>1, <2>3 DEF IdleInv, Sane
  <2> QED  BY <1>0, <2>1, <2>2, <2>3, <2>4, FencesMoveOn DEF FenceInv
<1>2. CASE Drained
  <2>1. fence[Owner].at = "idle" /\ UNCHANGED recover
    BY <1>2 DEF Drained, IdleInv
  <2>2. UNCHANGED fence \/ FenceAt(Owner, "next")
    BY <1>2 DEF Drained, FenceAt
  <2>3. (\A k \in Writers : k # Owner => fence'[k] = fence[k]) /\ fence'[Owner].at # "accepted"
    BY <1>0, <2>1, <2>2, FenceAtMoves DEF FenceAts, FenceInv
  <2>4. gen'.pc \in {"fence", "hand off", "failed"}
    <3>1. gen \in Gen
      BY DEF GenInv, GenTyped
    <3>2. CASE gen' = [Broken(gen) EXCEPT !.pc = "failed"]
      BY <3>1, <3>2, Failing
    <3>3. CASE gen' # [Broken(gen) EXCEPT !.pc = "failed"]
      <4> DEFINE rec   == Pinned(gen.acked, "drained", gen.head.grants)
                 acked == [gen EXCEPT !.acked = rec]
      <4>1. \/ gen' = [Release(acked) EXCEPT !.pc = "fence"]
            \/ gen' = [acked EXCEPT !.pc = "hand off"]
        BY <1>2, <3>3 DEF Drained
      <4>2. rec \in Record
        BY Recording DEF Stages, GenInv, GenTyped, Gen, Row
      <4> HIDE DEF rec
      <4>3. acked \in Gen
        BY <3>1, <4>2, GenEdits
      <4> HIDE DEF acked
      <4>4. Release(acked) \in Gen
        BY <4>3, GenEdits DEF Release
      <4> QED  BY <4>1, <4>3, <4>4 DEF Gen
    <3> QED  BY <3>2, <3>3
  <2>5. HoldersGrow
    BY <1>0, <2>1, <2>3, FencesMoveOn DEF FenceInv
  <2>6. IdleInv'
    BY <1>0, <2>1, <2>3, <2>4 DEF IdleInv, Sane
  <2> QED  BY <2>5, <2>6
<1> QED  BY <1>1, <1>2

\* A recoverer's fence is accepted with its recovery, which all barriers precede.
LEMMA RecovererAccepts ==
  ASSUME Sane, GenInv, FenceInv, IdleInv, NEW r \in Recoverers, Acts(r)
  PROVE  HoldersGrow /\ IdleInv'
<1>0. r \in Writers /\ r # Owner /\ Recoverers \subseteq Writers
  BY DEF Sane
<1>1. \A k \in Recoverers : k # r => recover'[k] = recover[k]
  BY RecoverSteps DEF Acts, FenceInv
<1>2. UNCHANGED gen
  BY DEF Acts, Reserve, Own, Reserved, VerifyWitness, Recover, Recovered, Publish, ReadPublication,
         Published, AfterWitness, RecoverOnly
<1>3. CASE UNCHANGED fence
  <2>1. HoldersGrow
    BY <1>3 DEF HoldersGrow, Holders
  <2>2. recover'[r].at \in {"idle", "own", "owner", "reserved"} =>
          recover[r].at \in {"idle", "own", "owner", "reserved"}
    <3>1. CASE Reserve(r) \/ Own(r)
      BY <3>1 DEF Reserve, Own
    <3>2. CASE Reserved(r)
      BY <3>2 DEF Reserved, AfterWitness
    <3>3. CASE VerifyWitness(r) \/ Recover(r) \/ Publish(r) \/ ReadPublication(r)
      <4>1. \E at \in {"fencing", "recovering", "read back", "publishing", "failed"} : RecoverAt(r, at)
        BY <3>3 DEF VerifyWitness, Recover, Publish, ReadPublication
      <4> QED  BY <4>1, RecoverAtMoves DEF FenceInv, RecoverAts
    <3>4. CASE Recovered(r) \/ Published(r)
      <4>1. \/ recover' = [recover EXCEPT ![r].at = "failed"]
            \/ \E acked : recover' = [recover EXCEPT ![r] = [at |-> "recovered", acked |-> acked]]
            \/ \E acked : recover' = [recover EXCEPT ![r] = [at |-> "published", acked |-> acked]]
        BY <3>4 DEF Recovered, Published, AfterWitness, RecoverAt
      <4> QED  BY <4>1 DEF FenceInv, FenceTyped
    <3> QED  BY <3>1, <3>2, <3>3, <3>4 DEF Acts
  <2>3. IdleInv'
    BY <1>0, <1>1, <1>2, <1>3, <2>2 DEF IdleInv
  <2> QED  BY <2>1, <2>3
<1>4. CASE ~UNCHANGED fence
  <2>1. \/ VerifyWitness(r) /\ FenceAt(r, "next") /\ RecoverAt(r, "fencing")
        \/ /\ Recovered(r) /\ FenceAt(r, "accepted")
           /\ \E acked : recover' = [recover EXCEPT ![r] = [at |-> "recovered", acked |-> acked]]
    BY <1>4 DEF Acts, Reserve, Own, Reserved, VerifyWitness, Recover, Recovered, Publish, ReadPublication,
                Published, AfterWitness
  <2>2. recover'[r].at \in {"fencing", "recovered"}
    <3>1. RecoverAt(r, "fencing") => recover'[r].at = "fencing"
      BY RecoverAtMoves DEF FenceInv, RecoverAts
    <3>2. (\E acked : recover' = [recover EXCEPT ![r] = [at |-> "recovered", acked |-> acked]])
            => recover'[r].at = "recovered"
      BY DEF FenceInv, FenceTyped
    <3> QED  BY <2>1, <3>1, <3>2
  <2>3. \A k \in Writers : k # r => fence'[k] = fence[k]
    BY <1>0, <2>1, FenceAtMoves DEF FenceAts, FenceInv
  <2>4. IdleInv'
    BY <1>0, <1>1, <1>2, <2>2, <2>3 DEF IdleInv, Sane
  <2>5. fence'[r].at = "accepted" => AllBarred
    <3>1. CASE VerifyWitness(r) /\ FenceAt(r, "next")
      BY <1>0, <3>1, FenceAtMoves DEF FenceAts, FenceInv
    <3>2. CASE Recovered(r)
      <4>1. Final(fence[r].obs) /\ fence[r].obs \in Observations
        BY <1>0, <3>2 DEF Recovered, AfterWitness, FenceInv, RecoverSound, FenceTyped, Fencing
      <4> QED  BY <4>1, HoldersBar
    <3> QED  BY <2>1, <3>1, <3>2
  <2>6. CASE fence[r].at # "accepted"
    BY <1>0, <2>3, <2>4, <2>5, <2>6, FencesMoveOn DEF FenceInv
  <2>7. CASE fence[r].at = "accepted"
    <3>1. AllBarred
      BY <1>0, <2>7, HeldIsBarred DEF Holders
    <3>2. recover[r].at # "reserved"
      BY <2>7 DEF IdleInv
    <3>3. FenceAt(r, "accepted")
      BY <2>1, <3>2 DEF VerifyWitness
    <3>4. fence'[r].at = "accepted"
      BY <1>0, <3>3, FenceAtMoves DEF FenceAts, FenceInv
    <3> QED  BY <2>3, <2>4, <3>1, <3>4 DEF HoldersGrow, Holders
  <2> QED  BY <2>6, <2>7
<1> QED  BY <1>3, <1>4

\* What a step does to the ledger: it registers a grant, it lands one, or it moves on
\* to the barriers.
Registers == \E s \in Servers :
  /\ registered' = registered \cup {s} /\ s \notin registered /\ Cardinality(registered) < MaxGrants
  /\ UNCHANGED committed /\ ~AllBarred /\ ~AllBarred' /\ Holders = {} /\ Holders' = {}
Lands == \E s \in registered :
  /\ committed' = committed \cup {s} /\ s \notin committed
  /\ UNCHANGED registered /\ ~AllBarred /\ ~AllBarred' /\ Holders = {} /\ Holders' = {}
MovesOn == UNCHANGED <<registered, committed>> /\ HoldersGrow

LEMMA LedgerSteps ==
  ASSUME Sane, GenInv, FenceInv, AckedInv, IdleInv, [Next]_vars
  PROVE  IdleInv' /\ (Registers \/ Lands \/ MovesOn)
<1>0. UNCHANGED fence => HoldersGrow
  BY DEF HoldersGrow, Holders
<1>1. CASE \/ \E s \in Servers : \/ Prepare(s) \/ TakeGate(s) \/ Register(s) \/ Issue(s)
                                 \/ Commit(s) \/ Land(s) \/ Lose(s) \/ Touch(s)
           \/ Fence \/ CloseForRecovery \/ Drain \/ PublishHandoff \/ HandOff
  <2>1. UNCHANGED <<fence, recover>>
    BY <1>1, GenerationSteps
  <2>2. IdleInv'
    BY <1>1, <2>1, PhasesPass
  <2>3. ASSUME NEW s \in Servers, Register(s)
        PROVE  Registers \/ MovesOn
    <3>1. CASE UNCHANGED registered
      BY <1>0, <2>1, <2>3, <3>1, RegistersOnce DEF MovesOn
    <3>2. CASE ~UNCHANGED registered
      <4>1. /\ registered' = registered \cup {s} /\ s \notin registered
            /\ Cardinality(registered) < MaxGrants /\ ~drained /\ Holders = {}
            /\ UNCHANGED <<committed, drained, fence>>
        BY <2>3, <3>2, RegistersOnce
      <4>2. Holders' = {}
        BY <4>1 DEF Holders
      <4> QED  BY <4>1, <4>2 DEF Registers, AllBarred
    <3> QED  BY <3>1, <3>2
  <2>4. ASSUME NEW s \in Servers, Land(s)
        PROVE  Lands \/ MovesOn
    <3>1. CASE UNCHANGED committed
      BY <1>0, <2>1, <2>4, <3>1, LandsBefore DEF MovesOn
    <3>2. CASE ~UNCHANGED committed
      <4>1. /\ committed' = committed \cup {s} /\ s \notin committed /\ s \in registered
            /\ ~AllBarred /\ Holders = {} /\ UNCHANGED <<registered, drained, fence>>
            /\ \A k \in Servers : server'[k].barrier = server[k].barrier
        BY <2>4, <3>2, LandsBefore
      <4>2. Holders' = {}
        BY <4>1 DEF Holders
      <4>3. ~AllBarred'
        BY <4>1 DEF AllBarred, GenInv, GenTyped
      <4> QED  BY <4>1, <4>2, <4>3 DEF Lands
    <3> QED  BY <3>1, <3>2
  <2>5. ASSUME NEW s \in Servers, \/ Prepare(s) \/ TakeGate(s) \/ Issue(s) \/ Commit(s) \/ Lose(s) \/ Touch(s)
        PROVE  MovesOn
    BY <1>0, <2>1, <2>5 DEF Prepare, TakeGate, Issue, Commit, Lose, Touch, MovesOn
  <2>6. Fence \/ CloseForRecovery \/ Drain \/ PublishHandoff \/ HandOff => MovesOn
    BY <1>0, <2>1 DEF Fence, CloseForRecovery, Close, Drain, PublishHandoff, HandOff, MovesOn
  <2> QED  BY <1>1, <2>2, <2>3, <2>4, <2>5, <2>6, Zenon
<1>2. CASE Drained \/ FenceAccept
  <2>1. UNCHANGED <<registered, committed>>
    BY <1>2 DEF Drained, FenceAccept, FenceOnly
  <2> QED  BY <1>2, <2>1, OwnerAccepts DEF MovesOn
<1>3. ASSUME NEW f \in Writers, FenceRead(f) \/ FenceBar(f) \/ FenceReadBack(f)
      PROVE  IdleInv' /\ MovesOn
  <2>1. UNCHANGED <<registered, committed>>
    BY <1>3 DEF FenceRead, FenceBar, FenceReadBack, FenceOnly
  <2> QED  BY <1>3, <2>1, NothingAccepted DEF MovesOn
<1>4. ASSUME NEW r \in Recoverers, Acts(r)
      PROVE  IdleInv' /\ MovesOn
  <2>1. UNCHANGED <<registered, committed>>
    BY <1>4 DEF Acts, Reserve, Own, Reserved, VerifyWitness, Recover, Recovered, Publish, ReadPublication,
                Published, AfterWitness, RecoverOnly
  <2> QED  BY <1>4, <2>1, RecovererAccepts DEF MovesOn
<1>5. CASE (WitnessStep /\ UNCHANGED genVars) \/ Restore \/ BackUp \/ UNCHANGED vars
  <2>1. UNCHANGED <<fence, recover, gen, registered, committed>>
    BY <1>5 DEF genVars, vars, Restore, BackUp
  <2> QED  BY <1>0, <2>1 DEF IdleInv, MovesOn
<1>6. CASE \E r \in Recoverers :
             \/ Reserve(r) \/ Own(r) \/ Reserved(r) \/ VerifyWitness(r) \/ Recover(r)
             \/ Recovered(r) \/ Publish(r) \/ ReadPublication(r) \/ Published(r)
  BY <1>4, <1>6, Zenon DEF Acts
<1>7. CASE \E f \in Writers : FenceRead(f) \/ FenceBar(f) \/ FenceReadBack(f)
  BY <1>3, <1>7
<1> QED  BY <1>1, <1>2, <1>5, <1>6, <1>7 DEF Next

\* The ledger's sets are finite.
LEMMA Counted ==
  ASSUME GenInv
  PROVE  /\ IsFiniteSet(registered) /\ IsFiniteSet(committed)
         /\ Cardinality(registered) \in Nat /\ Cardinality(committed) \in Nat
<1>1. IsFiniteSet(registered) /\ committed \subseteq registered
  BY DEF GenInv, GenTyped, GrantInv, RegisteredInv
<1> QED  BY <1>1, FS_Subset, FS_CardinalityType

Allocated == {[attempt |-> s, resource |-> s] : s \in committed}
Revision  == 1 + Cardinality(registered) + Cardinality(committed) + Past

LEMMA StateOf ==
  ASSUME Sane, GenInv, FenceInv
  PROVE  /\ Holders # {} => AState = "fenced" /\ Past = 2
         /\ Holders = {} /\ AllBarred => AState = "draining" /\ Past = 1
         /\ Holders = {} /\ ~AllBarred => AState = "open" /\ Past = 0
         /\ Past \in {0, 1, 2}
BY DEF AState, Past, AllBarred

LEMMA AuthoritySteps ==
  ASSUME Sane, GenInv, FenceInv, GenInv', FenceInv', Kept, Registers \/ Lands \/ MovesOn
  PROVE  [Authority!Next]_<<AState, registered, Allocated, Revision>>
<1> DEFINE av == <<AState, registered, Allocated, Revision>>
<1>1. CASE Registers
  <2>1. PICK s \in Servers :
          /\ registered' = registered \cup {s} /\ s \notin registered /\ Cardinality(registered) < MaxGrants
          /\ UNCHANGED committed /\ ~AllBarred /\ ~AllBarred' /\ Holders = {} /\ Holders' = {}
    BY <1>1 DEF Registers
  <2>2. AState = "open" /\ AState' = "open" /\ Past = 0 /\ Past' = 0
    BY <2>1 DEF AState, Past, AllBarred
  <2>3. Cardinality(registered') = Cardinality(registered) + 1
    BY <2>1, Counted, FS_AddElement
  <2>4. Revision' = Revision + 1 /\ Allocated' = Allocated
    BY <2>1, <2>2, <2>3, Counted DEF Revision, Allocated
  <2>5. Authority!Admit(s)
    <3>1. AState' = AState /\ AState = "open"
      BY <2>2
    <3>2. Authority!Cardinality(registered) = Cardinality(registered)
      BY DEF Authority!Cardinality, Cardinality
    <3> QED  BY <2>1, <2>4, <3>1, <3>2 DEF Authority!Admit, AState, Revision, Allocated, Past
  <2> QED  BY <2>5 DEF Authority!Next
<1>2. CASE Lands
  <2>1. PICK s \in registered :
          /\ committed' = committed \cup {s} /\ s \notin committed
          /\ UNCHANGED registered /\ ~AllBarred /\ ~AllBarred' /\ Holders = {} /\ Holders' = {}
    BY <1>2 DEF Lands
  <2>2. AState = "open" /\ AState' = "open" /\ Past = 0 /\ Past' = 0
    BY <2>1 DEF AState, Past, AllBarred
  <2>3. Cardinality(committed') = Cardinality(committed) + 1
    BY <2>1, Counted, FS_AddElement
  <2>4. Revision' = Revision + 1
    BY <2>1, <2>2, <2>3, Counted DEF Revision
  <2>5. Allocated' = Allocated \cup {[attempt |-> s, resource |-> s]}
    BY <2>1 DEF Allocated
  <2>6. ~\E done \in Allocated : done.attempt = s \/ done.resource = s
    BY <2>1 DEF Allocated
  <2>7. s \in Servers
    BY DEF GenInv, GenTyped
  <2>8. Authority!Commit(s, s)
    BY <2>1, <2>2, <2>4, <2>5, <2>6 DEF Authority!Commit, AState, Revision, Allocated, Past
  <2> QED  BY <2>7, <2>8 DEF Authority!Next
<1>3. CASE MovesOn
  <2>1. UNCHANGED <<registered, committed>> /\ Holders \subseteq Holders' /\ (Holders' # Holders => AllBarred)
    BY <1>3 DEF MovesOn, HoldersGrow
  <2>2. Allocated' = Allocated /\ registered' = registered
        /\ Cardinality(registered') = Cardinality(registered) /\ Cardinality(committed') = Cardinality(committed)
    BY <2>1 DEF Allocated
  <2>3. AllBarred => AllBarred'
    BY BarredStays
  <2>4. Holders # {} => AllBarred
    BY HeldIsBarred
  <2>5. CASE AState' = AState
    <3>1. Past' = Past
      BY <2>5 DEF AState, Past
    <3> QED  BY <2>2, <2>5, <3>1 DEF Revision
  <2>6. CASE AState' # AState /\ AState = "open"
    <3>1. Holders = {} /\ ~AllBarred
      BY <2>6 DEF AState, AllBarred
    <3>2. Holders' = {}
      BY <2>1, <3>1
    <3>3. AllBarred'
      BY <2>6, <3>1, <3>2 DEF AState, AllBarred
    <3>4. AState' = "draining" /\ Past = 0 /\ Past' = 1
      BY <3>1, <3>2, <3>3 DEF AState, Past, AllBarred
    <3>5. Revision' = Revision + 1
      BY <2>2, <3>4, Counted DEF Revision
    <3>6. Authority!Drain
      BY <2>2, <2>6, <3>4, <3>5 DEF Authority!Drain, AState, Revision, Allocated, Past
    <3> QED  BY <3>6 DEF Authority!Next
  <2>7. CASE AState' # AState /\ AState = "draining"
    <3>1. Holders = {} /\ AllBarred
      BY <2>7 DEF AState, AllBarred
    <3>2. AllBarred'
      BY <2>3, <3>1
    <3>3. Holders' # {}
      BY <2>7, <3>1, <3>2 DEF AState, AllBarred
    <3>4. AState' = "fenced" /\ Past = 1 /\ Past' = 2
      BY <3>1, <3>3 DEF AState, Past, AllBarred
    <3>5. Revision' = Revision + 1
      BY <2>2, <3>4, Counted DEF Revision
    <3>6. Authority!Fence
      BY <2>2, <2>7, <3>4, <3>5 DEF Authority!Fence, AState, Revision, Allocated, Past
    <3> QED  BY <3>6 DEF Authority!Next
  <2>8. CASE AState = "fenced"
    <3>1. Holders # {} /\ Holders' # {}
      BY <2>1, <2>8 DEF AState
    <3>2. AState' = AState
      BY <3>1 DEF AState
    <3> QED  BY <2>5, <3>2
  <2>9. AState \in {"open", "draining", "fenced"}
    BY DEF AState
  <2> QED  BY <2>5, <2>6, <2>7, <2>8, <2>9
<1> QED  BY <1>1, <1>2, <1>3

\* The generation keeps the promise of the fence reference: nothing is admitted once
\* every grant is barred, no write lands after that, and only then is it fenced.
THEOREM AuthorityImplemented == Sane => (Spec => ImplementsAuthority)
<1> SUFFICES ASSUME Sane PROVE Spec => ImplementsAuthority
  OBVIOUS
<1>1. Init => IdleInv /\ Authority!Init
  <2> SUFFICES ASSUME Init PROVE IdleInv /\ Authority!Init
    OBVIOUS
  <2>1. IdleInv
    BY DEF Init, IdleInv, NotFencing, Sane
  <2>2. Holders = {} /\ registered = {} /\ committed = {} /\ ~drained
    BY DEF Init, Holders, NotFencing
  <2>3. Cardinality(registered) = 0 /\ Cardinality(committed) = 0
    BY <2>2, FS_EmptySet
  <2>4. AState = "open" /\ Past = 0 /\ Allocated = {} /\ Revision = 1
    BY <2>2, <2>3 DEF AState, Past, Allocated, Revision
  <2>5. Authority!Init
    BY <2>2, <2>4 DEF Authority!Init, AState, Allocated, Revision, Past
  <2> QED  BY <2>1, <2>5
<1>2. IInv /\ IdleInv /\ [Next]_vars => IdleInv'
  BY LedgerSteps DEF IInv
<1>3. IInv /\ IInv' /\ IdleInv /\ [Next]_vars => [Authority!Next]_(Authority!authorityVars)
  <2>1. ASSUME IInv, IInv', IdleInv, [Next]_vars
        PROVE  [Authority!Next]_<<AState, registered, Allocated, Revision>>
    <3>1. Kept
      BY <2>1, Steps DEF IInv
    <3>2. Registers \/ Lands \/ MovesOn
      BY <2>1, LedgerSteps DEF IInv
    <3>3. GenInv /\ FenceInv /\ GenInv' /\ FenceInv'
      BY <2>1 DEF IInv
    <3> QED  BY <3>1, <3>2, <3>3, AuthoritySteps
  <2> QED  BY <2>1 DEF Authority!authorityVars, AState, Allocated, Revision, Past
<1> QED  BY <1>1, <1>2, <1>3, Invariantly, PTL DEF Spec, ImplementsAuthority, Authority!Spec
=============================================================================
