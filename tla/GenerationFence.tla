-------------------------- MODULE GenerationFence --------------------------
(***************************************************************************)
(* Closing a generation of allocators: gameservercommit prepares a grant    *)
(* per game server, registers it in the durable admission row and commits   *)
(* it by one conditional write; a fence bars every issued grant.            *)
(* allocatoradmission keeps the rows by which another process takes the     *)
(* closed generation over (handoff, recovery owner, proof), and             *)
(* CustodyWitness the record that outlives them.                            *)
(*                                                                         *)
(* A row's version is the digest of its value, so a row is its own version. *)
(* Every reply may be lost, every write may fail, the last write of a       *)
(* commit may arrive at any later time, the controller changes servers on   *)
(* its own, and Nakama's storage may be restored from a backup.             *)
(***************************************************************************)
EXTENDS CustodyWitness, TLC

CONSTANTS Servers, Recoverers, Owner,  \* Owner: the process of the generation
          MaxGrants,                   \* 256
          MaxTouches, MaxRestores      \* bounds on the environment

VARIABLES witnessed,  \* whether a witness is composed
          server,     \* the game servers, in Kubernetes
          rows,       \* the storage rows of the generation, in Nakama
          backup,     \* a copy of them
          gen,        \* the generation, in the memory of its owner
          grants,     \* its grant of each server
          handed,     \* what CloseForRecovery returned
          fence,      \* who fences, and what it has observed
          recover,    \* the recoverers
          committed,  \* servers a grant has allocated (history)
          registered, \* grants ever registered durably (history)
          drained,    \* the row was drained (history)
          touches, restores

genVars == <<witnessed, server, rows, backup, gen, grants, handed, fence, recover,
             committed, registered, drained, touches, restores>>
vars == <<witnessVars, genVars>>

None     == "none"

\* The processes are told apart from each other, from the servers and from the
\* values that stand for none of them.
Sane ==
  /\ Writers = Recoverers \cup {Owner} /\ Owner \notin Recoverers
  /\ None \notin Writers /\ {"free", Owner} \cap Servers = {} /\ Owner # "free"
  /\ MaxGrants \in Nat
ASSUME ConstantsAreSane == Sane

\* A journal is read whole or not at all: known servers, no more than there may be.
Readable(gs) == gs \subseteq Servers /\ Cardinality(gs) <= MaxGrants
\* The admission row: its phase and the journal of its grants.
Admission(phase, gs) == [phase |-> phase, grants |-> gs]
Open(gs)     == Admission("open", gs)
Draining(gs) == Admission("draining", gs)

\* The handoff row carries the drained admission at its version, the owner row
\* that handoff, the proof row an outcome for every grant it lists; nothing else
\* is ever encoded.
HandoffOf(head)          == {h \in {head} : h.phase = "draining"}
OwnerOf(r, head)         == {[owner |-> r, handoff |-> h] : h \in HandoffOf(head)}
ProofOf(r, obs, head)    == {[owner |-> r, obs |-> o] : o \in {p \in {obs} : DOMAIN p = head.grants}}
NoRows   == [admission |-> Open({}), handoff |-> {}, owner |-> {}, proof |-> {}]
NotFencing == [at |-> "idle", seen |-> 0, outcome |-> None, server |-> None, obs |-> <<>>]

\* The pin of a stage is what its acknowledgement said.
StagePin(stage, of) == [stage |-> stage, of |-> of]
Registration(gs) == [issued |-> gs, pins |-> <<StagePin("registered", gs)>>]
Pinned(r, stage, of) == [r EXCEPT !.pins = Append(@, StagePin(stage, of))]

\* NewDurableGeneration has created the open row and witnessed it.
Init ==
  /\ witnessed \in BOOLEAN
  /\ witness = (IF witnessed THEN Registration({}) ELSE NoWitness)
  /\ pinned = TRUE /\ writes = [p \in Writers |-> NotWriting]
  /\ server = [s \in Servers |-> [version |-> 0, state |-> "ready", barrier |-> None]]
  /\ rows = NoRows /\ backup = NoRows
  /\ gen = [pc |-> "open", closed |-> FALSE, uncertain |-> FALSE, gate |-> "free",
            head |-> Open({}), issued |-> {}, acked |-> Registration({})]
  /\ grants = [s \in Servers |-> [at |-> None, frozen |-> 0]]
  /\ handed = [at |-> None]
  /\ fence = [f \in Writers |-> NotFencing]
  /\ recover = [r \in Recoverers |-> [at |-> "idle", acked |-> NoWitness]]
  /\ committed = {} /\ registered = {} /\ drained = FALSE
  /\ touches = 0 /\ restores = 0

\* A write to the witness, where one is composed.
Witness(p, acked, next) ==
  IF witnessed THEN WriteGeneration(p, acked, next) ELSE UNCHANGED witnessVars

\* The one read of the admission row: the exact version, and readable.
AdmissionHolds(head) == rows.admission = head /\ Readable(head.grants)

GrantAt(s, at) == grants' = [grants EXCEPT ![s].at = at]
Release(g) == [g EXCEPT !.gate = "free"]
Broken(g)  == [g EXCEPT !.gate = "free", !.closed = TRUE, !.uncertain = TRUE]

-----------------------------------------------------------------------------
Admitting == ~gen.closed /\ Cardinality(gen.issued) < MaxGrants

\* Generation.Prepare reads a Ready server that nobody holds and freezes it.
Prepare(s) ==
  /\ Admitting /\ grants[s].at = None
  /\ server[s].state = "ready" /\ server[s].barrier = None
  /\ grants' = [grants EXCEPT ![s] = [at |-> "prepared", frozen |-> server[s].version]]
  /\ UNCHANGED <<witnessVars, witnessed, server, rows, backup, gen, handed, fence, recover,
                 committed, registered, drained, touches, restores>>

\* register: one registration or drain at a time; admission may have closed.
TakeGate(s) ==
  /\ grants[s].at = "prepared"
  /\ \/ GrantAt(s, "refused") /\ UNCHANGED gen          \* the caller waited too long
     \/ /\ gen.gate = "free"
        /\ IF ~Admitting THEN GrantAt(s, "refused") /\ UNCHANGED gen
           ELSE GrantAt(s, "register") /\ gen' = [gen EXCEPT !.gate = s]
  /\ UNCHANGED <<witnessVars, witnessed, server, rows, backup, handed, fence, recover,
                 committed, registered, drained, touches, restores>>

\* Writer.Register takes an open head; after any doubt the writer writes no more.
Register(s) ==
  /\ grants[s].at = "register"
  /\ LET next == Open(gen.head.grants \cup {s}) IN
     \/ /\ ~gen.uncertain /\ gen.head.phase = "open" /\ rows.admission = gen.head
        /\ rows' = [rows EXCEPT !.admission = next] /\ registered' = registered \cup {s}
        /\ \/ /\ GrantAt(s, "witness") /\ UNCHANGED gen
              /\ Witness(Owner, gen.acked, Registration(next.grants))
           \/ GrantAt(s, "refused") /\ gen' = Broken(gen) /\ UNCHANGED witnessVars
     \/ GrantAt(s, "refused") /\ gen' = Broken(gen) /\ UNCHANGED <<witnessVars, rows, registered>>
  /\ UNCHANGED <<witnessed, server, backup, handed, fence, recover, committed, drained, touches, restores>>

\* The grant is issued only if its registration is witnessed and admission still open.
Issue(s) ==
  /\ grants[s].at = "witness"
  /\ witnessed => Written(Owner) \/ Unwritten(Owner)
  /\ LET next == Open(gen.head.grants \cup {s})
         kept == [gen EXCEPT !.head = next, !.issued = @ \cup {s}] IN
     IF witnessed /\ Unwritten(Owner) THEN GrantAt(s, "refused") /\ gen' = Broken(kept)
     ELSE LET acked == [kept EXCEPT !.acked = Registration(next.grants)] IN
          \/ GrantAt(s, "refused") /\ gen' = Broken(acked)
          \/ /\ GrantAt(s, IF gen.closed THEN "refused" ELSE "issued")
             /\ gen' = Release(acked)
  /\ IF witnessed THEN EndWrite(Owner) ELSE UNCHANGED witnessVars
  /\ UNCHANGED <<witnessed, server, rows, backup, handed, fence, recover,
                 committed, registered, drained, touches, restores>>

\* GenerationGrant.Commit submits the frozen write, once.
Commit(s) ==
  /\ grants[s].at = "issued" /\ ~gen.closed
  /\ GrantAt(s, "submitted")
  /\ UNCHANGED <<witnessVars, witnessed, server, rows, backup, gen, handed, fence, recover,
                 committed, registered, drained, touches, restores>>

\* Mutant of Unchanged: the write carries no version.
UnchangedAnyway(s, version) == TRUE
Unchanged(s, version) == server[s].version = version

\* The write arrives: Kubernetes takes it only at the version it quotes.
Land(s) ==
  /\ grants[s].at = "submitted" /\ GrantAt(s, "done")
  /\ IF Unchanged(s, grants[s].frozen)
     THEN /\ server' = [server EXCEPT ![s].version = @ + 1, ![s].state = "allocated"]
          /\ committed' = committed \cup {s}
     ELSE UNCHANGED <<server, committed>>
  /\ UNCHANGED <<witnessVars, witnessed, rows, backup, gen, handed, fence, recover,
                 registered, drained, touches, restores>>

Lose(s) ==
  /\ grants[s].at = "submitted" /\ GrantAt(s, "done")
  /\ UNCHANGED <<witnessVars, witnessed, server, rows, backup, gen, handed, fence, recover,
                 committed, registered, drained, touches, restores>>

-----------------------------------------------------------------------------
\* Fence and CloseForRecovery close admission, once between them.
Close(pc) ==
  /\ ~gen.closed /\ gen' = [gen EXCEPT !.closed = TRUE, !.pc = pc]
  /\ UNCHANGED <<witnessVars, witnessed, server, rows, backup, grants, handed, fence, recover,
                 committed, registered, drained, touches, restores>>

Fence            == Close("drain to fence")
CloseForRecovery == Close("drain to hand off")

\* durableState.drain: under the gate, the row is drained and that is witnessed.
Drain ==
  /\ gen.pc \in {"drain to fence", "drain to hand off"} /\ gen.gate = "free"
  /\ LET next == Draining(gen.head.grants) IN
     \/ /\ ~gen.uncertain /\ rows.admission = gen.head
        /\ rows' = [rows EXCEPT !.admission = next] /\ drained' = TRUE
        /\ \/ /\ gen' = [gen EXCEPT !.gate = Owner, !.head = next]
              /\ Witness(Owner, gen.acked, Pinned(gen.acked, "drained", next.grants))
           \/ gen' = [Broken(gen) EXCEPT !.pc = "failed"] /\ UNCHANGED witnessVars
     \/ gen' = [Broken(gen) EXCEPT !.pc = "failed"] /\ UNCHANGED <<witnessVars, rows, drained>>
  /\ UNCHANGED <<witnessed, server, backup, grants, handed, fence, recover,
                 committed, registered, touches, restores>>

Drained ==
  /\ gen.gate = Owner /\ gen.pc \in {"drain to fence", "drain to hand off"}
  /\ witnessed => Written(Owner) \/ Unwritten(Owner)
  /\ IF witnessed /\ Unwritten(Owner) THEN gen' = [Broken(gen) EXCEPT !.pc = "failed"] /\ UNCHANGED fence
     ELSE LET acked == [gen EXCEPT !.acked = Pinned(@, "drained", gen.head.grants)] IN
          IF gen.pc = "drain to fence"
          THEN /\ gen' = [Release(acked) EXCEPT !.pc = "fence"]
               /\ fence' = [fence EXCEPT ![Owner].at = "next"]
          ELSE gen' = [acked EXCEPT !.pc = "hand off"] /\ UNCHANGED fence
  /\ IF witnessed THEN EndWrite(Owner) ELSE UNCHANGED witnessVars
  /\ UNCHANGED <<witnessed, server, rows, backup, grants, handed, recover,
                 committed, registered, drained, touches, restores>>

\* PublishHandoff creates the handoff row, whose acknowledgement is witnessed.
PublishHandoff ==
  /\ gen.pc = "hand off"
  /\ \/ /\ rows.handoff = {} /\ rows' = [rows EXCEPT !.handoff = HandoffOf(gen.head)]
        /\ \/ /\ gen' = [gen EXCEPT !.pc = "handed"]
              /\ Witness(Owner, gen.acked, Pinned(gen.acked, "handoff", gen.head.grants))
           \/ gen' = [Broken(gen) EXCEPT !.pc = "failed"] /\ UNCHANGED witnessVars
     \/ gen' = [Broken(gen) EXCEPT !.pc = "failed"] /\ UNCHANGED <<witnessVars, rows>>
  /\ UNCHANGED <<witnessed, server, backup, grants, handed, fence, recover,
                 committed, registered, drained, touches, restores>>

HandOff ==
  /\ gen.pc = "handed" /\ (witnessed => Written(Owner) \/ Unwritten(Owner))
  /\ IF witnessed /\ Unwritten(Owner) THEN gen' = [Broken(gen) EXCEPT !.pc = "failed"] /\ UNCHANGED handed
     ELSE /\ gen' = [Release(gen) EXCEPT !.pc = "closed"]
          /\ handed' = [at |-> "handed", head |-> gen.head,
                        acked |-> Pinned(gen.acked, "handoff", gen.head.grants)]
  /\ IF witnessed THEN EndWrite(Owner) ELSE UNCHANGED witnessVars
  /\ UNCHANGED <<witnessed, server, rows, backup, grants, fence, recover,
                 committed, registered, drained, touches, restores>>

-----------------------------------------------------------------------------
\* The fence of one grant: read its server, bar it, read it back.  The owner
\* fences what it has issued, a recoverer what the handoff lists.
Fenced(f)  == IF f = Owner THEN gen.issued ELSE handed.head.grants
FenceAt(f, at) == fence' = [fence EXCEPT ![f].at = at]
FenceOnly == UNCHANGED <<witnessVars, witnessed, rows, backup, gen, grants, handed, recover,
                         committed, registered, drained, touches, restores>>

\* What the server tells of the grant, if it tells anything.
OutcomeAt(f, s) ==
  IF f # Owner /\ server[s].barrier # None THEN None
  ELSE IF Unchanged(s, grants[s].frozen) /\ server[s].state = "ready" THEN "uncommitted"
  ELSE IF ~Unchanged(s, grants[s].frozen) /\ server[s].state = "allocated" THEN "allocated"
  ELSE None

FenceRead(f) ==
  /\ fence[f].at = "next"
  /\ \E s \in Fenced(f) \ DOMAIN fence[f].obs :
       \/ /\ OutcomeAt(f, s) # None
          /\ fence' = [fence EXCEPT ![f] = [@ EXCEPT !.at = "bar", !.server = s, !.seen = server[s].version,
                                                     !.outcome = OutcomeAt(f, s)]]
       \/ FenceAt(f, "failed")
  /\ FenceOnly /\ UNCHANGED server

FenceBar(f) ==
  /\ fence[f].at = "bar"
  /\ LET s == fence[f].server IN
     \/ /\ Unchanged(s, fence[f].seen)
        /\ server' = [server EXCEPT ![s].version = @ + 1, ![s].barrier = f]
        /\ fence' = [fence EXCEPT ![f] = [@ EXCEPT !.at = "read back", !.seen = server[s].version + 1]]
           \/ FenceAt(f, "failed")
     \/ FenceAt(f, "failed") /\ UNCHANGED server
  /\ FenceOnly

\* What is read back is the server the barrier was put on, as it left it.
Barred(f, s) == Unchanged(s, fence[f].seen) /\ server[s].barrier = f

FenceReadBack(f) ==
  /\ fence[f].at = "read back"
  /\ LET s == fence[f].server IN
     \/ /\ Barred(f, s)
        /\ fence' = [fence EXCEPT ![f].at = "next",
                       ![f].obs = [d \in DOMAIN @ \cup {s} |-> IF d = s THEN fence[f].outcome ELSE @[d]]]
     \/ FenceAt(f, "failed")
  /\ FenceOnly /\ UNCHANGED server

\* Mutant of FenceComplete: one barrier is enough.
FenceBegun(f)    == fence[f].at = "next"
FenceComplete(f) == fence[f].at = "next" /\ DOMAIN fence[f].obs = Fenced(f)

\* The owner's receipt.
FenceAccept ==
  /\ FenceComplete(Owner) /\ (FenceAt(Owner, "accepted") \/ FenceAt(Owner, "failed"))
  /\ FenceOnly /\ UNCHANGED server

-----------------------------------------------------------------------------
\* A recoverer.  Its reads between two writes are one step.
RecoverAt(r, at) == recover' = [recover EXCEPT ![r].at = at]
RecoverOnly == UNCHANGED <<witnessed, server, backup, gen, grants, handed, committed, registered,
                           drained, touches, restores>>
HandoffHolds == rows.handoff = HandoffOf(handed.head) /\ AdmissionHolds(handed.head)
OwnedBy(r)   == rows.owner = OwnerOf(r, handed.head)

WitnessAgrees(expected) == witnessed => Compare(expected) = "verified"

\* The record a recoverer starts from is the one its handoff re-derives.
HandoffRecord == LET gs == handed.head.grants IN
  Pinned(Pinned(Registration(gs), "drained", gs), "handoff", gs)
NewRecoveryOwner == handed.at # None /\ (witnessed => handed.acked = HandoffRecord)

\* RecoveryOwner.Reserve: the handoff holds and the witness knows no later stage.
Reserve(r) ==
  /\ recover[r].at = "idle" /\ NewRecoveryOwner
  /\ \/ HandoffHolds /\ WitnessAgrees(handed.acked) /\ RecoverAt(r, "own")
     \/ RecoverAt(r, "failed")
  /\ RecoverOnly /\ UNCHANGED <<witnessVars, rows, fence>>

Own(r) ==
  /\ recover[r].at = "own"
  /\ \/ /\ rows.owner = {} /\ rows' = [rows EXCEPT !.owner = OwnerOf(r, handed.head)]
        /\ \/ /\ RecoverAt(r, "owner")
              /\ Witness(r, handed.acked, Pinned(handed.acked, "owner", r))
           \/ RecoverAt(r, "failed") /\ UNCHANGED witnessVars
     \/ RecoverAt(r, "failed") /\ UNCHANGED <<witnessVars, rows>>
  /\ RecoverOnly /\ UNCHANGED fence

\* The end of a witnessed write: the record is kept, or the capability is gone.
AfterWitness(r, from, to, stage, of) ==
  /\ recover[r].at = from /\ (witnessed => Written(r) \/ Unwritten(r))
  /\ IF witnessed /\ Unwritten(r) THEN RecoverAt(r, "failed") /\ UNCHANGED fence
     ELSE /\ recover' = [recover EXCEPT ![r] = [at |-> to, acked |->
               IF stage = "owner" THEN Pinned(handed.acked, stage, of) ELSE Pinned(@.acked, stage, of)]]
          /\ IF stage = "recovered" THEN FenceAt(r, "accepted") ELSE UNCHANGED fence
  /\ IF witnessed THEN EndWrite(r) ELSE UNCHANGED witnessVars
  /\ RecoverOnly /\ UNCHANGED rows

Reserved(r) == AfterWitness(r, "owner", "reserved", "owner", r)

\* Recovery.Fence consumes the reservation and compares all of it again, with a
\* witness; without one it goes on whatever has become of the rows.
VerifyWitness(r) ==
  /\ recover[r].at = "reserved"
  /\ \/ /\ witnessed => HandoffHolds /\ OwnedBy(r) /\ WitnessAgrees(recover[r].acked)
        /\ RecoverAt(r, "fencing") /\ FenceAt(r, "next")
     \/ RecoverAt(r, "failed") /\ UNCHANGED fence
  /\ RecoverOnly /\ UNCHANGED <<witnessVars, rows>>

Advance(r, stage, of) == Witness(r, recover[r].acked, Pinned(recover[r].acked, stage, of))

Recover(r) ==
  /\ recover[r].at = "fencing" /\ FenceComplete(r)
  /\ RecoverAt(r, "recovering") /\ Advance(r, "recovered", fence[r].obs)
  /\ RecoverOnly /\ UNCHANGED <<rows, fence>>

Recovered(r) == AfterWitness(r, "recovering", "recovered", "recovered", fence[r].obs)

\* Publish creates the proof and reads the whole chain back before the witness.
Publish(r) ==
  /\ recover[r].at = "recovered"
  /\ \/ /\ rows.proof = {} /\ rows' = [rows EXCEPT !.proof = ProofOf(r, fence[r].obs, handed.head)]
        /\ RecoverAt(r, "read back") \/ RecoverAt(r, "failed")
     \/ RecoverAt(r, "failed") /\ UNCHANGED rows
  /\ RecoverOnly /\ UNCHANGED <<witnessVars, fence>>

\* ReadRecoveryPublication: the proof and all that it rests on, and for a reader
\* with a witness the record of its publication.
PublicationHolds(proof) == rows.proof = {proof} /\ OwnedBy(proof.owner) /\ HandoffHolds
PublicationVerified(proof) ==
  /\ PublicationHolds(proof) /\ Rank(witness) = 6
  /\ Compare(Pinned(Pinned(Pinned(handed.acked, "owner", proof.owner), "recovered", proof.obs),
                    "published", proof.owner)) = "verified"

ReadPublication(r) ==
  /\ recover[r].at = "read back"
  /\ \/ /\ PublicationHolds([owner |-> r, obs |-> fence[r].obs])
        /\ RecoverAt(r, "publishing") /\ Advance(r, "published", r)
     \/ RecoverAt(r, "failed") /\ UNCHANGED witnessVars
  /\ RecoverOnly /\ UNCHANGED <<rows, fence>>

Published(r) == AfterWitness(r, "publishing", "published", "published", r)

-----------------------------------------------------------------------------
\* The environment: a server changes by itself, storage is backed up, restored.
Touch(s) ==
  /\ touches < MaxTouches /\ touches' = touches + 1
  /\ \E state \in {server[s].state, "shutdown"} :
       server' = [server EXCEPT ![s].version = @ + 1, ![s].state = state]
  /\ UNCHANGED <<witnessVars, witnessed, rows, backup, gen, grants, handed, fence, recover,
                 committed, registered, drained, restores>>

Restore ==
  /\ restores < MaxRestores /\ restores' = restores + 1 /\ rows' = backup
  /\ UNCHANGED <<witnessVars, witnessed, server, backup, gen, grants, handed, fence, recover,
                 committed, registered, drained, touches>>

BackUp ==
  /\ restores < MaxRestores /\ backup # rows /\ backup' = rows
  /\ UNCHANGED <<witnessVars, witnessed, server, rows, gen, grants, handed, fence, recover,
                 committed, registered, drained, touches, restores>>

Next ==
  \/ WitnessStep /\ UNCHANGED genVars
  \/ \E s \in Servers : \/ Prepare(s) \/ TakeGate(s) \/ Register(s) \/ Issue(s)
                        \/ Commit(s) \/ Land(s) \/ Lose(s) \/ Touch(s)
  \/ Fence \/ CloseForRecovery \/ Drain \/ Drained \/ PublishHandoff \/ HandOff \/ FenceAccept
  \/ \E f \in Writers : FenceRead(f) \/ FenceBar(f) \/ FenceReadBack(f)
  \/ \E r \in Recoverers : \/ Reserve(r) \/ Own(r) \/ Reserved(r) \/ VerifyWitness(r) \/ Recover(r)
                           \/ Recovered(r) \/ Publish(r) \/ ReadPublication(r) \/ Published(r)
  \/ Restore \/ BackUp

Spec == Init /\ [][Next]_vars

-----------------------------------------------------------------------------
\* Those whose observation of the grants has been accepted.
Holders == {f \in Writers : fence[f].at = "accepted"}

AllocatedIn(obs) == {s \in DOMAIN obs : obs[s] = "allocated"}

\* What a fence, a recovery or a publication that verifies reports stays the
\* truth: the servers the generation's grants have allocated are exactly those it
\* reports allocated, whatever write was still under way when it closed.
ReportedIsFinal ==
  /\ \A f \in Holders : committed = AllocatedIn(fence[f].obs)
  /\ \A proof \in rows.proof : PublicationVerified(proof) => committed = AllocatedIn(proof.obs)

\* One process at most takes a closed generation over, also when storage is
\* restored to a time before the other did, as long as a witness is composed.
OneRecovery ==
  witnessed \/ restores = 0 =>
    Cardinality({r \in Recoverers : recover[r].acked # NoWitness}) <= 1

\* The generation keeps the promise of the fence reference: nothing is admitted
\* after draining, nothing is committed once every grant is barred, and a fence
\* is accepted only then.
Authority == INSTANCE FenceAuthority WITH
  Attempts <- Servers, Resources <- Servers, MaxAttempts <- MaxGrants,
  attempts <- registered,
  allocations <- {[attempt |-> s, resource |-> s] : s \in committed},
  state <- IF Holders # {} THEN "fenced"
           ELSE IF drained /\ \A s \in registered : server[s].barrier # None THEN "draining" ELSE "open",
  revision <- 1 + Cardinality(registered) + Cardinality(committed)
              + (IF Holders # {} THEN 2
                 ELSE IF drained /\ \A s \in registered : server[s].barrier # None THEN 1 ELSE 0)
ImplementsAuthority == Authority!Spec

\* Symmetry of an instance: recoverers are alike, and so are game servers.
Alike == Permutations(Recoverers) \cup Permutations(Servers)
=============================================================================
