--------------------------- MODULE ZoneTierProofs ---------------------------
(***************************************************************************)
(* Three of the parts of ZoneTier, for every value of their constants.     *)
(*                                                                         *)
(* The process   any number of sockets, leases and edits and each claim    *)
(*               gate: what the sidecar is told, and whom the gates admit  *)
(* The input     any number of connections of an observer: what their      *)
(*               intents drive, and what they are told of it               *)
(* The combat    zones of any size, with any number of actors and mobs:    *)
(*               the telegraphs painted, the hits landed, the deaths told  *)
(***************************************************************************)
EXTENDS ZoneTier, FiniteSetTheorems, SequenceTheorems, WellFoundedInduction, TLAPS

-----------------------------------------------------------------------------
(***************************************************************************)
(* The zone process.                                                       *)
(***************************************************************************)
Lease    == Locators \cup {None}
Observer == Observers \cup {None}
Snapshot == [state : {"Starting", "Ready", "Allocated"}, meta : SUBSET Published,
             locator : Lease, attempt : Lease, deleting : BOOLEAN]
Receipt  == [lease : Lease, observer : Observer, generation : 0..2]
Asking   == [pc : ClaimPCs, observer : Observer, lease : Lease, revision : Nat,
             late : BOOLEAN, receipt : Receipt]

ProcessTyped ==
  /\ gateKind \in {"plain", "receipt", "custody"} /\ main \in MainPCs
  /\ stopping \in BOOLEAN
  /\ gs \in Snapshot /\ stream \in Seq(Snapshot)
  /\ edits \in 0..MaxEdits /\ watch \in {"none", "open", "ended"}
  /\ health \in HealthPCs /\ halted \in BOOLEAN
BindingTyped ==
  /\ binding \in [lease : Lease, revision : Nat, closed : BOOLEAN]
  /\ binding.closed => binding.lease = None
  /\ broken \subseteq Handlers
GateTyped ==
  /\ claim \in [Handlers -> Asking]
  /\ gate \in [holder : Handlers \cup {None}, uncertain : BOOLEAN, captured : BOOLEAN, receipt : Receipt]
  /\ custody \in [attempted : BOOLEAN, stored : Receipt]

\* The sidecar is told by the step that ends the process and by no other.
ToldInv == told = 0 \/ (told = 1 /\ main = "down")

\* Whose binding changed under it compares another revision, or finds the binding
\* closed or the process stopping for good.
BindingInv ==
  /\ broken \subseteq InFlight
  /\ \A h \in InFlight : claim[h].revision <= binding.revision
  /\ \A h \in broken : binding.closed \/ stopping \/ claim[h].revision < binding.revision

\* Between its question and its answer an admission holds the gate; from the answer
\* on it has the gate's receipt; a custodied gate stays uncertain from its first
\* question until its receipt is stored.
HolderInv ==
  gateKind # "plain" => \A h \in Handlers :
    /\ claim[h].pc \in {"ask", "retain", "check"} => gate.holder = h
    /\ claim[h].pc \in {"retain", "check", "admitted"} => gate.captured /\ claim[h].receipt = gate.receipt
CustodyInv ==
  Custodied =>
    /\ gate.captured => gate.receipt.lease = firstAsked
    /\ gate.captured /\ ~gate.uncertain => custody.attempted /\ custody.stored = gate.receipt
    /\ ~gate.captured /\ ~gate.uncertain => firstAsked = None
    /\ \A h \in Handlers :
         /\ claim[h].pc = "ask" => gate.uncertain = ~gate.captured
         /\ claim[h].pc = "ask" /\ ~gate.captured => claim[h].lease = firstAsked
         /\ claim[h].pc \in {"check", "admitted"} => ~gate.uncertain

GateInv == HolderInv /\ CustodyInv
IInv == ProcessTyped /\ BindingTyped /\ GateTyped /\ ToldInv /\ BindingInv /\ GateInv

-----------------------------------------------------------------------------
\* Steps beside the gates leave them alone; they end or renew the binding, or stop
\* the process, only by breaking every admission in flight.
Aside ==
  /\ UNCHANGED <<gateKind, gate, custody, firstAsked>>
  /\ claim' \in [Handlers -> Asking]
  /\ \A h \in Handlers : /\ claim'[h].pc = claim[h].pc /\ claim'[h].lease = claim[h].lease
                         /\ claim'[h].revision = claim[h].revision
                         /\ claim'[h].receipt = claim[h].receipt
  /\ stopping => stopping'
  /\ \/ UNCHANGED <<binding, broken>>
     \/ /\ broken' = broken \cup InFlight
        /\ binding.revision <= binding'.revision /\ (binding.closed => binding'.closed)
        /\ binding'.closed \/ stopping' \/ binding.revision < binding'.revision

\* Closing the binding is such a step, and so is an observation.
LEMMA BindingMoves ==
  ASSUME BindingTyped
  PROVE  /\ CloseBinding => BindingTyped' /\ binding'.closed /\ binding'.revision = binding.revision
                            /\ broken' = broken \cup InFlight
         /\ \A snap \in Snapshot : Observe(snap) =>
              /\ BindingTyped'
              /\ \/ UNCHANGED <<binding, broken>>
                 \/ /\ broken' = broken \cup InFlight /\ ~binding.closed
                    /\ binding.revision < binding'.revision
<1>1. InFlight \subseteq Handlers
  BY DEF InFlight
<1>2. CloseBinding => BindingTyped' /\ binding'.closed /\ binding'.revision = binding.revision
                      /\ broken' = broken \cup InFlight
  BY <1>1 DEF CloseBinding, Rebind, Breaks, BindingTyped, Lease
<1>3. ASSUME NEW snap \in Snapshot, Observe(snap)
      PROVE  /\ BindingTyped'
             /\ \/ UNCHANGED <<binding, broken>>
                \/ /\ broken' = broken \cup InFlight /\ ~binding.closed
                   /\ binding.revision < binding'.revision
  <2>1. Named(snap) \in Lease
    BY DEF Named, Snapshot, Lease
  <2>2. CASE UNCHANGED <<binding, broken>>
    BY <2>2 DEF BindingTyped
  <2>3. CASE ~UNCHANGED <<binding, broken>>
    <3>1. ~binding.closed /\ Rebind([binding EXCEPT !.lease = Named(snap), !.revision = @ + 1])
      BY <1>3, <2>3 DEF Observe
    <3>2. binding' = [binding EXCEPT !.lease = Named(snap), !.revision = @ + 1]
      BY <3>1 DEF Rebind
    <3> DEFINE named == [binding EXCEPT !.lease = Named(snap)]
    <3>a. /\ named \in [lease : Lease, revision : Nat, closed : BOOLEAN]
          /\ ~named.closed /\ named.revision = binding.revision
      BY <2>1, <3>1 DEF BindingTyped
    <3>b. binding' = [named EXCEPT !.revision = binding.revision + 1]
      BY <3>2
    <3> HIDE DEF named
    <3>3. /\ binding' \in [lease : Lease, revision : Nat, closed : BOOLEAN]
          /\ ~binding'.closed /\ binding'.revision = binding.revision + 1
      BY <3>a, <3>b
    <3>4. binding.revision \in Nat /\ binding'.revision # binding.revision
      BY <3>3 DEF BindingTyped
    <3>5. broken' = broken \cup InFlight
      BY <3>1, <3>2, <3>4 DEF Rebind, Breaks
    <3> QED  BY <1>1, <3>1, <3>3, <3>4, <3>5 DEF BindingTyped
  <2> QED  BY <2>2, <2>3
<1> QED  BY <1>2, <1>3

-----------------------------------------------------------------------------
\* Steps that leave the gates alone are such steps, if they treat the binding so.
LEMMA AsideFrame ==
  ASSUME GateTyped, UNCHANGED <<gateKind, gateVars>>, stopping => stopping',
         \/ UNCHANGED <<binding, broken>>
         \/ /\ broken' = broken \cup InFlight
            /\ binding.revision <= binding'.revision /\ (binding.closed => binding'.closed)
            /\ binding'.closed \/ stopping' \/ binding.revision < binding'.revision
  PROVE  Aside
BY DEF Aside, GateTyped, gateVars

LEMMA ClosingAside ==
  ASSUME GateTyped, BindingTyped, UNCHANGED <<gateKind, gateVars>>, stopping => stopping', CloseBinding
  PROVE  Aside
<1>1. /\ binding'.closed /\ binding'.revision = binding.revision /\ broken' = broken \cup InFlight
  BY BindingMoves
<1>2. binding.revision <= binding'.revision
  BY <1>1 DEF BindingTyped
<1> QED  BY <1>1, <1>2, AsideFrame

\* Giving up and the deferred release: the process ends, and the sidecar is told.
LEMMA AbandonAside ==
  ASSUME ProcessTyped, BindingTyped, GateTyped, ToldInv, Abandon \/ Release,
         main \notin {"start", "down"}
  PROVE  Aside /\ ProcessTyped' /\ BindingTyped' /\ ToldInv' /\ told = 0 /\ told' = 1
<1>1. CloseBinding /\ UNCHANGED <<gateKind, stopping, gateVars>>
  BY DEF Abandon, Release, sidecarVars
<1>2. Aside
  BY <1>1, ClosingAside
<1>3. BindingTyped'
  BY <1>1, BindingMoves
<1>4. ProcessTyped'
  <2>1. CASE Abandon
    BY <2>1 DEF Abandon, Goto, ProcessTyped, MainPCs, healthVars
  <2>2. CASE Release
    BY <2>2 DEF Release, Goto, ProcessTyped, MainPCs, healthVars, sidecarVars
  <2> QED  BY <2>1, <2>2
<1>5. told = 0 /\ told' = 1 /\ main' = "down"
  BY DEF ToldInv, Abandon, Release, Tell, Goto
<1> QED  BY <1>2, <1>3, <1>4, <1>5 DEF ToldInv

\* Every step beside the gates keeps the types and the account of what the sidecar
\* was told.
LEMMA ProcessSteps ==
  ASSUME Sane, ProcessTyped, BindingTyped, GateTyped, ToldInv, Process
  PROVE  Aside /\ ProcessTyped' /\ BindingTyped' /\ ToldInv' /\ EndsTold
<1> USE DEF processVars, sidecarVars, healthVars, Goto, ToldInv, EndsTold
<1>f. ASSUME UNCHANGED <<gateKind, stopping, gateVars, binding, broken>>
      PROVE  Aside /\ BindingTyped'
  BY <1>f, AsideFrame DEF BindingTyped
<1>a. ASSUME Abandon \/ Release, main \notin {"start", "down"}
      PROVE  Aside /\ ProcessTyped' /\ BindingTyped' /\ ToldInv' /\ EndsTold
  BY <1>a, AbandonAside
<1>1. CASE Dial
  BY <1>1, <1>f DEF Dial, ProcessTyped, MainPCs
<1>2. CASE Identify
  BY <1>2, <1>f, <1>a DEF Identify, ProcessTyped, MainPCs
<1>3. CASE OpenWatch
  <2>1. Opening \in Seq(Snapshot)
    BY DEF Opening, ProcessTyped
  <2> QED  BY <1>3, <1>f, <1>a, <2>1 DEF OpenWatch, ProcessTyped, MainPCs
<1>4. CASE Publish
  <2>1. CASE Abandon
    BY <1>4, <2>1, <1>a DEF Publish, Published
  <2>2. CASE ~Abandon
    <3>1. main \in {"envelope", "key", "label"}
      BY <1>4 DEF Publish, Published
    <3>2. /\ gs' = [gs EXCEPT !.meta = @ \cup {main}] /\ main' = AfterPublish[main] /\ Sends(gs')
          /\ UNCHANGED <<gateKind, stopping, told, edits, watch, observed, binding, healthVars,
                         gateVars, broken>>
      BY <1>4, <2>2 DEF Publish
    <3>3. gs' \in Snapshot
      BY <3>1, <3>2 DEF ProcessTyped, Snapshot, Published
    <3>4. main' \in {"key", "label", "observe"}
      BY <3>1, <3>2 DEF AfterPublish
    <3>5. stream' \in Seq(Snapshot)
      BY <3>2, <3>3 DEF Sends, ProcessTyped
    <3> QED  BY <3>1, <3>2, <3>3, <3>4, <3>5, <1>f DEF ProcessTyped, MainPCs
  <2> QED  BY <2>1, <2>2
<1>5. CASE Barrier
  BY <1>5, <1>f, <1>a DEF Barrier, ProcessTyped, MainPCs
<1>6. CASE Assemble
  BY <1>6, <1>f, <1>a DEF Assemble, ProcessTyped, MainPCs
<1>7. CASE MarkReady
  <2>1. gs' \in Snapshot /\ stream' \in Seq(Snapshot)
    <3>1. CASE UNCHANGED <<gs, stream>>
      BY <3>1 DEF ProcessTyped
    <3>2. CASE gs' = [gs EXCEPT !.state = "Ready"] /\ Sends(gs')
      <4>1. gs' \in Snapshot
        BY <3>2 DEF ProcessTyped, Snapshot
      <4> QED  BY <3>2, <4>1 DEF Sends, ProcessTyped
    <3> QED  BY <1>7, <3>1, <3>2 DEF MarkReady
  <2>2. main' \in {"loop", "drain"} /\ health' \in HealthPCs
    BY <1>7 DEF MarkReady, ProcessTyped, HealthPCs
  <2> QED  BY <1>7, <2>1, <2>2, <1>f DEF MarkReady, ProcessTyped, MainPCs
<1>8. CASE LeaveLoop
  BY <1>8, <1>f DEF LeaveLoop, ProcessTyped, MainPCs
<1>9. CASE Drain
  <2>1. ProcessTyped' /\ BindingTyped' /\ ToldInv' /\ EndsTold
    BY <1>9 DEF Drain, ProcessTyped, MainPCs, BindingTyped
  <2>2. /\ claim' \in [Handlers -> Asking]
        /\ \A h \in Handlers : /\ claim'[h].pc = claim[h].pc /\ claim'[h].lease = claim[h].lease
                               /\ claim'[h].revision = claim[h].revision
                               /\ claim'[h].receipt = claim[h].receipt
    BY <1>9 DEF Drain, GateTyped, Asking
  <2> QED  BY <1>9, <2>1, <2>2 DEF Drain, Aside
<1>10. CASE Leave
  <2>1. CASE health = "none"
    BY <1>10, <2>1, <1>a DEF Leave
  <2>2. CASE health # "none"
    <3>1. CloseBinding /\ UNCHANGED <<gateKind, stopping, gateVars>>
      BY <1>10, <2>2 DEF Leave
    <3> QED  BY <1>10, <2>2, <3>1, ClosingAside, BindingMoves DEF Leave, ProcessTyped, MainPCs
  <2> QED  BY <2>1, <2>2
<1>11. CASE Halt
  BY <1>11, <1>f DEF Halt, Tell, ProcessTyped, MainPCs
<1> QED
  BY <1>1, <1>2, <1>3, <1>4, <1>5, <1>6, <1>7, <1>8, <1>9, <1>10, <1>11 DEF Process

LEMMA BesideSteps ==
  ASSUME Sane, ProcessTyped, BindingTyped, GateTyped, ToldInv, HealthLoop \/ Sidecar \/ Signal
  PROVE  Aside /\ ProcessTyped' /\ BindingTyped' /\ ToldInv' /\ EndsTold
<1> USE DEF processVars, sidecarVars, healthVars
<1>1. CASE HealthLoop
  <2>1. CASE BeatFails
    BY <2>1, ClosingAside, BindingMoves DEF BeatFails, ProcessTyped, HealthPCs, ToldInv, EndsTold
  <2>2. CASE DialAnswers \/ DialAbandoned \/ HeartStops
    BY <2>2, AsideFrame
    DEF DialAnswers, DialAbandoned, HeartStops, ProcessTyped, BindingTyped, HealthPCs, ToldInv, EndsTold
  <2> QED  BY <1>1, <2>1, <2>2 DEF HealthLoop
<1>2. CASE Deliver
  <2>1. Head(stream) \in Snapshot /\ Tail(stream) \in Seq(Snapshot)
    BY <1>2 DEF Deliver, ProcessTyped
  <2>2. Observe(Head(stream))
    BY <1>2 DEF Deliver
  <2>3. /\ BindingTyped'
        /\ \/ UNCHANGED <<binding, broken>>
           \/ broken' = broken \cup InFlight /\ ~binding.closed /\ binding.revision < binding'.revision
    BY <2>1, <2>2, BindingMoves
  <2>4. Aside
    BY <1>2, <2>3, AsideFrame DEF Deliver, BindingTyped
  <2> QED  BY <1>2, <2>1, <2>3, <2>4 DEF Deliver, ProcessTyped, ToldInv, EndsTold
<1>3. CASE WatchEnds
  BY <1>3, ClosingAside, BindingMoves DEF WatchEnds, ProcessTyped, ToldInv, EndsTold
<1>4. CASE Edit
  <2>1. gs' \in Snapshot
    BY <1>4 DEF Edit, ProcessTyped, Snapshot, Lease
  <2>0. edits > 0 /\ edits' = edits - 1 /\ Sends(gs')
    BY <1>4 DEF Edit
  <2>2. stream' \in Seq(Snapshot)
    BY <2>0, <2>1 DEF Sends, ProcessTyped
  <2>3. edits' \in 0..MaxEdits
    BY <2>0 DEF ProcessTyped, Sane
  <2> QED
    BY <1>4, <2>1, <2>2, <2>3, AsideFrame
    DEF Edit, ProcessTyped, BindingTyped, ToldInv, EndsTold
<1>5. CASE Signal
  BY <1>5, AsideFrame DEF Signal, ProcessTyped, BindingTyped, InFlight, ToldInv, EndsTold
<1> QED  BY <1>1, <1>2, <1>3, <1>4, <1>5 DEF Sidecar

\* The gates keep what they hold, and so does the account of who was interrupted.
LEMMA AsideKeeps ==
  ASSUME BindingTyped, BindingTyped', GateTyped, BindingInv, GateInv, Aside
  PROVE  GateTyped' /\ BindingInv' /\ GateInv' /\ KeepsLifetime /\ AdmitsUnbroken
<1>1. InFlight' = InFlight
  BY DEF Aside, InFlight
<1>2. GateTyped'
  BY DEF Aside, GateTyped
<1>3. InFlight \subseteq Handlers
  BY DEF InFlight
<1>4. BindingInv'
  <2>1. \A h \in InFlight : claim'[h].revision = claim[h].revision /\ claim[h].revision \in Nat
    BY <1>3 DEF Aside, GateTyped, Asking
  <2>2. binding.revision \in Nat /\ binding'.revision \in Nat
    BY DEF BindingTyped
  <2>3. binding.revision <= binding'.revision /\ (binding.closed => binding'.closed)
        /\ (stopping => stopping')
    BY <2>2 DEF Aside
  <2>4. \A h \in InFlight : claim'[h].revision <= binding'.revision
    BY <2>1, <2>2, <2>3 DEF BindingInv
  <2>5. ASSUME NEW h \in broken'
        PROVE  binding'.closed \/ stopping' \/ claim'[h].revision < binding'.revision
    <3>0. h \in InFlight /\ claim[h].revision <= binding.revision
      BY <2>5 DEF Aside, BindingInv
    <3>1. CASE UNCHANGED <<binding, broken>>
      BY <2>1, <2>2, <2>3, <2>5, <3>0, <3>1 DEF BindingInv
    <3>2. CASE binding'.closed \/ stopping' \/ binding.revision < binding'.revision
      BY <2>1, <2>2, <3>0, <3>2
    <3> QED  BY <3>1, <3>2 DEF Aside
  <2>6. broken' \subseteq InFlight
    BY DEF Aside, BindingInv
  <2> QED  BY <1>1, <2>4, <2>5, <2>6 DEF BindingInv
<1>5. GateInv'
  BY DEF Aside, GateInv, HolderInv, CustodyInv, Custodied
<1>6. KeepsLifetime /\ AdmitsUnbroken
  BY DEF Aside, KeepsLifetime, AdmitsUnbroken
<1> QED  BY <1>2, <1>4, <1>5, <1>6

-----------------------------------------------------------------------------
\* What every step of an admission keeps.
Kept == GateTyped' /\ BindingTyped' /\ BindingInv' /\ GateInv' /\ KeepsLifetime /\ AdmitsUnbroken

LEMMA OthersKeep ==
  ASSUME ProcessTyped, ToldInv, Others
  PROVE  ProcessTyped' /\ ToldInv' /\ EndsTold
BY DEF Others, processVars, sidecarVars, healthVars, ProcessTyped, ToldInv, EndsTold

\* The blank admission.
LEMMA Blank == NoReceipt \in Receipt /\ NoClaim \in Asking /\ NoClaim.pc = "idle"
BY DEF NoReceipt, NoClaim, Receipt, Asking, Lease, Observer, ClaimPCs

\* One admission moves, the rest stand still; its own move is judged apart.
LEMMA OneMoves ==
  ASSUME NEW h \in Handlers, BindingTyped, BindingInv, Others,
         \A k \in Handlers \ {h} : claim'[k] = claim[k],
         broken' = broken \/ broken' = broken \ {h},
         claim'[h].pc \in {"ask", "retain", "check"} =>
           IF h \in InFlight THEN claim'[h].revision = claim[h].revision
                             ELSE claim'[h].revision = binding.revision,
         claim'[h].pc \notin {"ask", "retain", "check"} => h \notin broken'
  PROVE  BindingTyped' /\ BindingInv'
<1>1. BindingTyped' /\ UNCHANGED <<binding, stopping>>
  BY DEF Others, processVars, BindingTyped
<1>2. broken' \subseteq InFlight' /\ broken' \subseteq broken
  BY DEF BindingInv, InFlight
<1>3. ASSUME NEW k \in InFlight'
      PROVE  /\ claim'[k].revision <= binding'.revision
             /\ k \in broken' => binding'.closed \/ stopping' \/ claim'[k].revision < binding'.revision
  <2>1. k \in Handlers /\ claim'[k].pc \in {"ask", "retain", "check"}
    BY <1>3 DEF InFlight
  <2>2. CASE k \in InFlight
    <3>1. claim'[k].revision = claim[k].revision
      BY <2>1, <2>2
    <3> QED  BY <1>1, <1>2, <2>2, <3>1 DEF BindingInv
  <2>3. CASE k \notin InFlight
    <3>1. k = h
      BY <2>1, <2>3 DEF InFlight
    <3>2. claim'[k].revision = binding.revision /\ k \notin broken'
      BY <1>2, <2>1, <2>3, <3>1 DEF BindingInv
    <3> QED  BY <1>1, <3>2 DEF BindingTyped
  <2> QED  BY <2>2, <2>3
<1> QED  BY <1>1, <1>2, <1>3 DEF BindingInv

\* Leaving a gate: the slot is free again, and what the gate holds stays, also when
\* the custody of its receipt was attempted on the way.
LEMMA LeavesKeeps ==
  ASSUME Sane, NEW h \in Handlers, BindingTyped, GateTyped, BindingInv, GateInv, Others,
         Leaves(h, "idle"), UNCHANGED firstAsked,
         custody' \in [attempted : BOOLEAN, stored : Receipt],
         custody.attempted => custody'.attempted,
         custody'.stored \in {custody.stored, gate.receipt}
  PROVE  Kept
<1>1. /\ \A k \in Handlers \ {h} : claim'[k] = claim[k]
      /\ claim'[h] = [NoClaim EXCEPT !.pc = "idle"] /\ broken' = broken \ {h}
  BY DEF Leaves, GateTyped
<1>2. claim'[h].pc = "idle"
  BY <1>1 DEF NoClaim
<1>3. BindingTyped' /\ BindingInv'
  BY <1>1, <1>2, OneMoves
<1>4. /\ gate'.holder = IF gate.holder = h THEN None ELSE gate.holder
      /\ gate'.captured = gate.captured /\ gate'.uncertain = gate.uncertain
      /\ gate'.receipt = gate.receipt
      /\ gate' \in [holder : Handlers \cup {None}, uncertain : BOOLEAN, captured : BOOLEAN, receipt : Receipt]
  BY DEF Leaves, GateTyped
<1>5. GateTyped'
  <2>1. [NoClaim EXCEPT !.pc = "idle"] \in Asking
    BY Blank DEF Asking, ClaimPCs
  <2>2. claim' = [claim EXCEPT ![h] = [NoClaim EXCEPT !.pc = "idle"]]
    BY DEF Leaves
  <2> QED  BY <1>4, <2>1, <2>2 DEF GateTyped
<1>6. UNCHANGED <<gateKind, binding>>
  BY DEF Others, processVars
<1>7. HolderInv'
  BY <1>1, <1>2, <1>4, <1>6 DEF GateInv, HolderInv
<1>8. CustodyInv'
  BY <1>1, <1>2, <1>4, <1>6 DEF GateInv, CustodyInv, Custodied
<1>9. KeepsLifetime /\ AdmitsUnbroken
  BY <1>1, <1>2, <1>4 DEF KeepsLifetime, AdmitsUnbroken
<1> QED  BY <1>3, <1>5, <1>7, <1>8, <1>9 DEF Kept, GateInv

LEMMA RefuseKeeps ==
  ASSUME Sane, NEW h \in Handlers, BindingTyped, GateTyped, BindingInv, GateInv, Others, Refuse(h)
  PROVE  Kept
BY LeavesKeeps DEF Refuse, GateTyped

\* An admission moves to label, its lease, revision and receipt kept, and the gate
\* as it is: it queues, ends its wait, or reaches the check.
LEMMA ArriveKeeps ==
  ASSUME Sane, NEW h \in Handlers, BindingTyped, GateTyped, BindingInv, GateInv, Arrive(h) \/ Expire(h)
  PROVE  Kept
<1>1. Others /\ UNCHANGED <<gate, custody, firstAsked, broken>>
  BY DEF Arrive, Expire
<1>2. UNCHANGED <<gateKind, binding>>
  BY <1>1 DEF Others, processVars
<1>3. CASE Arrive(h)
  <2>1. PICK o \in Observers :
          claim' = [claim EXCEPT ![h] = [NoClaim EXCEPT !.pc = "queue", !.observer = o]]
    BY <1>3 DEF Arrive
  <2>2. [NoClaim EXCEPT !.pc = "queue", !.observer = o] \in Asking
        /\ [NoClaim EXCEPT !.pc = "queue", !.observer = o].pc = "queue"
    <3> DEFINE queued == [NoClaim EXCEPT !.pc = "queue"]
    <3>1. queued \in Asking /\ queued.pc = "queue"
      BY Blank DEF Asking, ClaimPCs
    <3>2. o \in Observer
      BY DEF Observer
    <3> HIDE DEF queued
    <3>3. [queued EXCEPT !.observer = o] \in Asking /\ [queued EXCEPT !.observer = o].pc = "queue"
      BY <3>1, <3>2 DEF Asking
    <3> QED  BY <3>3 DEF queued
  <2>3. GateTyped'
    BY <1>1, <2>1, <2>2 DEF GateTyped
  <2>4. /\ \A k \in Handlers \ {h} : claim'[k] = claim[k]
        /\ claim'[h].pc = "queue" /\ claim[h].pc = "idle"
    BY <1>3, <2>1, <2>2 DEF GateTyped, Arrive
  <2>5. h \notin broken
    BY <2>4 DEF BindingInv, InFlight
  <2>6. BindingTyped' /\ BindingInv'
    BY <1>1, <2>4, <2>5, OneMoves
  <2>7. GateInv'
    BY <1>1, <1>2, <2>4 DEF GateInv, HolderInv, CustodyInv, Custodied
  <2> QED  BY <1>1, <2>3, <2>4, <2>6, <2>7 DEF Kept, KeepsLifetime, AdmitsUnbroken
<1>4. CASE Expire(h)
  <2>1. claim' = [claim EXCEPT ![h].late = TRUE]
    BY <1>4 DEF Expire
  <2>2. GateTyped'
    BY <1>1, <2>1 DEF GateTyped, Asking
  <2>3. \A k \in Handlers : /\ claim'[k].pc = claim[k].pc /\ claim'[k].lease = claim[k].lease
                            /\ claim'[k].revision = claim[k].revision
                            /\ claim'[k].receipt = claim[k].receipt
    BY <2>1 DEF GateTyped, Asking
  <2>4. Aside
    BY <1>1, <1>2, <2>2, <2>3 DEF Aside, GateTyped, Others, processVars
  <2>5. BindingTyped'
    BY <1>1, <1>2 DEF BindingTyped
  <2> QED  BY <2>4, <2>5, AsideKeeps DEF Kept
<1> QED  BY <1>3, <1>4

\* Entering: the first question of a custodied gate latches it before it is asked.
LEMMA EnterKeeps ==
  ASSUME Sane, NEW h \in Handlers, BindingTyped, GateTyped, BindingInv, GateInv, Enter(h)
  PROVE  Kept
<1>0. Others /\ claim[h].pc = "queue"
  BY DEF Enter
<1>1. CASE Refuse(h)
  BY <1>0, <1>1, RefuseKeeps
<1>2. CASE ~Refuse(h)
  <2>1. /\ gateKind # "plain" => gate.holder = None
        /\ ~gate.uncertain /\ Bound
        /\ gate.captured => gate.receipt.lease = binding.lease
        /\ claim' = [claim EXCEPT ![h].pc = "ask", ![h].lease = binding.lease,
                                  ![h].revision = binding.revision]
        /\ gate' = IF gateKind = "plain" THEN gate ELSE [Latch EXCEPT !.holder = h]
        /\ firstAsked' = IF firstAsked = None THEN binding.lease ELSE firstAsked
        /\ UNCHANGED <<custody, broken>>
    BY <1>2 DEF Enter, Matches
  <2>2. /\ \A k \in Handlers \ {h} : claim'[k] = claim[k]
        /\ claim'[h].pc = "ask" /\ claim'[h].lease = binding.lease
        /\ claim'[h].revision = binding.revision
    BY <2>1 DEF GateTyped, Asking
  <2>3. gate' \in [holder : Handlers \cup {None}, uncertain : BOOLEAN, captured : BOOLEAN, receipt : Receipt]
    BY <2>1 DEF GateTyped, Latch
  <2>4. gateKind # "plain" =>
          /\ gate'.holder = h /\ gate'.captured = gate.captured /\ gate'.receipt = gate.receipt
          /\ gate'.uncertain = (Custodied /\ ~gate.captured)
    BY <2>1 DEF GateTyped, Latch
  <2>5. GateTyped'
    <3>1. binding.lease \in Lease /\ binding.revision \in Nat
      BY DEF BindingTyped
    <3> DEFINE c == claim[h]
               c1 == [c EXCEPT !.pc = "ask"]
               c2 == [c1 EXCEPT !.lease = binding.lease]
               c3 == [c2 EXCEPT !.revision = binding.revision]
    <3>a. c \in Asking
      BY DEF GateTyped
    <3>b. c1 \in Asking
      BY <3>a DEF Asking, ClaimPCs
    <3>c. c2 \in Asking
      BY <3>b, <3>1 DEF Asking
    <3>d. c3 \in Asking
      BY <3>c, <3>1 DEF Asking
    <3>e. claim'[h] = c3
      BY <2>1 DEF GateTyped
    <3>f. claim' = [claim EXCEPT ![h] = claim'[h]]
      BY <2>1 DEF GateTyped
    <3>2. claim' \in [Handlers -> Asking]
      BY <3>d, <3>e, <3>f DEF GateTyped
    <3> QED  BY <2>1, <2>3, <3>2 DEF GateTyped
  <2>6. h \notin InFlight
    BY <1>0 DEF InFlight
  <2>7. BindingTyped' /\ BindingInv'
    BY <1>0, <2>1, <2>2, <2>6, OneMoves
  <2>8. UNCHANGED <<gateKind, binding>>
    BY <1>0 DEF Others, processVars
  <2>9. gateKind # "plain" => \A k \in Handlers : claim[k].pc \notin {"ask", "retain", "check"}
    BY <2>1 DEF GateInv, HolderInv, Sane
  <2>10. HolderInv'
    BY <1>0, <2>2, <2>4, <2>8, <2>9 DEF GateInv, HolderInv
  <2>11. CustodyInv'
    <3>1. SUFFICES ASSUME Custodied PROVE CustodyInv'
      BY <2>8 DEF CustodyInv, Custodied
    <3>2. gateKind # "plain" /\ Custodied'
      BY <2>8, <3>1 DEF Custodied
    <3>3. binding.lease # None
      BY <2>1 DEF Bound
    <3>4. gate.captured => gate.receipt.lease = firstAsked /\ firstAsked' = firstAsked
      BY <2>1, <3>1, <3>3 DEF GateInv, CustodyInv
    <3>5. ~gate.captured => firstAsked' = binding.lease
      BY <2>1, <3>1 DEF GateInv, CustodyInv
    <3>6. \A k \in Handlers : claim[k].pc = "admitted" => gate.captured
      BY <3>2 DEF GateInv, HolderInv
    <3>7. /\ gate'.uncertain = ~gate.captured /\ gate'.captured = gate.captured
          /\ gate'.receipt = gate.receipt
      BY <2>4, <3>1, <3>2
    <3>8. /\ gate'.captured => gate'.receipt.lease = firstAsked'
          /\ gate'.captured /\ ~gate'.uncertain => custody'.attempted /\ custody'.stored = gate'.receipt
      BY <2>1, <3>1, <3>4, <3>7 DEF GateInv, CustodyInv
    <3>9. ASSUME NEW k \in Handlers
          PROVE  /\ claim'[k].pc = "ask" => gate'.uncertain = ~gate'.captured
                 /\ claim'[k].pc = "ask" /\ ~gate'.captured => claim'[k].lease = firstAsked'
                 /\ claim'[k].pc \in {"check", "admitted"} => ~gate'.uncertain
      <4>1. CASE k = h
        BY <2>2, <3>5, <3>7, <4>1
      <4>2. CASE k # h
        BY <2>2, <2>9, <3>2, <3>6, <3>7, <4>2
      <4> QED  BY <4>1, <4>2
    <3> QED  BY <3>7, <3>8, <3>9 DEF CustodyInv
  <2>12. KeepsLifetime /\ AdmitsUnbroken
    BY <2>1, <2>2, <2>4 DEF KeepsLifetime, AdmitsUnbroken
  <2> QED  BY <2>5, <2>7, <2>10, <2>11, <2>12 DEF Kept, GateInv
<1> QED  BY <1>1, <1>2

\* The answer: the first receipt is of the first lease asked for.
LEMMA AskKeeps ==
  ASSUME Sane, NEW h \in Handlers, BindingTyped, GateTyped, BindingInv, GateInv, Ask(h)
  PROVE  Kept
<1>0. Others /\ claim[h].pc = "ask"
  BY DEF Ask
<1>1. CASE Refuse(h)
  BY <1>0, <1>1, RefuseKeeps
<1>2. CASE ~Refuse(h)
  <2>1. PICK g \in 1..2 : Answered(h, [lease |-> claim[h].lease, observer |-> claim[h].observer,
                                       generation |-> g])
    BY <1>2 DEF Ask
  <2> DEFINE r == [lease |-> claim[h].lease, observer |-> claim[h].observer, generation |-> g]
  <2>2. r \in Receipt /\ r.lease = claim[h].lease
    BY DEF GateTyped, Asking, Receipt
  <2>3. Answered(h, r)
    BY <2>1
  <2> HIDE DEF r
  <2>4. UNCHANGED <<gateKind, binding, stopping>>
    BY <1>0 DEF Others, processVars
  <2>5. UNCHANGED <<custody, firstAsked, broken>>
    BY <1>2, <2>3 DEF Answered
  <2>6. CASE gateKind = "plain"
    <3>1. claim' = [claim EXCEPT ![h].pc = "check"] /\ UNCHANGED gate
      BY <2>3, <2>6 DEF Answered, Moves
    <3>2. /\ \A k \in Handlers \ {h} : claim'[k] = claim[k]
          /\ claim'[h].pc = "check" /\ claim'[h].revision = claim[h].revision
          /\ claim' \in [Handlers -> Asking]
      BY <3>1 DEF GateTyped, Asking, ClaimPCs
    <3>3. h \in InFlight
      BY <1>0 DEF InFlight
    <3>4. BindingTyped' /\ BindingInv'
      BY <1>0, <2>5, <3>2, <3>3, OneMoves
    <3>5. GateInv'
      BY <2>4, <2>6 DEF GateInv, HolderInv, CustodyInv, Custodied
    <3>6. KeepsLifetime /\ AdmitsUnbroken
      BY <3>1, <3>2 DEF KeepsLifetime, AdmitsUnbroken
    <3>7. GateTyped'
      BY <2>5, <3>1, <3>2 DEF GateTyped
    <3> QED  BY <3>4, <3>5, <3>6, <3>7 DEF Kept
  <2>7. CASE gateKind # "plain"
    <3> DEFINE to == IF Custodied /\ ~gate.captured THEN "retain" ELSE "check"
    <3>1. /\ SameLifetime(r) /\ gate' = Capture(r)
          /\ claim' = [claim EXCEPT ![h].receipt = r, ![h].pc = to]
      BY <1>2, <2>3, <2>7 DEF Answered
    <3>2. /\ \A k \in Handlers \ {h} : claim'[k] = claim[k]
          /\ claim'[h].pc = to /\ claim'[h].revision = claim[h].revision
          /\ claim'[h].receipt = r /\ claim'[h].lease = claim[h].lease
          /\ claim' \in [Handlers -> Asking]
      <4> DEFINE c  == claim[h]
                 c1 == [c EXCEPT !.receipt = r]
                 c2 == [c1 EXCEPT !.pc = to]
      <4>1. c \in Asking /\ to \in ClaimPCs
        BY DEF GateTyped, ClaimPCs
      <4>2. c1 \in Asking /\ c1.receipt = r /\ c1.revision = c.revision /\ c1.lease = c.lease
        BY <2>2, <4>1 DEF Asking
      <4> HIDE DEF c1
      <4>3. /\ c2 \in Asking /\ c2.pc = to /\ c2.receipt = r
            /\ c2.revision = c.revision /\ c2.lease = c.lease
        BY <4>1, <4>2 DEF Asking
      <4>4. claim' = [claim EXCEPT ![h] = c2]
        BY <3>1 DEF GateTyped, c1
      <4> HIDE DEF c2
      <4> QED  BY <4>3, <4>4 DEF GateTyped
    <3>3. h \in InFlight /\ claim'[h].pc \in {"retain", "check"}
      BY <1>0, <3>2 DEF InFlight
    <3>4. BindingTyped' /\ BindingInv'
      BY <1>0, <2>5, <3>2, <3>3, OneMoves
    <3>5. gate.holder = h /\ \A k \in Handlers \ {h} : claim[k].pc \notin {"ask", "retain", "check"}
      BY <1>0, <2>7 DEF GateInv, HolderInv
    <3>6. /\ gate' \in [holder : Handlers \cup {None}, uncertain : BOOLEAN, captured : BOOLEAN, receipt : Receipt]
          /\ gate'.holder = h /\ gate'.captured /\ gate'.uncertain = gate.uncertain /\ gate'.receipt = r
          /\ gate.captured => gate'.receipt = gate.receipt
      BY <2>2, <3>1, <3>5 DEF SameLifetime, Capture, GateTyped
    <3>7. \A k \in Handlers \ {h} : claim[k].pc = "admitted" => gate.captured /\ claim[k].receipt = gate.receipt
      BY <2>7 DEF GateInv, HolderInv
    <3>8. HolderInv'
      BY <3>2, <3>3, <3>5, <3>6, <3>7 DEF HolderInv
    <3>9. CustodyInv'
      <4>1. SUFFICES ASSUME Custodied PROVE CustodyInv'
        BY <2>4 DEF CustodyInv, Custodied
      <4>2. gate.uncertain = ~gate.captured /\ (~gate.captured => r.lease = firstAsked)
        BY <1>0, <2>2, <4>1 DEF GateInv, CustodyInv
      <4>3. CASE gate.captured
        BY <2>5, <3>2, <3>5, <3>6, <4>1, <4>2, <4>3 DEF GateInv, CustodyInv
      <4>4. CASE ~gate.captured
        BY <2>5, <3>2, <3>5, <3>6, <3>7, <4>1, <4>2, <4>4 DEF GateInv, CustodyInv
      <4> QED  BY <4>3, <4>4
    <3>10. KeepsLifetime /\ AdmitsUnbroken
      BY <3>2, <3>3, <3>6 DEF KeepsLifetime, AdmitsUnbroken
    <3>11. GateTyped'
      BY <2>5, <3>2, <3>6 DEF GateTyped
    <3> QED  BY <3>4, <3>8, <3>9, <3>10, <3>11 DEF Kept, GateInv
  <2> QED  BY <2>6, <2>7
<1> QED  BY <1>1, <1>2

\* Custody first, then the gate is certain again.
LEMMA RetainKeeps ==
  ASSUME Sane, NEW h \in Handlers, BindingTyped, GateTyped, BindingInv, GateInv, Retain(h)
  PROVE  Kept
<1>0. Others /\ claim[h].pc = "retain" /\ UNCHANGED firstAsked
  BY DEF Retain
<1>1. /\ custody' \in [attempted : BOOLEAN, stored : Receipt]
      /\ custody.attempted => custody'.attempted
      /\ custody'.stored \in {custody.stored, gate.receipt}
  BY DEF Retain, GateTyped
<1>2. CASE Leaves(h, "idle")
  BY <1>0, <1>1, <1>2, LeavesKeeps
<1>3. CASE ~Leaves(h, "idle")
  <2>1. /\ custody' = [custody EXCEPT !.attempted = TRUE, !.stored = gate.receipt]
        /\ claim' = [claim EXCEPT ![h].pc = "check"] /\ gate' = [gate EXCEPT !.uncertain = FALSE]
        /\ UNCHANGED broken
    BY <1>3 DEF Retain, Moves
  <2>2. /\ \A k \in Handlers \ {h} : claim'[k] = claim[k]
        /\ claim'[h].pc = "check" /\ claim'[h].revision = claim[h].revision
        /\ claim'[h].receipt = claim[h].receipt /\ claim' \in [Handlers -> Asking]
    BY <2>1 DEF GateTyped, Asking, ClaimPCs
  <2>3. /\ gate' \in [holder : Handlers \cup {None}, uncertain : BOOLEAN, captured : BOOLEAN, receipt : Receipt]
        /\ gate'.holder = gate.holder /\ gate'.captured = gate.captured /\ ~gate'.uncertain
        /\ gate'.receipt = gate.receipt
        /\ custody'.attempted /\ custody'.stored = gate.receipt
    BY <2>1 DEF GateTyped
  <2>4. GateTyped'
    BY <1>1, <2>2, <2>3 DEF GateTyped
  <2>5. h \in InFlight
    BY <1>0 DEF InFlight
  <2>6. BindingTyped' /\ BindingInv'
    BY <1>0, <2>1, <2>2, <2>5, OneMoves
  <2>7. UNCHANGED <<gateKind, binding>>
    BY <1>0 DEF Others, processVars
  <2>8. HolderInv'
    BY <1>0, <2>2, <2>3, <2>7 DEF GateInv, HolderInv
  <2>9. gateKind # "plain" => gate.captured /\ \A k \in Handlers \ {h} : claim[k].pc # "ask"
    BY <1>0 DEF GateInv, HolderInv
  <2>10. CustodyInv'
    BY <1>0, <2>2, <2>3, <2>7, <2>9 DEF GateInv, CustodyInv, Custodied
  <2>11. KeepsLifetime /\ AdmitsUnbroken
    BY <2>2, <2>3 DEF KeepsLifetime, AdmitsUnbroken
  <2> QED  BY <2>4, <2>6, <2>8, <2>10, <2>11 DEF Kept, GateInv
<1> QED  BY <1>2, <1>3

\* The check admits nobody whose binding changed.
LEMMA CheckKeeps ==
  ASSUME Sane, NEW h \in Handlers, BindingTyped, GateTyped, BindingInv, GateInv, Check(h)
  PROVE  Kept
<1>0. Others /\ claim[h].pc = "check"
  BY DEF Check
<1>1. CASE Refuse(h)
  BY <1>0, <1>1, RefuseKeeps
<1>2. CASE ~Refuse(h)
  <2>1. /\ Current(claim[h]) /\ claim' = [claim EXCEPT ![h].pc = "admitted"]
        /\ gate' = IF gate.holder = h THEN [gate EXCEPT !.holder = None] ELSE gate
        /\ UNCHANGED <<custody, firstAsked, broken>>
    BY <1>2 DEF Check
  <2>2. ~stopping /\ h \notin broken
    <3>1. ~stopping /\ ~binding.closed /\ binding.revision = claim[h].revision
      BY <2>1 DEF Current, Bound, Live
    <3>2. binding.revision \in Nat
      BY DEF BindingTyped
    <3> QED  BY <3>1, <3>2 DEF BindingInv
  <2>3. /\ \A k \in Handlers \ {h} : claim'[k] = claim[k]
        /\ claim'[h].pc = "admitted" /\ claim'[h].receipt = claim[h].receipt
        /\ claim' \in [Handlers -> Asking]
    BY <2>1 DEF GateTyped, Asking, ClaimPCs
  <2>4. /\ gate' \in [holder : Handlers \cup {None}, uncertain : BOOLEAN, captured : BOOLEAN, receipt : Receipt]
        /\ gate'.holder = IF gate.holder = h THEN None ELSE gate.holder
        /\ gate'.captured = gate.captured /\ gate'.uncertain = gate.uncertain
        /\ gate'.receipt = gate.receipt
    BY <2>1 DEF GateTyped
  <2>5. GateTyped'
    BY <2>1, <2>3, <2>4 DEF GateTyped
  <2>6. BindingTyped' /\ BindingInv'
    BY <1>0, <2>1, <2>2, <2>3, OneMoves
  <2>7. UNCHANGED <<gateKind, binding>>
    BY <1>0 DEF Others, processVars
  <2>8. HolderInv'
    BY <1>0, <2>3, <2>4, <2>7 DEF GateInv, HolderInv
  <2>9. CustodyInv'
    BY <1>0, <2>1, <2>3, <2>4, <2>7 DEF GateInv, CustodyInv, Custodied
  <2>10. KeepsLifetime
    <3>1. gateKind # "plain" => gate.captured /\ claim[h].receipt = gate.receipt
      BY <1>0 DEF GateInv, HolderInv
    <3>2. Custodied => gateKind # "plain"
      BY DEF Custodied
    <3> QED  BY <2>3, <2>4, <3>1, <3>2 DEF KeepsLifetime, GateInv, CustodyInv
  <2>11. AdmitsUnbroken
    BY <2>2, <2>3 DEF AdmitsUnbroken
  <2> QED  BY <2>5, <2>6, <2>8, <2>9, <2>10, <2>11 DEF Kept, GateInv
<1> QED  BY <1>1, <1>2

-----------------------------------------------------------------------------
LEMMA Initially ==
  ASSUME Sane, Init
  PROVE  IInv
<1>1. ProcessTyped
  <2>1. gs \in Snapshot
    BY DEF Init, Snapshot, Lease, Published
  <2>2. edits \in 0..MaxEdits
    BY DEF Init, Sane
  <2>3. stream \in Seq(Snapshot)
    BY DEF Init
  <2>4. main \in MainPCs /\ health \in HealthPCs
    BY DEF Init, MainPCs, HealthPCs
  <2>5. gateKind \in {"plain", "receipt", "custody"} /\ stopping \in BOOLEAN /\ halted \in BOOLEAN
        /\ watch \in {"none", "open", "ended"}
    BY DEF Init
  <2> QED  BY <2>1, <2>2, <2>3, <2>4, <2>5 DEF ProcessTyped
<1>2. NoReceipt \in Receipt /\ NoClaim \in Asking /\ NoClaim.pc = "idle"
  BY Blank
<1>3. BindingTyped
  BY DEF Init, BindingTyped, Lease
<1>4. GateTyped
  BY <1>2 DEF Init, GateTyped
<1>5. \A h \in Handlers : claim[h].pc = "idle"
  BY <1>2 DEF Init
<1>6. BindingInv
  BY <1>5 DEF Init, BindingInv, InFlight
<1>7. GateInv
  BY <1>5 DEF Init, GateInv, HolderInv, CustodyInv
<1> QED  BY <1>1, <1>3, <1>4, <1>6, <1>7 DEF Init, IInv, ToldInv

\* A step of the process keeps the invariant, and so every action property holds of it.
Promised == EndsTold /\ AdmitsUnbroken /\ KeepsLifetime

LEMMA Inductive ==
  ASSUME Sane, IInv, [Next]_vars
  PROVE  IInv' /\ [Promised]_vars
<1> USE DEF IInv, Promised
<1>1. CASE Process \/ HealthLoop \/ Sidecar \/ Signal
  <2>1. Aside /\ ProcessTyped' /\ BindingTyped' /\ ToldInv' /\ EndsTold
    BY <1>1, ProcessSteps, BesideSteps
  <2> QED  BY <2>1, AsideKeeps
<1>2. ASSUME NEW h \in Handlers, Admission(h)
      PROVE  IInv' /\ Promised
  <2>1. Others
    BY <1>2 DEF Admission, Arrive, Expire, Enter, Ask, Retain, Check, Depart
  <2>2. CASE Depart(h)
    BY <2>1, <2>2, RefuseKeeps, OthersKeep DEF Depart, Kept
  <2>3. CASE ~Depart(h)
    BY <1>2, <2>1, <2>3, ArriveKeeps, EnterKeeps, AskKeeps, RetainKeeps, CheckKeeps, OthersKeep
    DEF Admission, Kept
  <2> QED  BY <2>2, <2>3
<1>3. CASE UNCHANGED vars
  <2>1. UNCHANGED <<gateKind, gateVars>> /\ UNCHANGED <<binding, broken, stopping>>
    BY <1>3 DEF vars, processVars
  <2>2. ProcessTyped' /\ ToldInv' /\ BindingTyped'
    BY <1>3 DEF vars, processVars, sidecarVars, healthVars, ProcessTyped, ToldInv, BindingTyped
  <2>3. Aside
    BY <2>1, AsideFrame
  <2> QED  BY <1>3, <2>2, <2>3, AsideKeeps
<1> QED  BY <1>1, <1>2, <1>3 DEF Next

LEMMA Invariantly == Sane => (Spec => []IInv /\ [][Promised]_vars)
<1> SUFFICES ASSUME Sane PROVE Spec => []IInv /\ [][Promised]_vars
  OBVIOUS
<1>1. Init => IInv
  BY Initially
<1>2. IInv /\ [Next]_vars => IInv'
  BY Inductive
<1>3. IInv /\ [Next]_vars => [Promised]_vars
  BY Inductive
<1> QED  BY <1>1, <1>2, <1>3, PTL DEF Spec

\* Type correctness of the zone process, its conversation with the sidecar and its gates.
THEOREM LifecycleTypeOK == Sane => (Spec => []TypeOK)
<1>1. IInv => TypeOK
  BY DEF IInv, ProcessTyped, BindingTyped, GateTyped, ToldInv, TypeOK, Snapshot, Asking, Lease
<1> QED  BY <1>1, Invariantly, PTL

\* Whichever step of the zone's start, service or end fails, the process that reached
\* the sidecar tells it once, at its end, to recycle the GameServer.
THEOREM SidecarHearsOnce == Sane => (Spec => SidecarToldOnce)
<1>1. [Promised]_vars => [EndsTold]_vars
  BY DEF Promised
<1> QED  BY <1>1, Invariantly, PTL DEF SidecarToldOnce

\* No socket is admitted across a change of the allocation's observation, however the
\* allocation's metadata, the watch, the health loop and the claims interleave.
THEOREM AdmissionNeedsOneBinding == Sane => (Spec => AdmittedUnderOneBinding)
<1>1. [Promised]_vars => [AdmitsUnbroken]_vars
  BY DEF Promised
<1> QED  BY <1>1, Invariantly, PTL DEF AdmittedUnderOneBinding

\* Nothing is exposed and nobody is admitted under a receipt custody does not hold.
THEOREM CustodyPrecedesUse == Sane => (Spec => []CustodyBeforeUse)
<1>1. IInv => CustodyBeforeUse
  BY DEF IInv, GateInv, HolderInv, CustodyInv, CustodyBeforeUse, Custodied, Exposed
<1> QED  BY <1>1, Invariantly, PTL

\* A receipt gate never serves a second lifetime, and a custodied one admits only under
\* the lease it first asked for and only once its receipt is stored.
THEOREM GateServesOneLifetime == Sane => (Spec => OneLifetime)
<1>1. CustodyBeforeUse' /\ [Promised]_vars => [KeepsLifetime /\ CustodyBeforeUse']_vars
  BY DEF Promised
<1> QED  BY <1>1, Invariantly, CustodyPrecedesUse, PTL DEF OneLifetime

-----------------------------------------------------------------------------
(***************************************************************************)
(* The movement input.  A connection attaches once, so what it has driven  *)
(* was driven while it was attached, in one piece.                         *)
(***************************************************************************)
Asked == {Intake!Request(op, c) : op \in {"attach", "detach"}, c \in Conns}

In(s, op, c) == \E i \in 1..Len(s) : s[i] = Intake!Request(op, c)
Scheduled(op, c) == In(batch, op, c) \/ In(pending, op, c)

\* A connection attaches once, and is released after that.
Sound(s) ==
  \A c \in Conns : \A i, j \in 1..Len(s) :
    s[j] = Intake!Request("attach", c) =>
      /\ s[i] = Intake!Request("attach", c) => i = j
      /\ s[i] = Intake!Request("detach", c) => j < i

Numbered == [Conns -> Nat]
IntakeShape ==
  /\ phase \in {"before", "attach", "take", "step", "after", "reattach", "token"}
  /\ tick \in Nat /\ Len(driven) = tick /\ driven \in Seq([conn : Conns \cup {None}, seq : Nat])
  /\ batch \in Seq(Asked) /\ pending \in Seq(Asked)
  /\ holder \in Conns \cup {None} /\ driver.conn \in {None, holder} /\ driver.seq \in Nat
  /\ frame \in Numbered /\ active \in [Conns -> BOOLEAN]
  /\ received \in Numbered /\ latest \in Numbered /\ held \in Numbered /\ remaining \in [Conns -> 0..HoldTicks]
  /\ DOMAIN ack = Conns /\ ackReady \in [Conns -> BOOLEAN] /\ DOMAIN writer = Conns /\ DOMAIN end = Conns
  /\ batch # <<>> => phase \in {"attach", "reattach"}
  /\ phase \in {"take", "token"} => holder # None
  /\ phase = "take" => driver.conn = None

\* Nothing of a connection's input exists before its attachment is run.
Untouched(c) == holder # c /\ ~active[c] /\ \A i \in 1..Len(driven) : driven[i].conn # c

QueueSound ==
  /\ Sound(batch) /\ Sound(pending)
  /\ \A c \in Conns :
       /\ end[c] = "new" => ~Scheduled("attach", c) /\ ~Scheduled("detach", c) /\ Untouched(c)
       /\ Scheduled("attach", c) => Untouched(c)
       /\ In(pending, "attach", c) => ~In(batch, "attach", c) /\ ~In(batch, "detach", c)
       /\ end[c] = "released" /\ (holder = c \/ Scheduled("attach", c)) => Scheduled("detach", c)
       /\ active[c] => holder = c

\* Whoever was released before the tick began is detached before its step.
BarredOut ==
  /\ \A c \in barred : c \in Conns /\ end[c] = "released"
  /\ phase = "attach" => \A c \in barred : /\ ~In(pending, "attach", c)
                                           /\ holder = c \/ In(batch, "attach", c) => In(batch, "detach", c)
  /\ phase \in {"take", "step"} => holder \notin barred

\* Sequences go up from the mailbox to the step.
NumbersRise ==
  \A c \in Conns :
    /\ held[c] <= received[c]
    /\ latest[c] # 0 => held[c] < latest[c] /\ latest[c] <= received[c]
    /\ \A i \in 1..Len(driven) : driven[i].conn = c => driven[i].seq <= held[c]

\* The steps the held intent of c has driven are the last ones, and with what remains
\* they are not more than the hold.
Run(c, next) ==
  \A i \in 1..Len(driven) : driven[i].conn = c /\ driven[i].seq = held[c] =>
    driven[tick] = driven[i] /\ tick + next - i + remaining[c] < HoldTicks

\* While c drives, or may still drive, its run can go on.
RunsOn ==
  \A c \in Conns :
    /\ phase = "step" /\ driver.conn = c => driver.seq = held[c] /\ remaining[c] < HoldTicks /\ Run(c, 1)
    /\ phase = "step" /\ driver.conn # c /\ active[c] => remaining[c] = 0
    /\ phase # "step" /\ (active[c] \/ (phase = "take" /\ holder = c)) => remaining[c] = 0 \/ Run(c, 0)

CoastInv == NumbersRise /\ RunsOn /\ Intake!CoastBounded
AckInv == Intake!AckNotStranded /\ \A c \in Conns : end[c] = "new" => writer[c] = "none"
IntakeInv == IntakeShape /\ QueueSound /\ BarredOut /\ CoastInv /\ AckInv

-----------------------------------------------------------------------------
\* Requests in sequences.
LEMMA RequestsDiffer ==
  \A op, o, c, d : Intake!Request(op, c) = Intake!Request(o, d) <=> op = o /\ c = d
BY DEF Intake!Request

LEMMA FirstAndRest ==
  ASSUME NEW s \in Seq(Asked), s # <<>>
  PROVE  /\ Tail(s) \in Seq(Asked) /\ Head(s) = s[1] /\ Head(s) \in Asked
         /\ Len(s) \in Nat /\ Len(s) >= 1 /\ Len(Tail(s)) = Len(s) - 1
         /\ \A i \in 1..(Len(s) - 1) : Tail(s)[i] = s[i + 1]
<1>1. Len(s) \in Nat /\ Len(s) >= 1
  BY EmptySeq, LenProperties
<1>2. Tail(s) \in Seq(Asked) /\ Len(Tail(s)) = Len(s) - 1 /\ Head(s) = s[1] /\ Head(s) \in Asked
  BY HeadTailProperties
<1> QED  BY <1>1, <1>2, HeadTailProperties

\* What is asked for in the rest of a sequence.
LEMMA InRest ==
  ASSUME NEW s \in Seq(Asked), s # <<>>, NEW op, NEW c
  PROVE  /\ In(Tail(s), op, c) => In(s, op, c)
         /\ In(s, op, c) => Head(s) = Intake!Request(op, c) \/ In(Tail(s), op, c)
<1>1. ASSUME In(Tail(s), op, c) PROVE In(s, op, c)
  <2>1. PICK i \in 1..(Len(s) - 1) : Tail(s)[i] = Intake!Request(op, c)
    BY <1>1, FirstAndRest DEF In
  <2>2. i + 1 \in 1..Len(s) /\ s[i + 1] = Intake!Request(op, c)
    BY <2>1, FirstAndRest
  <2> QED  BY <2>2 DEF In
<1>2. ASSUME In(s, op, c), Head(s) # Intake!Request(op, c) PROVE In(Tail(s), op, c)
  <2>1. PICK i \in 1..Len(s) : s[i] = Intake!Request(op, c)
    BY <1>2 DEF In
  <2>2. i # 1
    BY <1>2, <2>1, FirstAndRest
  <2>3. i - 1 \in 1..(Len(s) - 1) /\ Tail(s)[i - 1] = s[(i - 1) + 1] /\ (i - 1) + 1 = i
    BY <2>1, <2>2, FirstAndRest
  <2> QED  BY <2>1, <2>3, FirstAndRest DEF In
<1> QED  BY <1>1, <1>2

LEMMA SoundRest ==
  ASSUME NEW s \in Seq(Asked), s # <<>>, Sound(s)
  PROVE  /\ Sound(Tail(s))
         /\ \A c \in Conns, op \in {"attach", "detach"} :
              Head(s) = Intake!Request(op, c) => ~In(Tail(s), "attach", c)
<1>1. ASSUME NEW c \in Conns, NEW i \in 1..Len(Tail(s)), NEW j \in 1..Len(Tail(s)),
             Tail(s)[j] = Intake!Request("attach", c)
      PROVE  /\ Tail(s)[i] = Intake!Request("attach", c) => i = j
             /\ Tail(s)[i] = Intake!Request("detach", c) => j < i
  <2>1. i + 1 \in 1..Len(s) /\ j + 1 \in 1..Len(s) /\ Tail(s)[i] = s[i + 1] /\ Tail(s)[j] = s[j + 1]
    BY FirstAndRest
  <2>2. /\ s[i + 1] = Intake!Request("attach", c) => i + 1 = j + 1
        /\ s[i + 1] = Intake!Request("detach", c) => j + 1 < i + 1
    BY <1>1, <2>1 DEF Sound
  <2> QED  BY <2>1, <2>2
<1>2. ASSUME NEW c \in Conns, NEW op \in {"attach", "detach"}, Head(s) = Intake!Request(op, c),
             In(Tail(s), "attach", c)
      PROVE  FALSE
  <2>1. PICK j \in 1..(Len(s) - 1) : Tail(s)[j] = Intake!Request("attach", c)
    BY <1>2, FirstAndRest DEF In
  <2>2. j + 1 \in 1..Len(s) /\ 1 \in 1..Len(s) /\ s[j + 1] = Intake!Request("attach", c)
        /\ s[1] = Intake!Request(op, c)
    BY <1>2, <2>1, FirstAndRest
  <2>3. CASE op = "attach"
    <3>1. 1 = j + 1
      BY <2>2, <2>3 DEF Sound
    <3> QED  BY <3>1, <2>1
  <2>4. CASE op = "detach"
    <3>1. j + 1 < 1
      BY <2>2, <2>4 DEF Sound
    <3> QED  BY <3>1, <2>1
  <2> QED  BY <2>3, <2>4
<1> QED  BY <1>1, <1>2 DEF Sound

\* And in a sequence with one more.
LEMMA InMore ==
  ASSUME NEW s \in Seq(Asked), NEW o \in {"attach", "detach"}, NEW d \in Conns
  PROVE  LET t == Append(s, Intake!Request(o, d)) IN
         /\ t \in Seq(Asked)
         /\ \A op, c : In(t, op, c) <=> In(s, op, c) \/ (op = o /\ c = d)
         /\ Sound(s) /\ (o = "attach" => ~In(s, "attach", d) /\ ~In(s, "detach", d)) => Sound(t)
<1> DEFINE r == Intake!Request(o, d)
           t == Append(s, r)
<1>1. r \in Asked
  BY DEF Asked
<1>2. /\ t \in Seq(Asked) /\ Len(s) \in Nat /\ Len(t) = Len(s) + 1 /\ t[Len(s) + 1] = r
      /\ \A i \in 1..Len(s) : t[i] = s[i]
  BY <1>1, AppendProperties, LenProperties
<1> HIDE DEF t
<1>3. ASSUME NEW op, NEW c PROVE In(t, op, c) <=> In(s, op, c) \/ (op = o /\ c = d)
  <2>1. ASSUME In(t, op, c) PROVE In(s, op, c) \/ (op = o /\ c = d)
    <3>1. PICK i \in 1..(Len(s) + 1) : t[i] = Intake!Request(op, c)
      BY <1>2, <2>1 DEF In
    <3>2. CASE i = Len(s) + 1
      BY <1>2, <3>1, <3>2, RequestsDiffer
    <3>3. CASE i # Len(s) + 1
      <4>1. i \in 1..Len(s)
        BY <1>2, <3>1, <3>3
      <4> QED  BY <1>2, <3>1, <4>1 DEF In
    <3> QED  BY <3>2, <3>3
  <2>2. ASSUME In(s, op, c) PROVE In(t, op, c)
    <3>1. PICK i \in 1..Len(s) : s[i] = Intake!Request(op, c)
      BY <2>2 DEF In
    <3>2. i \in 1..Len(t) /\ t[i] = s[i]
      BY <1>2, <3>1
    <3> QED  BY <3>1, <3>2 DEF In
  <2>3. ASSUME op = o, c = d PROVE In(t, op, c)
    <3>1. Len(s) + 1 \in 1..Len(t) /\ t[Len(s) + 1] = Intake!Request(op, c)
      BY <1>2, <2>3
    <3> QED  BY <3>1 DEF In
  <2> QED  BY <2>1, <2>2, <2>3
<1>4. ASSUME Sound(s), o = "attach" => ~In(s, "attach", d) /\ ~In(s, "detach", d),
             NEW c \in Conns, NEW i \in 1..Len(t), NEW j \in 1..Len(t),
             t[j] = Intake!Request("attach", c)
      PROVE  /\ t[i] = Intake!Request("attach", c) => i = j
             /\ t[i] = Intake!Request("detach", c) => j < i
  <2>1. CASE i # Len(s) + 1 /\ j # Len(s) + 1
    <3>1. i \in 1..Len(s) /\ j \in 1..Len(s) /\ t[i] = s[i] /\ t[j] = s[j]
      BY <1>2, <2>1
    <3> QED  BY <1>4, <3>1 DEF Sound
  <2>2. CASE j = Len(s) + 1
    <3>1. o = "attach" /\ c = d
      BY <1>2, <1>4, <2>2, RequestsDiffer
    <3>2. CASE i # j
      <4>1. i \in 1..Len(s) /\ t[i] = s[i]
        BY <1>2, <2>2, <3>2
      <4>2. t[i] # Intake!Request("attach", c) /\ t[i] # Intake!Request("detach", c)
        BY <1>4, <3>1, <4>1 DEF In
      <4> QED  BY <4>2
    <3>3. CASE i = j
      BY <1>4, <3>3, RequestsDiffer
    <3> QED  BY <3>2, <3>3
  <2>3. CASE i = Len(s) + 1 /\ j # Len(s) + 1
    <3>1. j < i /\ j \in 1..Len(s) /\ t[j] = s[j]
      BY <1>2, <2>3
    <3>2. t[i] # Intake!Request("attach", c)
      BY <1>2, <1>4, <2>3, <3>1, RequestsDiffer DEF In
    <3> QED  BY <3>1, <3>2
  <2> QED  BY <2>1, <2>2, <2>3
<1> QED  BY <1>2, <1>3, <1>4 DEF Sound, t, r

-----------------------------------------------------------------------------
\* What the invariant says in the initial state.
LEMMA IntakeStarts ==
  ASSUME Intake!Init
  PROVE  IntakeInv
<1>1. IntakeShape
  BY IntentsAreNumbered DEF Intake!Init, IntakeShape, Intake!Idle, Numbered
<1>2. /\ \A op, c : ~In(batch, op, c) /\ ~In(pending, op, c)
      /\ Sound(batch) /\ Sound(pending) /\ Len(driven) = 0
  BY DEF Intake!Init, In, Sound
<1>3. QueueSound /\ BarredOut
  BY <1>2, IntentsAreNumbered DEF Intake!Init, QueueSound, BarredOut, Scheduled, Untouched
<1>4. CoastInv
  <2>1. DOMAIN driven = {}
    BY <1>1, <1>2 DEF Intake!Init
  <2> QED  BY <1>2, <2>1 DEF Intake!Init, CoastInv, NumbersRise, RunsOn, Run, Intake!CoastBounded
<1>5. AckInv
  BY DEF Intake!Init, AckInv, Intake!AckNotStranded
<1> QED  BY <1>1, <1>3, <1>4, <1>5 DEF IntakeInv

-----------------------------------------------------------------------------
\* What a step leaves alone, group by group.
LEMMA QueueStays ==
  ASSUME IntakeShape, QueueSound, BarredOut,
         UNCHANGED <<batch, pending, holder, driven, barred>>,
         \A c \in Conns : /\ active'[c] => active[c]
                          /\ end'[c] = "new" => end[c] = "new"
                          /\ (end'[c] = "released" <=> end[c] = "released"),
         phase' = "attach" => phase = "attach",
         phase' \in {"take", "step"} => phase \in {"take", "step"} \/ (phase = "attach" /\ batch = <<>>)
  PROVE  QueueSound' /\ BarredOut'
<1>1. QueueSound'
  BY DEF QueueSound, Scheduled, Untouched
<1>2. ASSUME phase = "attach", batch = <<>> PROVE holder \notin barred
  <2>1. \A c : ~In(batch, "detach", c)
    BY <1>2 DEF In
  <2> QED  BY <1>2, <2>1 DEF BarredOut
<1>3. BarredOut'
  BY <1>2 DEF BarredOut
<1> QED  BY <1>1, <1>3

LEMMA RunsStay ==
  ASSUME IntakeShape, CoastInv,
         UNCHANGED <<tick, latest, held, remaining, received, driven>>,
         \A c \in Conns : active'[c] => active[c],
         UNCHANGED <<phase, driver, holder>> \/ {phase, phase'} \cap {"take", "step"} = {}
  PROVE  CoastInv'
<1>1. NumbersRise' /\ Intake!CoastBounded'
  BY DEF CoastInv, NumbersRise, Intake!CoastBounded
<1>2. \A c \in Conns, n \in {0, 1} : Run(c, n)' <=> Run(c, n)
  BY DEF Run
<1>3. RunsOn'
  BY <1>2 DEF CoastInv, RunsOn
<1> QED  BY <1>1, <1>3 DEF CoastInv

-----------------------------------------------------------------------------
\* The steps of a connection's goroutines.
LEMMA OpenKeeps ==
  ASSUME IntakeInv, NEW c \in Conns, Intake!Open(c)
  PROVE  IntakeInv'
<1>1. /\ end[c] = "new" /\ end' = [end EXCEPT ![c] = "live"]
      /\ writer' = [writer EXCEPT ![c] = "waiting"]
      /\ pending' = Append(pending, Intake!Request("attach", c))
      /\ UNCHANGED <<phase, tick, batch, holder, driver, frame, active, received, latest, held, remaining,
                     ack, ackReady, barred, driven>>
  BY DEF Intake!Open, Intake!boxVars, Intake!stepVars
<1>2. pending \in Seq(Asked)
  BY DEF IntakeInv, IntakeShape
<1>3. /\ ~Scheduled("attach", c) /\ ~Scheduled("detach", c) /\ Untouched(c)
  BY <1>1 DEF IntakeInv, QueueSound
<1>4. /\ pending' \in Seq(Asked)
      /\ \A op, d : In(pending', op, d) <=> In(pending, op, d) \/ (op = "attach" /\ d = c)
      /\ Sound(pending')
  BY <1>1, <1>2, <1>3, InMore DEF IntakeInv, QueueSound, Scheduled
<1>5. IntakeShape'
  BY <1>1, <1>4 DEF IntakeInv, IntakeShape
<1>6. QueueSound'
  <2>1. Sound(batch') /\ Sound(pending')
    BY <1>1, <1>4 DEF IntakeInv, QueueSound
  <2>2. ASSUME NEW d \in Conns, d # c
        PROVE  /\ end'[d] = end[d] /\ \A op : Scheduled(op, d)' <=> Scheduled(op, d)
               /\ In(pending', "attach", d) <=> In(pending, "attach", d)
    BY <1>1, <1>4, <2>2 DEF Scheduled, IntakeInv, IntakeShape
  <2>3. \A d \in Conns : Untouched(d)' <=> Untouched(d)
    BY <1>1 DEF Untouched
  <2>4. end'[c] = "live"
    BY <1>1 DEF IntakeInv, IntakeShape
  <2>5. ASSUME NEW d \in Conns, d # c
        PROVE  /\ end'[d] = "new" => ~Scheduled("attach", d)' /\ ~Scheduled("detach", d)' /\ Untouched(d)'
               /\ Scheduled("attach", d)' => Untouched(d)'
               /\ In(pending', "attach", d) => ~In(batch', "attach", d) /\ ~In(batch', "detach", d)
               /\ end'[d] = "released" /\ (holder' = d \/ Scheduled("attach", d)') => Scheduled("detach", d)'
               /\ active'[d] => holder' = d
    BY <1>1, <2>2, <2>3, <2>5 DEF IntakeInv, QueueSound
  <2>6. /\ Untouched(c)' /\ ~In(batch', "attach", c) /\ ~In(batch', "detach", c)
        /\ active'[c] => holder' = c
    BY <1>1, <1>3, <2>3 DEF Scheduled, Untouched
  <2> QED  BY <2>1, <2>4, <2>5, <2>6 DEF QueueSound
<1>7. BarredOut'
  <2>1. \A d \in barred : d # c
    BY <1>1 DEF IntakeInv, BarredOut
  <2> QED  BY <1>1, <1>4, <2>1 DEF IntakeInv, BarredOut, IntakeShape
<1>8. CoastInv'
  BY <1>1, RunsStay DEF IntakeInv
<1>9. AckInv'
  BY <1>1 DEF IntakeInv, IntakeShape, AckInv, Intake!AckNotStranded
<1> QED  BY <1>5, <1>6, <1>7, <1>8, <1>9 DEF IntakeInv

LEMMA ReceiveKeeps ==
  ASSUME IntakeInv, NEW c \in Conns, Intake!Receive(c)
  PROVE  IntakeInv'
<1>1. /\ UNCHANGED <<phase, tick, pending, batch, holder, driver, active, received, latest, held, remaining,
                     ack, ackReady, writer, end, barred, driven>>
      /\ frame' = frame \/ \E s \in DOMAIN Intents : frame' = [frame EXCEPT ![c] = s]
  BY DEF Intake!Receive, Intake!simVars, Intake!stepVars, Intake!ackVars, Intake!Sequences
<1>2. frame' \in Numbered
  BY <1>1, IntentsAreNumbered DEF IntakeInv, IntakeShape, Numbered
<1>3. IntakeShape'
  BY <1>1, <1>2 DEF IntakeInv, IntakeShape
<1>4. QueueSound' /\ BarredOut'
  BY <1>1, QueueStays DEF IntakeInv
<1>5. CoastInv'
  BY <1>1, RunsStay DEF IntakeInv
<1>6. AckInv'
  BY <1>1 DEF IntakeInv, AckInv, Intake!AckNotStranded
<1> QED  BY <1>3, <1>4, <1>5, <1>6 DEF IntakeInv

LEMMA OfferKeeps ==
  ASSUME IntakeInv, NEW c \in Conns, Intake!OfferIntent(c)
  PROVE  IntakeInv'
<1>1. /\ UNCHANGED <<phase, tick, pending, batch, holder, driver, active, held, remaining,
                     ack, ackReady, writer, end, barred, driven>>
      /\ frame' = [frame EXCEPT ![c] = 0] /\ frame[c] \in DOMAIN Intents
      /\ \/ /\ frame[c] > received[c] /\ received' = [received EXCEPT ![c] = frame[c]]
            /\ latest' = [latest EXCEPT ![c] = frame[c]]
         \/ UNCHANGED <<received, latest>>
  BY DEF Intake!OfferIntent, Intake!simVars, Intake!stepVars, Intake!ackVars, Intake!Sequences, Intake!Newer
<1>2. frame[c] \in Nat \ {0} /\ frame' \in Numbered /\ received' \in Numbered /\ latest' \in Numbered
  BY <1>1, IntentsAreNumbered DEF IntakeInv, IntakeShape, Numbered
<1>3. IntakeShape'
  BY <1>1, <1>2 DEF IntakeInv, IntakeShape
<1>4. QueueSound' /\ BarredOut'
  BY <1>1, QueueStays DEF IntakeInv
<1>5. CoastInv'
  <2>1. NumbersRise'
    <3>1. received \in Numbered /\ latest \in Numbered /\ held \in Numbered
      BY DEF IntakeInv, IntakeShape
    <3>2. ASSUME NEW d \in Conns
          PROVE  held'[d] <= received'[d] /\ (latest'[d] # 0 => held'[d] < latest'[d] /\ latest'[d] <= received'[d])
      <4>1. /\ received[d] \in Nat /\ held[d] \in Nat /\ held[d] <= received[d]
            /\ latest[d] # 0 => held[d] < latest[d] /\ latest[d] <= received[d]
        BY <3>1 DEF IntakeInv, CoastInv, NumbersRise, Numbered
      <4>2. /\ held'[d] = held[d]
            /\ \/ received'[d] = received[d] /\ latest'[d] = latest[d]
               \/ received'[d] = frame[c] /\ latest'[d] = frame[c] /\ frame[c] > received[d]
        BY <1>1, <3>1 DEF Numbered
      <4> QED  BY <1>2, <4>1, <4>2
    <3> QED  BY <1>1, <3>2 DEF IntakeInv, CoastInv, NumbersRise
  <2>2. \A d \in Conns, n \in {0, 1} : Run(d, n)' <=> Run(d, n)
    BY <1>1 DEF Run
  <2>3. RunsOn'
    BY <1>1, <2>2 DEF IntakeInv, CoastInv, RunsOn
  <2> QED  BY <1>1, <2>1, <2>3 DEF IntakeInv, CoastInv, Intake!CoastBounded
<1>6. AckInv'
  BY <1>1 DEF IntakeInv, AckInv, Intake!AckNotStranded
<1> QED  BY <1>3, <1>4, <1>5, <1>6 DEF IntakeInv

LEMMA DeactivateKeeps ==
  ASSUME IntakeInv, NEW c \in Conns, Intake!Deactivate(c)
  PROVE  IntakeInv'
<1>1. /\ UNCHANGED <<phase, tick, pending, batch, holder, driver, frame, received, latest, held, remaining,
                     ack, ackReady, writer, barred, driven>>
      /\ end[c] = "live" /\ end' = [end EXCEPT ![c] = "ending"] /\ active' = [active EXCEPT ![c] = FALSE]
  BY DEF Intake!Deactivate, Intake!simVars, Intake!boxVars, Intake!stepVars, Intake!ackVars
<1>2. IntakeShape'
  BY <1>1 DEF IntakeInv, IntakeShape
<1>3. \A d \in Conns : /\ active'[d] => active[d]
                       /\ (end'[d] = "new" <=> end[d] = "new")
                       /\ (end'[d] = "released" <=> end[d] = "released")
  BY <1>1 DEF IntakeInv, IntakeShape
<1>4. QueueSound' /\ BarredOut'
  BY <1>1, <1>3, QueueStays DEF IntakeInv
<1>5. CoastInv'
  BY <1>1, <1>3, RunsStay DEF IntakeInv
<1>6. AckInv'
  BY <1>1, <1>3 DEF IntakeInv, AckInv, Intake!AckNotStranded
<1> QED  BY <1>2, <1>4, <1>5, <1>6 DEF IntakeInv

LEMMA ReleaseKeeps ==
  ASSUME IntakeInv, NEW c \in Conns, Intake!Release(c)
  PROVE  IntakeInv'
<1>1. /\ end[c] = "ending" /\ end' = [end EXCEPT ![c] = "released"]
      /\ pending' = Append(pending, Intake!Request("detach", c))
      /\ UNCHANGED <<phase, tick, batch, holder, driver, frame, active, received, latest, held, remaining,
                     ack, ackReady, writer, barred, driven>>
  BY DEF Intake!Release, Intake!boxVars, Intake!stepVars, Intake!ackVars
<1>2. pending \in Seq(Asked)
  BY DEF IntakeInv, IntakeShape
<1>3. /\ pending' \in Seq(Asked)
      /\ \A op, d : In(pending', op, d) <=> In(pending, op, d) \/ (op = "detach" /\ d = c)
      /\ Sound(pending')
  BY <1>1, <1>2, InMore DEF IntakeInv, QueueSound
<1>4. IntakeShape'
  BY <1>1, <1>3 DEF IntakeInv, IntakeShape
<1>5. \A d \in Conns : /\ end'[d] = "new" => end[d] = "new" /\ d # c
                       /\ end'[d] = "released" => end[d] = "released" \/ d = c
                       /\ end[d] = "released" => end'[d] = "released"
  BY <1>1 DEF IntakeInv, IntakeShape
<1>6. QueueSound'
  <2>1. \A op, d : Scheduled(op, d)' <=> Scheduled(op, d) \/ (op = "detach" /\ d = c)
    BY <1>1, <1>3 DEF Scheduled
  <2>2. \A d \in Conns : Untouched(d)' <=> Untouched(d)
    BY <1>1 DEF Untouched
  <2>3. Sound(batch') /\ Sound(pending')
    BY <1>1, <1>3 DEF IntakeInv, QueueSound
  <2>4. ASSUME NEW d \in Conns
        PROVE  /\ end'[d] = "new" => ~Scheduled("attach", d)' /\ ~Scheduled("detach", d)' /\ Untouched(d)'
               /\ Scheduled("attach", d)' => Untouched(d)'
               /\ In(pending', "attach", d) => ~In(batch', "attach", d) /\ ~In(batch', "detach", d)
               /\ end'[d] = "released" /\ (holder' = d \/ Scheduled("attach", d)') => Scheduled("detach", d)'
               /\ active'[d] => holder' = d
    BY <1>1, <1>3, <1>5, <2>1, <2>2 DEF IntakeInv, QueueSound
  <2> QED  BY <2>3, <2>4 DEF QueueSound
<1>7. BarredOut'
  BY <1>1, <1>3, <1>5 DEF IntakeInv, BarredOut
<1>8. CoastInv'
  BY <1>1, RunsStay DEF IntakeInv
<1>9. AckInv'
  BY <1>1, <1>5 DEF IntakeInv, AckInv, Intake!AckNotStranded
<1> QED  BY <1>4, <1>6, <1>7, <1>8, <1>9 DEF IntakeInv

\* The writer changes nothing but what it takes.
LEMMA WriterKeeps ==
  ASSUME IntakeInv, NEW c \in Conns, Intake!WriteJoin(c) \/ Intake!TakeToken(c) \/ Intake!WriteAck(c)
  PROVE  IntakeInv'
<1>1. UNCHANGED <<phase, tick, pending, batch, holder, driver, frame, active, received, latest, held,
                 remaining, end, barred, driven>>
  BY DEF Intake!WriteJoin, Intake!TakeToken, Intake!WriteAck, Intake!simVars, Intake!boxVars, Intake!stepVars
<1>2. \/ UNCHANGED <<ack, ackReady, writer>>
      \/ /\ writer[c] = "waiting" /\ writer' = [writer EXCEPT ![c] = "woken"]
         /\ ackReady' = [ackReady EXCEPT ![c] = FALSE] /\ ack' = ack
      \/ /\ writer[c] = "woken" /\ writer' = [writer EXCEPT ![c] = "waiting"]
         /\ ack' = [ack EXCEPT ![c] = Intake!NoAck] /\ ackReady' = ackReady
  BY DEF Intake!WriteJoin, Intake!TakeToken, Intake!WriteAck
<1>3. IntakeShape'
  BY <1>1, <1>2 DEF IntakeInv, IntakeShape
<1>4. QueueSound' /\ BarredOut'
  BY <1>1, QueueStays DEF IntakeInv
<1>5. CoastInv'
  BY <1>1, RunsStay DEF IntakeInv
<1>6. AckInv'
  BY <1>1, <1>2 DEF IntakeInv, IntakeShape, AckInv, Intake!AckNotStranded
<1> QED  BY <1>3, <1>4, <1>5, <1>6 DEF IntakeInv

-----------------------------------------------------------------------------
\* The steps of the simulation goroutine.
LEMMA TakeKeeps ==
  ASSUME IntakeInv, Intake!TakePending
  PROVE  IntakeInv'
<1>1. /\ phase \in {"before", "after"} /\ batch' = pending
      /\ pending' = SubSeq(pending, Len(pending) + 1, Len(pending))
      /\ \/ phase = "before" /\ phase' = "attach" /\ barred' = {c \in Conns : end[c] = "released"}
         \/ phase = "after" /\ phase' = "reattach" /\ barred' = barred
      /\ UNCHANGED <<tick, holder, driver, frame, active, received, latest, held, remaining,
                     ack, ackReady, writer, end, driven>>
  BY DEF Intake!TakePending, Intake!Taken, Intake!boxVars, Intake!stepVars, Intake!ackVars
<1>2. batch = <<>> /\ pending \in Seq(Asked)
  BY <1>1 DEF IntakeInv, IntakeShape
<1>3. pending' = <<>>
  BY <1>1, <1>2, LenProperties
<1>4. \A op, c : ~In(batch, op, c) /\ ~In(pending', op, c)
  BY <1>2, <1>3 DEF In
<1>5. IntakeShape'
  BY <1>1, <1>2, <1>3 DEF IntakeInv, IntakeShape
<1>6. QueueSound'
  <2>1. Sound(batch') /\ Sound(pending')
    BY <1>1, <1>3 DEF IntakeInv, QueueSound, Sound
  <2>2. \A op, c : Scheduled(op, c)' <=> Scheduled(op, c)
    BY <1>1, <1>4 DEF Scheduled
  <2>3. \A c \in Conns : Untouched(c)' <=> Untouched(c)
    BY <1>1 DEF Untouched
  <2>4. ASSUME NEW c \in Conns
        PROVE  /\ end'[c] = "new" => ~Scheduled("attach", c)' /\ ~Scheduled("detach", c)' /\ Untouched(c)'
               /\ Scheduled("attach", c)' => Untouched(c)'
               /\ In(pending', "attach", c) => ~In(batch', "attach", c) /\ ~In(batch', "detach", c)
               /\ end'[c] = "released" /\ (holder' = c \/ Scheduled("attach", c)') => Scheduled("detach", c)'
               /\ active'[c] => holder' = c
    BY <1>1, <1>4, <2>2, <2>3 DEF IntakeInv, QueueSound
  <2> QED  BY <2>1, <2>4 DEF QueueSound
<1>7. BarredOut'
  <2>1. CASE phase = "before"
    <3>1. /\ barred' = {c \in Conns : end[c] = "released"} /\ phase' = "attach"
      BY <1>1, <2>1
    <3>2. ASSUME NEW c \in Conns, end[c] = "released"
          PROVE  holder' = c \/ In(batch', "attach", c) => In(batch', "detach", c)
      BY <1>1, <1>4, <3>2 DEF IntakeInv, QueueSound, Scheduled
    <3> QED  BY <1>1, <1>4, <3>1, <3>2 DEF BarredOut
  <2>2. CASE phase = "after"
    BY <1>1, <2>2 DEF IntakeInv, BarredOut
  <2> QED  BY <1>1, <2>1, <2>2
<1>8. CoastInv'
  BY <1>1, RunsStay DEF IntakeInv
<1>9. AckInv'
  BY <1>1 DEF IntakeInv, AckInv, Intake!AckNotStranded
<1> QED  BY <1>5, <1>6, <1>7, <1>8, <1>9 DEF IntakeInv

LEMMA ZeroKeeps ==
  ASSUME IntakeInv, Intake!ZeroAndCheck
  PROVE  IntakeInv'
<1>1. /\ phase = "attach" /\ batch = <<>> /\ driver' = Intake!Idle
      /\ \/ phase' = "take" /\ \E c \in Intake!Attached : active[c]
         \/ phase' = "step" /\ \A c \in Intake!Attached : ~active[c]
      /\ UNCHANGED <<tick, pending, batch, holder, frame, active, received, latest, held, remaining,
                     ack, ackReady, writer, end, barred, driven>>
  BY DEF Intake!ZeroAndCheck, Intake!boxVars, Intake!stepVars, Intake!ackVars
<1>2. driver'.conn = None /\ driver'.seq = 0
  BY <1>1 DEF Intake!Idle
<1>3. \A c \in Intake!Attached : holder = c /\ c # None
  BY DEF Intake!Attached
<1>4. IntakeShape'
  BY <1>1, <1>2, <1>3 DEF IntakeInv, IntakeShape
<1>5. QueueSound' /\ BarredOut'
  BY <1>1, QueueStays DEF IntakeInv
<1>6. CoastInv'
  <2>1. NumbersRise' /\ Intake!CoastBounded'
    BY <1>1 DEF IntakeInv, CoastInv, NumbersRise, Intake!CoastBounded
  <2>2. \A c \in Conns, n \in {0, 1} : Run(c, n)' <=> Run(c, n)
    BY <1>1 DEF Run
  <2>3. \A c \in Conns : active[c] => c \in Intake!Attached
    BY IntentsAreNumbered DEF IntakeInv, QueueSound, Intake!Attached
  <2>4. RunsOn'
    BY <1>1, <1>2, <1>3, <2>2, <2>3, IntentsAreNumbered DEF IntakeInv, CoastInv, RunsOn
  <2> QED  BY <2>1, <2>4 DEF CoastInv
<1>7. AckInv'
  BY <1>1 DEF IntakeInv, AckInv, Intake!AckNotStranded
<1> QED  BY <1>4, <1>5, <1>6, <1>7 DEF IntakeInv

\* Running a request: it was the first, and what it leaves is the rest.
LEMMA RequestRuns ==
  ASSUME IntakeInv, Intake!RunRequest
  PROVE  \E op \in {"attach", "detach"}, c \in Conns :
           /\ Head(batch) = Intake!Request(op, c)
           /\ op = "attach" => Intake!Attach(c) \/ Intake!Refuse(c)
           /\ op = "detach" => Intake!Detach(c)
<1>1. batch \in Seq(Asked) /\ batch # <<>>
  BY DEF IntakeInv, IntakeShape, Intake!RunRequest
<1>2. PICK op \in {"attach", "detach"}, c \in Conns : Head(batch) = Intake!Request(op, c)
  BY <1>1, FirstAndRest DEF Asked
<1>3. Head(batch).op = op /\ Head(batch).conn = c
  BY <1>2 DEF Intake!Request
<1> QED  BY <1>2, <1>3 DEF Intake!RunRequest

LEMMA RunKeeps ==
  ASSUME IntakeInv, Intake!RunRequest
  PROVE  IntakeInv'
<1>1. PICK op \in {"attach", "detach"}, c \in Conns :
        /\ Head(batch) = Intake!Request(op, c)
        /\ op = "attach" => Intake!Attach(c) \/ Intake!Refuse(c)
        /\ op = "detach" => Intake!Detach(c)
  BY RequestRuns
<1>2. /\ batch # <<>> /\ batch' = Tail(batch)
      /\ UNCHANGED <<phase, tick, pending, frame, received, latest, held, remaining, ack, ackReady, writer,
                     end, barred, driven>>
  BY DEF Intake!RunRequest, Intake!boxVars, Intake!stepVars, Intake!ackVars
<1>3. batch \in Seq(Asked) /\ phase \in {"attach", "reattach"}
  BY <1>2 DEF IntakeInv, IntakeShape
<1>4. /\ batch' \in Seq(Asked) /\ Sound(batch') /\ ~In(batch', "attach", c)
      /\ \A o, d : In(batch', o, d) => In(batch, o, d)
      /\ \A o, d : In(batch, o, d) => (o = op /\ d = c) \/ In(batch', o, d)
      /\ In(batch, op, c)
  <2>1. Len(batch) \in Nat /\ Len(batch) >= 1 /\ batch[1] = Intake!Request(op, c)
    BY <1>1, <1>2, <1>3, FirstAndRest
  <2>2. In(batch, op, c)
    BY <2>1 DEF In
  <2>3. Sound(batch)
    BY DEF IntakeInv, QueueSound
  <2>4. Tail(batch) \in Seq(Asked) /\ Sound(Tail(batch)) /\ ~In(Tail(batch), "attach", c)
    BY <1>1, <1>2, <1>3, <2>3, FirstAndRest, SoundRest
  <2>5. \A o, d : /\ In(Tail(batch), o, d) => In(batch, o, d)
                  /\ In(batch, o, d) => Head(batch) = Intake!Request(o, d) \/ In(Tail(batch), o, d)
    BY <1>2, <1>3, InRest
  <2> QED  BY <1>1, <1>2, <2>2, <2>4, <2>5, RequestsDiffer
<1>5. ~Scheduled("attach", c)' /\ end[c] # "new" /\ (op = "attach" => Untouched(c))
  BY <1>2, <1>4 DEF IntakeInv, QueueSound, Scheduled
\* What happens to the observer.
<1>6. \/ UNCHANGED <<holder, driver, active>> /\ (op = "detach" => holder # c)
      \/ /\ op = "attach" /\ holder = None /\ holder' = c /\ driver' = Intake!Idle
         /\ active' = [active EXCEPT ![c] = TRUE]
      \/ /\ op = "detach" /\ holder = c /\ holder' = None /\ driver' = Intake!Idle
         /\ active' = [active EXCEPT ![c] = FALSE]
  BY <1>1 DEF Intake!Attach, Intake!Refuse, Intake!Detach
<1>7. Intake!Idle.conn = None /\ Intake!Idle.seq = 0
  BY DEF Intake!Idle
<1>8. /\ \A d \in Conns : d # c => (active'[d] <=> active[d])
      /\ active'[c] => op = "attach" \/ active[c]
  BY <1>6 DEF IntakeInv, IntakeShape
<1>9. IntakeShape'
  <2>1. /\ holder \in Conns \cup {None} /\ driver.conn \in {None, holder} /\ driver.seq \in Nat
        /\ active \in [Conns -> BOOLEAN]
    BY DEF IntakeInv, IntakeShape
  <2>2. /\ holder' \in Conns \cup {None} /\ driver'.conn \in {None, holder'} /\ driver'.seq \in Nat
        /\ active' \in [Conns -> BOOLEAN]
    <3>1. CASE UNCHANGED <<holder, driver, active>>
      BY <2>1, <3>1
    <3>2. CASE holder' \in {c, None} /\ driver' = Intake!Idle
               /\ \E b \in BOOLEAN : active' = [active EXCEPT ![c] = b]
      BY <1>7, <2>1, <3>2
    <3> QED  BY <1>6, <3>1, <3>2
  <2>3. phase' \notin {"take", "token"}
    BY <1>2, <1>3
  <2> QED  BY <1>2, <1>3, <1>4, <2>2, <2>3 DEF IntakeInv, IntakeShape
<1>10. ASSUME NEW d \in Conns, d # c
       PROVE  /\ \A o : In(batch', o, d) <=> In(batch, o, d)
              /\ \A o : Scheduled(o, d)' <=> Scheduled(o, d)
              /\ (holder' = d <=> holder = d)
              /\ (Untouched(d)' <=> Untouched(d))
  <2>1. \A o : In(batch', o, d) <=> In(batch, o, d)
    BY <1>4, <1>10
  <2>2. holder' = d <=> holder = d
    BY <1>6, <1>10, IntentsAreNumbered
  <2>3. \A o : Scheduled(o, d)' <=> Scheduled(o, d)
    BY <1>2, <2>1 DEF Scheduled
  <2>4. Untouched(d)' <=> Untouched(d)
    BY <1>2, <1>8, <1>10, <2>2 DEF Untouched
  <2> QED  BY <2>1, <2>2, <2>3, <2>4
<1>11. holder' = c => op = "attach" /\ holder = None
  BY <1>5, <1>6, IntentsAreNumbered DEF Untouched
<1>12. QueueSound'
  <2>1. Sound(batch') /\ Sound(pending')
    BY <1>2, <1>4 DEF IntakeInv, QueueSound
  <2>2. ASSUME NEW d \in Conns, d # c
        PROVE  /\ end'[d] = "new" => ~Scheduled("attach", d)' /\ ~Scheduled("detach", d)' /\ Untouched(d)'
               /\ Scheduled("attach", d)' => Untouched(d)'
               /\ In(pending', "attach", d) => ~In(batch', "attach", d) /\ ~In(batch', "detach", d)
               /\ end'[d] = "released" /\ (holder' = d \/ Scheduled("attach", d)') => Scheduled("detach", d)'
               /\ active'[d] => holder' = d
    BY <1>2, <1>8, <1>10, <2>2 DEF IntakeInv, QueueSound
  <2>3. end'[c] = "released" /\ holder' = c => Scheduled("detach", c)'
    BY <1>2, <1>4, <1>11 DEF IntakeInv, QueueSound, Scheduled
  <2>4. active'[c] => holder' = c
    BY <1>6 DEF IntakeInv, QueueSound, IntakeShape
  <2>5. ~In(pending', "attach", c)
    BY <1>5 DEF Scheduled
  <2> QED  BY <1>2, <1>5, <2>1, <2>2, <2>3, <2>4, <2>5 DEF QueueSound
<1>13. BarredOut'
  <2>1. ASSUME phase = "attach", NEW d \in barred
        PROVE  holder' = d \/ In(batch', "attach", d) => In(batch', "detach", d)
    <3>1. d \in Conns /\ (holder = d \/ In(batch, "attach", d) => In(batch, "detach", d))
      BY <2>1 DEF IntakeInv, BarredOut
    <3>2. CASE d # c
      BY <1>10, <3>1, <3>2
    <3>3. CASE d = c
      BY <1>4, <1>11, <3>1, <3>3
    <3> QED  BY <3>2, <3>3
  <2> QED  BY <1>2, <1>3, <2>1 DEF IntakeInv, BarredOut
<1>14. CoastInv'
  <2>1. CASE active'[c] => active[c]
    <3>1. \A d \in Conns : active'[d] => active[d]
      BY <1>8, <2>1
    <3> QED  BY <1>2, <1>3, <3>1, RunsStay DEF IntakeInv
  <2>2. CASE active'[c] /\ ~active[c]
    <3>1. Untouched(c)
      BY <1>5, <1>8, <2>2
    <3>2. NumbersRise' /\ Intake!CoastBounded'
      BY <1>2 DEF IntakeInv, CoastInv, NumbersRise, Intake!CoastBounded
    <3>3. Run(c, 0)' /\ \A d \in Conns : Run(d, 0)' <=> Run(d, 0)
      BY <1>2, <3>1 DEF Run, Untouched
    <3>4. RunsOn'
      BY <1>2, <1>3, <1>8, <3>3 DEF IntakeInv, CoastInv, RunsOn
    <3> QED  BY <3>2, <3>4 DEF CoastInv
  <2> QED  BY <2>1, <2>2
<1>15. AckInv'
  BY <1>2, <1>3 DEF IntakeInv, AckInv, Intake!AckNotStranded
<1> QED  BY <1>9, <1>12, <1>13, <1>14, <1>15 DEF IntakeInv

LEMMA DriveKeeps ==
  ASSUME IntakeInv, Intake!Drive
  PROVE  IntakeInv'
<1> DEFINE c == holder
           fresh == latest[c] # 0
           seq == IF fresh THEN latest[c] ELSE held[c]
           left == IF fresh THEN HoldTicks ELSE remaining[c]
           rest == IF left > 0 THEN left - 1 ELSE 0
<1>1. /\ phase = "take" /\ phase' = "step"
      /\ latest' = [latest EXCEPT ![c] = 0] /\ held' = [held EXCEPT ![c] = seq]
      /\ remaining' = [remaining EXCEPT ![c] = rest]
      /\ driver' = IF left > 0 THEN Intake!Driving(c, seq) ELSE driver
      /\ UNCHANGED <<tick, pending, batch, holder, frame, active, received, ack, ackReady, writer, end,
                     barred, driven>>
  BY DEF Intake!Drive, Intake!ackVars
<1>2. c \in Conns /\ driver.conn = None
  BY <1>1 DEF IntakeInv, IntakeShape
<1>3. /\ latest[c] \in Nat /\ held[c] \in Nat /\ remaining[c] \in Nat /\ received[c] \in Nat
      /\ seq \in Nat /\ left \in 0..HoldTicks /\ rest \in 0..HoldTicks
  BY <1>2, IntentsAreNumbered DEF IntakeInv, IntakeShape, Numbered
<1>4. /\ held'[c] = seq /\ latest'[c] = 0 /\ remaining'[c] = rest
      /\ \A d \in Conns : d # c => held'[d] = held[d] /\ latest'[d] = latest[d] /\ remaining'[d] = remaining[d]
      /\ held' \in Numbered /\ latest' \in Numbered /\ remaining' \in [Conns -> 0..HoldTicks]
  BY <1>1, <1>2, <1>3 DEF IntakeInv, IntakeShape, Numbered
<1>5. /\ left > 0 => driver'.conn = c /\ driver'.seq = seq
      /\ left = 0 => driver' = driver
  BY <1>1, <1>3 DEF Intake!Driving
<1> HIDE DEF seq, left, rest
<1>6. IntakeShape'
  BY <1>1, <1>2, <1>3, <1>4, <1>5 DEF IntakeInv, IntakeShape
<1>7. QueueSound' /\ BarredOut'
  BY <1>1, QueueStays DEF IntakeInv
<1>8. NumbersRise'
  <2>1. ASSUME NEW d \in Conns
        PROVE  /\ held'[d] <= received'[d]
               /\ latest'[d] # 0 => held'[d] < latest'[d] /\ latest'[d] <= received'[d]
               /\ held[d] <= held'[d]
    <3>1. /\ held[d] \in Nat /\ held[d] <= received[d]
          /\ latest[d] # 0 => held[d] < latest[d] /\ latest[d] <= received[d]
      BY DEF IntakeInv, IntakeShape, CoastInv, NumbersRise, Numbered
    <3>2. CASE d = c
      BY <1>1, <1>3, <1>4, <3>1, <3>2 DEF seq
    <3>3. CASE d # c
      BY <1>1, <1>4, <3>1, <3>3
    <3> QED  BY <3>2, <3>3
  <2>2. ASSUME NEW d \in Conns, NEW i \in 1..Len(driven), driven[i].conn = d
        PROVE  driven[i].seq <= held'[d]
    <3>1. driven[i] \in [conn : Conns \cup {None}, seq : Nat]
      BY ElementOfSeq DEF IntakeInv, IntakeShape
    <3>2. driven[i].seq <= held[d]
      BY <2>2 DEF IntakeInv, CoastInv, NumbersRise
    <3>3. driven[i].seq \in Nat /\ held[d] \in Nat /\ held'[d] \in Nat
      BY <1>4, <3>1 DEF IntakeInv, IntakeShape, Numbered
    <3> QED  BY <2>1, <3>2, <3>3
  <2> QED  BY <1>1, <2>1, <2>2 DEF NumbersRise
<1>9. RunsOn'
  <2>1. ASSUME NEW d \in Conns, active[d] PROVE d = c
    BY <2>1 DEF IntakeInv, QueueSound
  <2>2. ASSUME left > 0
        PROVE  remaining'[c] < HoldTicks /\ Run(c, 1)'
    <3>1. CASE fresh
      <4>1. \A i \in 1..Len(driven) : driven[i].conn = c => driven[i].seq # held'[c]
        BY <1>2, <1>3, <1>4, <3>1 DEF IntakeInv, IntakeShape, CoastInv, NumbersRise, seq
      <4>2. Run(c, 1)'
        BY <1>1, <4>1 DEF Run
      <4> QED  BY <1>3, <1>4, <2>2, <3>1, <4>2, IntentsAreNumbered DEF left, rest
    <3>2. CASE ~fresh
      <4>1. left = remaining[c] /\ held'[c] = held[c] /\ remaining'[c] = remaining[c] - 1
        BY <1>3, <1>4, <2>2, <3>2 DEF seq, left, rest
      <4>2. Run(c, 0) /\ remaining[c] <= HoldTicks
        BY <1>1, <1>2, <2>2, <4>1 DEF IntakeInv, IntakeShape, CoastInv, RunsOn
      <4>3. tick \in Nat /\ Len(driven) = tick
        BY DEF IntakeInv, IntakeShape
      <4>4. Run(c, 1)'
        BY <1>1, <1>3, <4>1, <4>2, <4>3, IntentsAreNumbered DEF Run
      <4> QED  BY <1>3, <4>1, <4>2, <4>4, IntentsAreNumbered
    <3> QED  BY <3>1, <3>2
  <2>3. left = 0 => remaining'[c] = 0
    BY <1>3, <1>4 DEF rest
  <2> QED  BY <1>1, <1>2, <1>3, <1>4, <1>5, <2>1, <2>2, <2>3, IntentsAreNumbered DEF RunsOn
<1>10. Intake!CoastBounded'
  BY <1>1 DEF IntakeInv, CoastInv, Intake!CoastBounded
<1>11. AckInv'
  BY <1>1 DEF IntakeInv, AckInv, Intake!AckNotStranded
<1> QED  BY <1>6, <1>7, <1>8, <1>9, <1>10, <1>11 DEF IntakeInv, CoastInv

LEMMA StepKeeps ==
  ASSUME IntakeInv, Intake!WorldStep
  PROVE  IntakeInv'
<1> DEFINE e == [conn |-> driver.conn, seq |-> driver.seq]
<1>1. /\ phase = "step" /\ phase' = "after" /\ tick' = tick + 1 /\ driven' = Append(driven, e)
      /\ UNCHANGED <<pending, batch, holder, driver, frame, active, received, latest, held, remaining,
                     ack, ackReady, writer, end, barred>>
  BY DEF Intake!WorldStep, Intake!boxVars, Intake!stepVars, Intake!ackVars
<1>2. /\ e.conn = driver.conn /\ e.seq = driver.seq /\ e \in [conn : Conns \cup {None}, seq : Nat]
      /\ driven \in Seq([conn : Conns \cup {None}, seq : Nat]) /\ Len(driven) = tick /\ tick \in Nat
      /\ driver.conn # None => driver.conn = holder
  BY DEF IntakeInv, IntakeShape
<1> HIDE DEF e
<1>3. /\ driven' \in Seq([conn : Conns \cup {None}, seq : Nat]) /\ Len(driven') = tick + 1
      /\ driven'[tick + 1] = e /\ \A i \in 1..tick : driven'[i] = driven[i]
      /\ DOMAIN driven = 1..tick /\ DOMAIN driven' = 1..(tick + 1)
  <2> DEFINE S == [conn : Conns \cup {None}, seq : Nat]
  <2>1. driven \in Seq(S) /\ e \in S
    BY <1>2
  <2> HIDE DEF S
  <2>2. /\ Append(driven, e) \in Seq(S) /\ Len(Append(driven, e)) = Len(driven) + 1
        /\ Append(driven, e)[Len(driven) + 1] = e
        /\ \A i \in 1..Len(driven) : Append(driven, e)[i] = driven[i]
    BY <2>1, AppendProperties
  <2>3. driven' \in Seq(S) /\ Len(driven') = tick + 1
    BY <1>1, <1>2, <2>2
  <2>4. DOMAIN driven = 1..tick /\ DOMAIN driven' = 1..(tick + 1)
    BY <1>2, <2>1, <2>3, LenProperties
  <2> QED  BY <1>1, <1>2, <2>2, <2>3, <2>4 DEF S
<1>4. IntakeShape'
  BY <1>1, <1>2, <1>3 DEF IntakeInv, IntakeShape
<1>5. ASSUME NEW c \in Conns, Untouched(c) PROVE Untouched(c)'
  <2>1. holder # c /\ driver.conn # c
    BY <1>2, <1>5, IntentsAreNumbered DEF Untouched
  <2> QED  BY <1>1, <1>2, <1>3, <1>5, <2>1 DEF Untouched
<1>6. QueueSound' /\ BarredOut'
  BY <1>1, <1>5 DEF IntakeInv, QueueSound, BarredOut, Scheduled
<1>7. ASSUME NEW c \in Conns
      PROVE  /\ held[c] \in Nat /\ remaining[c] \in 0..HoldTicks
             /\ driver.conn = c => driver.seq = held[c] /\ remaining[c] < HoldTicks /\ Run(c, 1)
             /\ driver.conn # c /\ active[c] => remaining[c] = 0
             /\ \A i \in 1..tick : driven[i].conn = c => driven[i].seq <= held[c]
  BY <1>1, <1>2 DEF IntakeInv, IntakeShape, Numbered, CoastInv, RunsOn, NumbersRise
<1>8. NumbersRise'
  <2>1. ASSUME NEW c \in Conns, NEW i \in 1..(tick + 1), driven'[i].conn = c
        PROVE  driven'[i].seq <= held[c]
    <3>1. CASE i = tick + 1
      BY <1>2, <1>3, <1>7, <2>1, <3>1
    <3>2. CASE i # tick + 1
      <4>1. i \in 1..tick
        BY <1>2, <3>2
      <4> QED  BY <1>3, <1>7, <2>1, <4>1
    <3> QED  BY <3>1, <3>2
  <2> QED  BY <1>1, <1>3, <2>1 DEF IntakeInv, CoastInv, NumbersRise
<1>9. RunsOn'
  <2>1. ASSUME NEW c \in Conns, driver.conn = c PROVE Run(c, 0)'
    <3>1. ASSUME NEW i \in 1..(tick + 1), driven'[i].conn = c, driven'[i].seq = held[c]
          PROVE  driven'[tick + 1] = driven'[i] /\ tick + 1 - i + remaining[c] < HoldTicks
      <4>1. CASE i = tick + 1
        BY <1>2, <1>7, <2>1, <4>1, IntentsAreNumbered
      <4>2. CASE i # tick + 1
        <5>1. i \in 1..tick /\ driven'[i] = driven[i]
          BY <1>2, <1>3, <4>2
        <5>2. tick + 1 - i + remaining[c] < HoldTicks
          BY <1>2, <1>7, <2>1, <3>1, <5>1 DEF Run
        <5>3. e = driven[i]
          <6>1. driven[i] \in [conn : Conns \cup {None}, seq : Nat]
            BY <1>2, <5>1, ElementOfSeq
          <6>2. driven[i].conn = e.conn /\ driven[i].seq = e.seq
            BY <1>2, <1>7, <2>1, <3>1, <5>1
          <6> QED  BY <1>2, <6>1, <6>2
        <5> QED  BY <1>3, <5>1, <5>2, <5>3
      <4> QED  BY <4>1, <4>2
    <3> QED  BY <1>1, <1>2, <1>3, <3>1, IntentsAreNumbered DEF Run
  <2> QED  BY <1>1, <1>7, <2>1 DEF RunsOn
<1>10. Intake!CoastBounded'
  <2>1. ASSUME NEW i \in 1..(tick + 1), NEW j \in 1..(tick + 1), i < j,
               driven'[i].conn = driven'[j].conn, driven'[i].conn # None
        PROVE  /\ driven'[i].seq <= driven'[j].seq
               /\ driven'[i].seq = driven'[j].seq => j - i < HoldTicks /\ driven'[j - 1] = driven'[i]
    <3>1. i \in 1..tick /\ driven'[i] = driven[i]
      BY <1>2, <1>3, <2>1
    <3>2. CASE j # tick + 1
      <4>1. j \in 1..tick /\ j - 1 \in 1..tick
        BY <1>2, <2>1, <3>2
      <4>2. driven'[j] = driven[j] /\ driven'[j - 1] = driven[j - 1]
        BY <1>3, <4>1
      <4> QED  BY <1>3, <2>1, <3>1, <4>1, <4>2 DEF IntakeInv, CoastInv, Intake!CoastBounded
    <3>3. CASE j = tick + 1
      <4> DEFINE c == driver.conn
      <4>1. driven'[j] = e /\ driven[i].conn = c /\ c # None
        BY <1>2, <1>3, <2>1, <3>1, <3>3
      <4>2. c \in Conns
        BY <1>2, <4>1 DEF IntakeInv, IntakeShape
      <4>3. /\ held[c] \in Nat /\ remaining[c] \in Nat /\ e.seq = held[c] /\ driven[i].seq <= held[c]
            /\ Run(c, 1)
        BY <1>2, <1>7, <3>1, <4>1, <4>2
      <4>4. ASSUME driven[i].seq = held[c]
            PROVE  driven[tick] = driven[i] /\ tick + 1 - i < HoldTicks
        BY <1>2, <3>1, <4>1, <4>3, <4>4, IntentsAreNumbered DEF Run
      <4>5. j - 1 = tick /\ tick \in 1..tick
        BY <1>2, <3>1, <3>3
      <4> QED  BY <1>3, <3>1, <3>3, <4>1, <4>3, <4>4, <4>5
    <3> QED  BY <3>2, <3>3
  <2> QED  BY <1>3, <2>1 DEF Intake!CoastBounded
<1>11. AckInv'
  BY <1>1 DEF IntakeInv, AckInv, Intake!AckNotStranded
<1> QED  BY <1>4, <1>6, <1>8, <1>9, <1>10, <1>11 DEF IntakeInv, CoastInv

LEMMA AckKeeps ==
  ASSUME IntakeInv, Intake!AckMovement
  PROVE  IntakeInv'
<1>1. /\ phase \in {"reattach", "token"} /\ batch = <<>>
      /\ UNCHANGED <<tick, pending, batch, holder, driver, frame, active, received, latest, held, remaining,
                     writer, end, barred, driven>>
  BY DEF Intake!AckMovement, Intake!boxVars
<1>2. \/ /\ phase = "reattach" /\ phase' = "token" /\ ackReady' = ackReady /\ holder # None
         /\ \E a : ack' = [ack EXCEPT ![holder] = a]
      \/ /\ phase = "token" /\ phase' = "before" /\ ack' = ack /\ holder # None
         /\ ackReady' = [ackReady EXCEPT ![holder] = TRUE]
      \/ phase = "reattach" /\ phase' = "before" /\ UNCHANGED <<ack, ackReady>>
  <2>1. CASE \E c \in Intake!Attached :
               /\ (phase = "token" \/ active[c]) /\ Intake!AckStage(phase, c)
               /\ phase' = IF phase = "reattach" THEN "token" ELSE "before"
    <3>1. holder # None /\ Intake!AckStage(phase, holder)
          /\ phase' = IF phase = "reattach" THEN "token" ELSE "before"
      BY <2>1 DEF Intake!Attached
    <3> QED  BY <1>1, <3>1 DEF Intake!AckStage, Intake!LeaveAck, Intake!LeaveToken
  <2>2. CASE phase = "reattach" /\ phase' = "before" /\ UNCHANGED <<ack, ackReady>>
    BY <2>2
  <2> QED  BY <2>1, <2>2 DEF Intake!AckMovement
<1>3. IntakeShape'
  BY <1>1, <1>2 DEF IntakeInv, IntakeShape
<1>4. QueueSound' /\ BarredOut'
  <2>1. phase' \in {"token", "before"}
    BY <1>2
  <2> QED  BY <1>1, <2>1, QueueStays DEF IntakeInv
<1>5. CoastInv'
  BY <1>1, <1>2, RunsStay DEF IntakeInv
<1>6. AckInv'
  <2>1. holder # None => holder \in Conns
    BY DEF IntakeInv, IntakeShape
  <2>2. ASSUME NEW c \in Conns, ack'[c] # Intake!NoAck
        PROVE  ackReady'[c] \/ writer'[c] = "woken" \/ (phase' = "token" /\ holder' = c)
    BY <1>1, <1>2, <2>1, <2>2 DEF IntakeInv, IntakeShape, AckInv, Intake!AckNotStranded
  <2> QED  BY <1>1, <2>2 DEF IntakeInv, AckInv, Intake!AckNotStranded
<1> QED  BY <1>3, <1>4, <1>5, <1>6 DEF IntakeInv

-----------------------------------------------------------------------------
LEMMA IntakeKeeps ==
  ASSUME IntakeInv, [Intake!Next]_(Intake!vars)
  PROVE  IntakeInv'
<1>1. ASSUME UNCHANGED Intake!vars PROVE IntakeInv'
  <2>1. UNCHANGED <<phase, tick, pending, batch, holder, driver, frame, active, received, latest, held,
                   remaining, ack, ackReady, writer, end, barred, driven>>
    BY <1>1 DEF Intake!vars, Intake!simVars, Intake!boxVars, Intake!stepVars, Intake!ackVars
  <2>2. IntakeShape'
    BY <2>1 DEF IntakeInv, IntakeShape
  <2>3. QueueSound' /\ BarredOut'
    BY <2>1, QueueStays DEF IntakeInv
  <2>4. CoastInv'
    BY <2>1, RunsStay DEF IntakeInv
  <2>5. AckInv'
    BY <2>1 DEF IntakeInv, AckInv, Intake!AckNotStranded
  <2> QED  BY <2>2, <2>3, <2>4, <2>5 DEF IntakeInv
<1>2. ASSUME Intake!SimStep PROVE IntakeInv'
  BY <1>2, TakeKeeps, RunKeeps, ZeroKeeps, DriveKeeps, StepKeeps, AckKeeps DEF Intake!SimStep
<1>3. ASSUME NEW c \in Conns, Intake!ConnStep(c) PROVE IntakeInv'
  BY <1>3, OpenKeeps, ReceiveKeeps, OfferKeeps, DeactivateKeeps, ReleaseKeeps, WriterKeeps DEF Intake!ConnStep
<1> QED  BY <1>1, <1>2, <1>3 DEF Intake!Next

\* A behaviour of the intake consists of its steps.
LEMMA IntakeRuns ==
  ASSUME part = "intake", [TierNext]_tierVars
  PROVE  part' = part /\ [Intake!Next]_(Intake!vars)
BY DEF TierNext, tierVars, intakeVars, frameVars, simVars, Intake!vars, Intake!simVars, Intake!boxVars,
       Intake!stepVars, Intake!ackVars

\* An intent drives at most as many steps as the hold, in a row, and none once a newer
\* one drove; the input of a connection whose release was queued before a tick drives no
\* step of it; and the last acknowledgement of a connection reaches its writer: for any
\* number of connections of an observer, however their goroutines, the simulation and
\* the ends of connections interleave.
THEOREM InputIsAccounted == TierSpec => []InputAccounted
<1> DEFINE I == part = "intake" => IntakeInv
<1>1. TierInit => I
  BY IntakeStarts DEF TierInit
<1>2. I /\ [TierNext]_tierVars => I'
  <2>1. ASSUME part = "intake", IntakeInv, [TierNext]_tierVars PROVE IntakeInv'
    BY <2>1, IntakeRuns, IntakeKeeps
  <2>2. ASSUME part # "intake", [TierNext]_tierVars PROVE part' # "intake"
    BY <2>2 DEF TierNext, tierVars
  <2> QED  BY <2>1, <2>2
<1>3. I => InputAccounted
  <2>1. ASSUME IntakeInv PROVE Intake!CoastBounded /\ Intake!AckNotStranded /\ Intake!EndedDrivesNothing
    <3>1. phase \in {"take", "step"} => driver.conn \notin barred
      BY <2>1, IntentsAreNumbered DEF IntakeInv, IntakeShape, BarredOut
    <3> QED  BY <2>1, <3>1 DEF IntakeInv, CoastInv, AckInv, BarredOut, Intake!EndedDrivesNothing
  <2> QED  BY <2>1 DEF InputAccounted
<1> QED  BY <1>1, <1>2, <1>3, PTL DEF TierSpec

-----------------------------------------------------------------------------
(***************************************************************************)
(* The combat.                                                             *)
(*                                                                         *)
(* Lists        each number of a finite set in ascending order, once       *)
(* Folds        a recursion over the places of a list stays where its      *)
(*              steps stay, by induction over the sets of places           *)
(* Damage       each blow tells at most one death, of the one it kills     *)
(* Invariant    a mob has one telegraph while it waits for it              *)
(***************************************************************************)
(***************************************************************************)
(* Lists.                                                                  *)
(***************************************************************************)
Lower(S, n) == {o \in S : o < n}
Rank(S) == [n \in S |-> Cardinality(Lower(S, n)) + 1]

LEMMA RankIsInjective ==
  ASSUME NEW S, IsFiniteSet(S), S \subseteq Int
  PROVE  Rank(S) \in Injection(S, 1..Cardinality(S))
<1>1. Cardinality(S) \in Nat
  BY FS_CardinalityType
<1>2. ASSUME NEW n \in S
      PROVE  IsFiniteSet(Lower(S, n)) /\ Cardinality(Lower(S, n)) \in Nat /\ Cardinality(Lower(S, n)) < Cardinality(S)
  <2>1. Lower(S, n) \in SUBSET S /\ Lower(S, n) # S
    BY DEF Lower
  <2>2. /\ IsFiniteSet(Lower(S, n)) /\ Cardinality(Lower(S, n)) <= Cardinality(S)
        /\ Cardinality(S) = Cardinality(Lower(S, n)) => S = Lower(S, n)
    BY <2>1, FS_Subset
  <2>3. Cardinality(Lower(S, n)) \in Nat
    BY <2>2, FS_CardinalityType
  <2> QED  BY <1>1, <2>1, <2>2, <2>3
<1>3. Rank(S) \in [S -> 1..Cardinality(S)]
  <2>1. \A n \in S : Cardinality(Lower(S, n)) + 1 \in 1..Cardinality(S)
    BY <1>1, <1>2
  <2> QED  BY <2>1 DEF Rank
<1>4. ASSUME NEW m \in S, NEW n \in S, m < n PROVE Rank(S)[m] < Rank(S)[n]
  <2>1. Lower(S, m) \in SUBSET Lower(S, n) /\ Lower(S, m) # Lower(S, n)
    <3>1. \A o \in S : o \in Int
      OBVIOUS
    <3>2. m \in Lower(S, n) /\ m \notin Lower(S, m)
      BY <1>4, <3>1 DEF Lower
    <3>3. \A o \in Lower(S, m) : o \in Lower(S, n)
      BY <1>4, <3>1 DEF Lower
    <3> QED  BY <3>2, <3>3
  <2>2. IsFiniteSet(Lower(S, n)) /\ IsFiniteSet(Lower(S, m))
    BY <1>2
  <2>3. /\ Cardinality(Lower(S, m)) <= Cardinality(Lower(S, n))
        /\ Cardinality(Lower(S, n)) = Cardinality(Lower(S, m)) => Lower(S, n) = Lower(S, m)
    BY <2>1, <2>2, FS_Subset
  <2>4. Cardinality(Lower(S, m)) < Cardinality(Lower(S, n))
    BY <1>2, <2>1, <2>3
  <2> QED  BY <1>2, <2>4 DEF Rank
<1>5. \A m, n \in S : Rank(S)[m] = Rank(S)[n] => m = n
  <2>1. SUFFICES ASSUME NEW m \in S, NEW n \in S, Rank(S)[m] = Rank(S)[n], m # n PROVE FALSE
    OBVIOUS
  <2>2. m \in Int /\ n \in Int /\ Rank(S)[m] \in Int
    BY <1>3
  <2> QED  BY <1>4, <2>1, <2>2
<1> QED  BY <1>3, <1>5 DEF Injection, IsInjective

\* A function on 1..n is a sequence of n.
LEMMA ListOf ==
  ASSUME NEW X, NEW n \in Nat, NEW l \in [1..n -> X]
  PROVE  l \in Seq(X) /\ Len(l) = n /\ DOMAIN l = 1..n
<1>1. l \in Seq(X)
  BY SeqDef
<1>2. Len(l) \in Nat /\ 1..n = 1..Len(l)
  BY <1>1, LenProperties
<1> QED  BY <1>1, <1>2

LEMMA AscendingLists ==
  ASSUME NEW S, IsFiniteSet(S), S \subseteq Int
  PROVE  LET l == Sim!Ascending(S)  n == Cardinality(S) IN
         /\ n \in Nat /\ l \in Seq(S) /\ Len(l) = n /\ DOMAIN l = 1..n
         /\ \A j, k \in 1..n : l[j] = l[k] => j = k
         /\ \A x \in S : \E k \in 1..n : l[k] = x
<1> DEFINE l == Sim!Ascending(S)
           n == Cardinality(S)
<1>1. n \in Nat
  BY FS_CardinalityType
<1>2. Rank(S) \in Surjection(S, 1..n)
  <2>1. Rank(S) \in Injection(S, 1..n)
    BY RankIsInjective
  <2>2. IsFiniteSet(1..n) /\ Cardinality(1..n) = n
    BY <1>1, FS_Interval
  <2> QED  BY <2>1, <2>2, FS_Injection
<1>3. \A k \in 1..n : \E x \in S : Cardinality(Lower(S, x)) = k - 1
  <2>1. SUFFICES ASSUME NEW k \in 1..n PROVE \E x \in S : Cardinality(Lower(S, x)) = k - 1
    OBVIOUS
  <2>2. PICK x \in S : Rank(S)[x] = k
    BY <1>2 DEF Surjection
  <2>3. Cardinality(Lower(S, x)) + 1 = k /\ Cardinality(Lower(S, x)) \in Nat
    <3>1. Lower(S, x) \in SUBSET S
      BY DEF Lower
    <3> QED  BY <2>2, <3>1, FS_Subset, FS_CardinalityType DEF Rank
  <2> QED  BY <2>3
<1>4. l = [k \in 1..n |-> CHOOSE x \in S : Cardinality(Lower(S, x)) = k - 1]
  BY DEF Sim!Ascending, Sim!Cardinality, Cardinality, Lower
<1>5. \A k \in 1..n : l[k] \in S /\ Cardinality(Lower(S, l[k])) = k - 1
  BY <1>3, <1>4
<1> HIDE DEF l, n
<1>6. l \in [1..n -> S]
  BY <1>4, <1>5
<1>7. l \in Seq(S) /\ Len(l) = n /\ DOMAIN l = 1..n
  BY <1>1, <1>6, ListOf
<1>8. \A j, k \in 1..n : l[j] = l[k] => j = k
  BY <1>1, <1>5
<1>9. ASSUME NEW x \in S PROVE \E k \in 1..n : l[k] = x
  <2>1. Rank(S) \in Injection(S, 1..n)
    BY RankIsInjective DEF n
  <2>2. Rank(S)[x] \in 1..n
    BY <2>1 DEF Injection, IsInjective
  <2>3. l[Rank(S)[x]] \in S /\ Rank(S)[l[Rank(S)[x]]] = Rank(S)[x]
    BY <1>1, <1>5, <2>2 DEF Rank
  <2>4. l[Rank(S)[x]] = x
    BY <2>1, <2>3 DEF Injection, IsInjective
  <2> QED  BY <2>2, <2>4
<1> QED  BY <1>1, <1>7, <1>8, <1>9 DEF l, n

\* Where the entries of a list come from: a place each.
Drawn(l, n, list, places, at) ==
  /\ at \in [1..n -> places]
  /\ \A j, k \in 1..n : l[k] = list[at[k]] /\ (at[j] = at[k] => j = k)

\* The entries at some places of a list, each once.
LEMMA EntriesAt ==
  ASSUME NEW X, NEW list \in Seq(X), NEW places \in SUBSET (1..Len(list))
  PROVE  LET l == Sim!At(list, places)  n == Cardinality(places) IN
         /\ IsFiniteSet(places) /\ n \in Nat /\ l \in Seq(X) /\ Len(l) = n /\ DOMAIN l = 1..n
         /\ \A k \in 1..n : \E p \in places : l[k] = list[p]
         /\ \A p \in places : \E k \in 1..n : l[k] = list[p]
         /\ \E at : Drawn(l, n, list, places, at)
<1> DEFINE o == Sim!Ascending(places)
           l == Sim!At(list, places)
           n == Cardinality(places)
<1>1. IsFiniteSet(places) /\ places \subseteq Int
  <2>1. Len(list) \in Nat
    BY LenProperties
  <2>2. IsFiniteSet(1..Len(list)) /\ 1..Len(list) \subseteq Int
    BY <2>1, FS_Interval
  <2> QED  BY <2>2, FS_Subset
<1>2. /\ n \in Nat /\ o \in Seq(places) /\ Len(o) = n /\ DOMAIN o = 1..n
      /\ \A j, k \in 1..n : o[j] = o[k] => j = k
      /\ \A x \in places : \E k \in 1..n : o[k] = x
  BY <1>1, AscendingLists
<1>3. l = [k \in DOMAIN o |-> list[o[k]]]
  BY DEF Sim!At
<1> HIDE DEF o, l, n
<1>4. \A k \in 1..n : o[k] \in places /\ l[k] = list[o[k]] /\ list[o[k]] \in X
  <2>1. ASSUME NEW k \in 1..n PROVE o[k] \in places
    BY <1>2, <2>1, ElementOfSeq
  <2>2. \A p \in places : list[p] \in X
    BY ElementOfSeq
  <2> QED  BY <1>2, <1>3, <2>1, <2>2
<1>5. l \in [1..n -> X]
  BY <1>2, <1>3, <1>4
<1>6. l \in Seq(X) /\ Len(l) = n /\ DOMAIN l = 1..n
  BY <1>2, <1>5, ListOf
<1>7. o \in [1..n -> places]
  BY <1>2, <1>4, LenProperties
<1>8. \A p \in places : \E k \in 1..n : l[k] = list[p]
  BY <1>2, <1>4
<1>9. \A j, k \in 1..n : l[k] = list[o[k]] /\ (o[j] = o[k] => j = k)
  BY <1>2, <1>4
<1>10. Drawn(l, n, list, places, o)
  BY <1>7, <1>9 DEF Drawn
<1>11. \A k \in 1..n : \E p \in places : l[k] = list[p]
  BY <1>4
<1> QED  BY <1>1, <1>2, <1>6, <1>8, <1>10, <1>11 DEF l, n

-----------------------------------------------------------------------------
(***************************************************************************)
(* Folds.                                                                  *)
(***************************************************************************)
\* A family of subsets of a finite set has a member that contains no other.
LEMMA LeastSubset ==
  ASSUME NEW S, IsFiniteSet(S), NEW T \in SUBSET SUBSET S, T # {}
  PROVE  \E x \in T : \A y \in T : ~(y \subseteq x /\ y # x)
<1> DEFINE R == StrictSubsetOrdering(S)
<1>1. IsWellFoundedOn(R, SUBSET S)
  BY FS_StrictSubsetOrderingWellFounded, FS_FiniteSubsetsOfFinite
<1>2. \E x \in T : \A y \in T : ~(<<y, x>> \in R)
  <2> HIDE DEF R
  <2> QED  BY <1>1, WFMin, Zenon
<1> QED  BY <1>2 DEF StrictSubsetOrdering

\* So a finite set of numbers has a largest.
LEMMA LargestIn ==
  ASSUME NEW S, IsFiniteSet(S), \A n \in S : n \in Int, NEW t \in SUBSET S, t # {}
  PROVE  Sim!Max(t) \in t
<1> DEFINE Above(x) == {o \in t : x < o}
           T == {u \in SUBSET S : \E x \in t : u = Above(x)}
<1>1. \E x \in T : \A y \in T : ~(y \subseteq x /\ y # x)
  <2>1. T \in SUBSET SUBSET S
    OBVIOUS
  <2>2. T # {}
    <3>1. PICK x \in t : TRUE
      OBVIOUS
    <3>2. Above(x) \in SUBSET S
      OBVIOUS
    <3>3. Above(x) \in T
      BY <3>1, <3>2
    <3> QED  BY <3>3
  <2> HIDE DEF T
  <2> QED  BY <2>1, <2>2, LeastSubset
<1>2. PICK x \in t : \A y \in t : ~(Above(y) \subseteq Above(x) /\ Above(y) # Above(x))
  <2>1. PICK u \in T : \A y \in T : ~(y \subseteq u /\ y # u)
    BY <1>1
  <2>2. PICK x \in t : u = Above(x)
    OBVIOUS
  <2>3. \A y \in t : Above(y) \in T
    OBVIOUS
  <2> HIDE DEF T, Above
  <2> QED  BY <2>1, <2>2, <2>3
<1>3. \A y \in t : y \in Int
  OBVIOUS
<1>4. \A y \in t : x >= y
  <2>1. SUFFICES ASSUME NEW y \in t, x < y PROVE FALSE
    BY <1>3
  <2>2. \A o \in Above(y) : o \in Above(x)
    BY <1>3, <2>1
  <2>3. y \in Above(x) /\ y \notin Above(y)
    BY <1>3, <2>1
  <2> HIDE DEF Above
  <2> QED  BY <1>2, <2>2, <2>3
<1>5. \E z \in t : \A y \in t : z >= y
  BY <1>4
<1> QED  BY <1>5 DEF Sim!Max

\* A place is picked of every set of places.
Picks(pick, S) == \A v \in SUBSET S : v # {} => pick[v] \in v

\* The partial results of a fold: one for every set of places, from that of the set
\* without the place that is picked of it.
PartialsOf(base, next, pick, s, g) ==
  g = [t \in SUBSET s |-> IF t = {} THEN base ELSE next[<<g[t \ {pick[t]}], pick[t]>>]]

\* A partial result is what its definition says.
LEMMA PartialAt ==
  ASSUME NEW base, NEW next, NEW pick, NEW s, NEW g, PartialsOf(base, next, pick, s, g), NEW t \in SUBSET s
  PROVE  g[t] = IF t = {} THEN base ELSE next[<<g[t \ {pick[t]}], pick[t]>>]
<1> DEFINE h == [u \in SUBSET s |-> IF u = {} THEN base ELSE next[<<g[u \ {pick[u]}], pick[u]>>]]
<1>1. h[t] = IF t = {} THEN base ELSE next[<<g[t \ {pick[t]}], pick[t]>>]
  OBVIOUS
<1>2. g = h
  BY DEF PartialsOf
<1> HIDE DEF h
<1> QED  BY <1>1, <1>2

\* Where two sets of places overlap, their partial results are the same.
LEMMA PartialsAgree ==
  ASSUME NEW S, IsFiniteSet(S), NEW base, NEW next, NEW pick,
         Picks(pick, S),
         NEW s \in SUBSET S, NEW u \in SUBSET S, NEW g, NEW h,
         PartialsOf(base, next, pick, s, g), PartialsOf(base, next, pick, u, h),
         NEW t \in SUBSET S, t \subseteq s, t \subseteq u
  PROVE  g[t] = h[t]
<1> DEFINE T == {v \in SUBSET S : v \subseteq s /\ v \subseteq u /\ g[v] # h[v]}
<1> SUFFICES ASSUME T # {} PROVE FALSE
  OBVIOUS
<1>1. PICK x \in T : \A y \in T : ~(y \subseteq x /\ y # x)
  <2>1. T \in SUBSET SUBSET S
    OBVIOUS
  <2> HIDE DEF T
  <2> QED  BY <2>1, LeastSubset
<1>2. g[x] = IF x = {} THEN base ELSE next[<<g[x \ {pick[x]}], pick[x]>>]
  BY PartialAt
<1>3. h[x] = IF x = {} THEN base ELSE next[<<h[x \ {pick[x]}], pick[x]>>]
  <2>1. x \in SUBSET u
    OBVIOUS
  <2> QED  BY <2>1, PartialAt
<1>4. x # {}
  BY <1>2, <1>3
<1>5. x \ {pick[x]} \subseteq x /\ x \ {pick[x]} # x
  BY <1>4 DEF Picks
<1>6. g[x \ {pick[x]}] = h[x \ {pick[x]}]
  BY <1>1, <1>5
<1> QED  BY <1>2, <1>3, <1>4, <1>6

\* Every finite set of places has its partial results.
LEMMA PartialsExist ==
  ASSUME NEW S, IsFiniteSet(S), NEW base, NEW next, NEW pick, Picks(pick, S)
  PROVE  \E g : PartialsOf(base, next, pick, S, g)
<1> DEFINE P(u, g) == PartialsOf(base, next, pick, u, g)
           T == {s \in SUBSET S : \A g : ~P(s, g)}
<1> SUFFICES ASSUME T # {} PROVE FALSE
  OBVIOUS
<1>1. PICK s \in T : \A y \in T : ~(y \subseteq s /\ y # s)
  <2>1. T \in SUBSET SUBSET S
    OBVIOUS
  <2> HIDE DEF T
  <2> QED  BY <2>1, LeastSubset
<1> DEFINE G(u) == CHOOSE g : P(u, g)
           Less(t) == t \ {pick[t]}
           h == [t \in SUBSET s |-> IF t = {} THEN base ELSE next[<<G(Less(t))[Less(t)], pick[t]>>]]
<1>2. ASSUME NEW u \in SUBSET s, u # s PROVE P(u, G(u))
  <2>1. u \notin T
    BY <1>1, <1>2
  <2>2. \E g : P(u, g)
    BY <2>1
  <2> QED  BY <2>2
<1>3. ASSUME NEW t \in SUBSET s, t # {} PROVE h[Less(t)] = G(Less(t))[Less(t)]
  <2> DEFINE u == Less(t)
             v == Less(u)
  <2>1. u \in SUBSET s /\ u # s
    BY <1>3 DEF Picks
  <2>2. P(u, G(u))
    BY <1>2, <2>1
  <2>3. G(u)[u] = IF u = {} THEN base ELSE next[<<G(u)[v], pick[u]>>]
    <3> HIDE DEF G, u
    <3> QED  BY <2>2, PartialAt
  <2>4. h[u] = IF u = {} THEN base ELSE next[<<G(v)[v], pick[u]>>]
    <3> HIDE DEF G, u, v, Less
    <3> QED  BY <2>1 DEF v
  <2>5. ASSUME u # {} PROVE G(u)[v] = G(v)[v]
    <3>1. v \in SUBSET s /\ v # s /\ v \subseteq u
      BY <2>1, <2>5 DEF Picks
    <3>2. P(v, G(v))
      BY <1>2, <3>1
    <3>3. u \in SUBSET S /\ v \in SUBSET S
      BY <2>1, <3>1
    <3> HIDE DEF G, u, v
    <3> QED  BY <2>2, <3>1, <3>2, <3>3, PartialsAgree
  <2> HIDE DEF G, h, v, u
  <2>6. h[u] = G(u)[u]
    BY <2>3, <2>4, <2>5
  <2> QED  BY <2>6 DEF u
<1>4. P(s, h)
  <2> DEFINE A(t) == IF t = {} THEN base ELSE next[<<G(Less(t))[Less(t)], pick[t]>>]
             B(t) == IF t = {} THEN base ELSE next[<<h[Less(t)], pick[t]>>]
  <2>1. \A t \in SUBSET s : A(t) = B(t)
    <3> HIDE DEF G, h, Less
    <3> QED  BY <1>3
  <2>2. h = [t \in SUBSET s |-> A(t)]
    OBVIOUS
  <2>3. h = [t \in SUBSET s |-> B(t)]
    <3> HIDE DEF A, B, h
    <3> QED  BY <2>1, <2>2
  <2> HIDE DEF h
  <2> QED  BY <2>3 DEF PartialsOf
<1> QED  BY <1>1, <1>4

\* The induction of a fold: a family that has the empty set and, with a set without the
\* place picked of it, the set, has them all.
Inherits(T, S, pick) ==
  /\ T \in SUBSET SUBSET S /\ {} \in T
  /\ \A t \in SUBSET S : t # {} /\ t \ {pick[t]} \in T => t \in T

LEMMA FoldInduction ==
  ASSUME NEW S, IsFiniteSet(S), NEW pick, Picks(pick, S),
         NEW T, Inherits(T, S, pick)
  PROVE  T = SUBSET S
<1> USE DEF Inherits
<1> DEFINE F == (SUBSET S) \ T
<1> SUFFICES ASSUME F # {} PROVE FALSE
  OBVIOUS
<1>1. PICK x \in F : \A y \in F : ~(y \subseteq x /\ y # x)
  <2>1. F \in SUBSET SUBSET S
    OBVIOUS
  <2> HIDE DEF F
  <2> QED  BY <2>1, LeastSubset
<1>2. x # {} /\ pick[x] \in x
  BY DEF Picks
<1>3. x \ {pick[x]} \in T
  BY <1>1, <1>2
<1> QED  BY <1>2, <1>3

\* The partial results are all of a set.
FoldsIn(S, D, base, next, pick, g) ==
  /\ g \in [SUBSET S -> D]
  /\ \A t \in SUBSET S : g[t] = IF t = {} THEN base ELSE next[<<g[t \ {pick[t]}], pick[t]>>]

\* A fold whose steps stay in a set stays in it.
LEMMA FoldStays ==
  ASSUME NEW S, IsFiniteSet(S), NEW pick, Picks(pick, S),
         NEW D, NEW base \in D, NEW next \in [D \X S -> D]
  PROVE  \E g : FoldsIn(S, D, base, next, pick, g)
<1>1. PICK g : PartialsOf(base, next, pick, S, g)
  BY PartialsExist
<1>2. \A t \in SUBSET S : g[t] = IF t = {} THEN base ELSE next[<<g[t \ {pick[t]}], pick[t]>>]
  BY <1>1, PartialAt
<1> DEFINE T == {t \in SUBSET S : g[t] \in D}
<1>3. ASSUME NEW t \in SUBSET S, t # {}, t \ {pick[t]} \in T PROVE t \in T
  <2>1. g[t] = next[<<g[t \ {pick[t]}], pick[t]>>] /\ pick[t] \in S
    BY <1>2, <1>3 DEF Picks
  <2>2. <<g[t \ {pick[t]}], pick[t]>> \in D \X S
    BY <1>3, <2>1
  <2> QED  BY <2>1, <2>2
<1>4. T = SUBSET S
  <2>1. {} \in T
    BY <1>2
  <2>2. Inherits(T, S, pick)
    BY <1>3, <2>1 DEF Inherits
  <2> HIDE DEF T
  <2> QED  BY <2>2, FoldInduction
<1>5. g = [t \in SUBSET S |-> g[t]]
  BY <1>1 DEF PartialsOf
<1>6. g \in [SUBSET S -> D]
  BY <1>4, <1>5
<1> QED  BY <1>2, <1>6 DEF FoldsIn

-----------------------------------------------------------------------------
(***************************************************************************)
(* Damage.                                                                 *)
(***************************************************************************)
\* What a zone is made of once its actors and mobs are added.
ZoneInv ==
  /\ IsFiniteSet(Sim!Actors) /\ Sim!Actors \subseteq Int /\ Sim!Mobs \subseteq Sim!Actors
  /\ \A e \in Sim!Actors : Sim!Actor(e).maxHealth \in Nat
  /\ \A m \in Sim!Mobs : Sim!Mob(m).cast \in Nat \ {0} /\ Sim!Mob(m).damage \in Nat

\* The health of everyone and the deaths told: each actor once, and told exactly when it
\* has a pool and nothing left in it.
Scores ==
  {s \in [health : [Sim!Actors -> Nat], deaths : Seq([tick : Nat, entity : Sim!Actors])] :
     /\ \A j, k \in 1..Len(s.deaths) : s.deaths[j].entity = s.deaths[k].entity => j = k
     /\ \A e \in Sim!Actors :
          (\E k \in 1..Len(s.deaths) : s.deaths[k].entity = e)
            <=> Sim!Actor(e).maxHealth > 0 /\ s.health[e] = 0}

\* One blow.
LEMMA HurtStays ==
  ASSUME ZoneInv, tick \in Nat, NEW s \in Scores, NEW e \in Sim!Actors, NEW damage \in Nat
  PROVE  Sim!Hurt(s, e, damage) \in Scores
<1> DEFINE Death == [tick : Nat, entity : Sim!Actors]
<1>1. /\ s \in [health : [Sim!Actors -> Nat], deaths : Seq(Death)]
      /\ \A j, k \in 1..Len(s.deaths) : s.deaths[j].entity = s.deaths[k].entity => j = k
      /\ \A a \in Sim!Actors : (\E k \in 1..Len(s.deaths) : s.deaths[k].entity = a)
                                 <=> Sim!Actor(a).maxHealth > 0 /\ s.health[a] = 0
  BY DEF Scores
<1>2. s.health \in [Sim!Actors -> Nat] /\ s.deaths \in Seq(Death) /\ Len(s.deaths) \in Nat
  BY <1>1
<1>3. Sim!Actor(e).maxHealth \in Nat
  BY DEF ZoneInv
<1>4. CASE Sim!Spared(s, e)
  BY <1>4 DEF Sim!Hurt
<1>5. CASE ~Sim!Spared(s, e) /\ s.health[e] > damage
  <2> DEFINE u == [s EXCEPT !.health[e] = @ - damage]
  <2>1. Sim!Hurt(s, e, damage) = u
    BY <1>5 DEF Sim!Hurt
  <2>2. u.deaths = s.deaths /\ u.health = [s.health EXCEPT ![e] = @ - damage]
    BY <1>1
  <2>3. s.health[e] - damage \in Nat \ {0} /\ s.health[e] # 0
    BY <1>2, <1>5
  <2>4. u \in [health : [Sim!Actors -> Nat], deaths : Seq(Death)]
    BY <1>1, <1>2, <2>3
  <2>5. \A a \in Sim!Actors : u.health[a] = 0 <=> s.health[a] = 0
    BY <1>2, <2>2, <2>3
  <2> HIDE DEF u
  <2> QED  BY <1>1, <2>1, <2>2, <2>4, <2>5 DEF Scores
<1>6. CASE ~Sim!Spared(s, e) /\ ~(s.health[e] > damage)
  <2> DEFINE health0 == [s.health EXCEPT ![e] = 0]
             deaths0 == Append(s.deaths, [tick |-> tick, entity |-> e])
  <2>1. Sim!Hurt(s, e, damage) = [health |-> health0, deaths |-> deaths0]
    BY <1>6 DEF Sim!Hurt
  <2>2. health0 \in [Sim!Actors -> Nat] /\ health0[e] = 0 /\ \A a \in Sim!Actors \ {e} : health0[a] = s.health[a]
    BY <1>2
  <2>3. /\ deaths0 \in Seq(Death) /\ Len(deaths0) = Len(s.deaths) + 1
        /\ \A k \in 1..Len(s.deaths) : deaths0[k] = s.deaths[k]
        /\ deaths0[Len(s.deaths) + 1].entity = e
    BY <1>2
  <2>4. Sim!Actor(e).maxHealth > 0 /\ s.health[e] # 0
    BY <1>3, <1>6 DEF Sim!Spared
  <2>5. \A k \in 1..Len(s.deaths) : s.deaths[k].entity # e
    BY <1>1, <2>4
  <2> HIDE DEF health0, deaths0
  <2>6. \A j, k \in 1..Len(deaths0) : deaths0[j].entity = deaths0[k].entity => j = k
    <3>1. SUFFICES ASSUME NEW j \in 1..Len(deaths0), NEW k \in 1..Len(deaths0), deaths0[j].entity = deaths0[k].entity
                   PROVE  j = k
      OBVIOUS
    <3>2. \A i \in 1..Len(deaths0) : i \in 1..Len(s.deaths) \/ i = Len(s.deaths) + 1
      BY <1>2, <2>3
    <3>3. \A i \in 1..Len(s.deaths) : deaths0[i] = s.deaths[i] /\ deaths0[i].entity # e
      BY <2>3, <2>5
    <3>4. CASE j \in 1..Len(s.deaths) /\ k \in 1..Len(s.deaths)
      BY <1>1, <3>1, <3>3, <3>4
    <3> QED  BY <2>3, <3>1, <3>2, <3>3, <3>4
  <2>7. \A a \in Sim!Actors : (\E k \in 1..Len(deaths0) : deaths0[k].entity = a)
                                <=> Sim!Actor(a).maxHealth > 0 /\ health0[a] = 0
    <3>1. SUFFICES ASSUME NEW a \in Sim!Actors
                   PROVE  (\E k \in 1..Len(deaths0) : deaths0[k].entity = a)
                            <=> Sim!Actor(a).maxHealth > 0 /\ health0[a] = 0
      OBVIOUS
    <3>2. CASE a = e
      <4>1. Len(deaths0) \in 1..Len(deaths0)
        BY <1>2, <2>3
      <4> QED  BY <2>2, <2>3, <2>4, <3>2, <4>1
    <3>3. CASE a # e
      <4>1. (\E k \in 1..Len(deaths0) : deaths0[k].entity = a) <=> \E k \in 1..Len(s.deaths) : s.deaths[k].entity = a
        <5>1. ASSUME NEW k \in 1..Len(deaths0), deaths0[k].entity = a PROVE k \in 1..Len(s.deaths)
          BY <1>2, <2>3, <3>3, <5>1
        <5>2. \A k \in 1..Len(s.deaths) : k \in 1..Len(deaths0)
          BY <1>2, <2>3
        <5> QED  BY <2>3, <5>1, <5>2
      <4> QED  BY <1>1, <2>2, <3>3, <4>1
    <3> QED  BY <3>2, <3>3
  <2> DEFINE u == [health |-> health0, deaths |-> deaths0]
  <2>8. u \in [health : [Sim!Actors -> Nat], deaths : Seq(Death)] /\ u.health = health0 /\ u.deaths = deaths0
    BY <2>2, <2>3
  <2> HIDE DEF u
  <2> QED  BY <2>1, <2>6, <2>7, <2>8 DEF Scores, u
<1> QED  BY <1>4, <1>5, <1>6

\* What is picked of a set of places: the last of them.
Last(S) == [t \in SUBSET S |-> Sim!Max(t)]
LEMMA LastIn ==
  ASSUME NEW n \in Nat
  PROVE  /\ IsFiniteSet(1..n) /\ Picks(Last(1..n), 1..n)
         /\ \A t \in SUBSET (1..n) : t # {} => Last(1..n)[t] \in t /\ Last(1..n)[t] = Sim!Max(t)
<1>1. IsFiniteSet(1..n) /\ \A k \in 1..n : k \in Int
  BY FS_Interval
<1> QED  BY <1>1, LargestIn DEF Last, Picks

\* A hit, however many it catches.
LEMMA LandStays ==
  ASSUME ZoneInv, tick \in Nat, NEW s \in Scores, NEW h, h.targets \in Seq(Sim!Actors), h.damage \in Nat
  PROVE  Sim!Land(s, h) \in Scores
<1> DEFINE S == 1..Len(h.targets)
           pick == Last(S)
           next == [p \in Scores \X S |-> Sim!Hurt(p[1], h.targets[p[2]], h.damage)]
           Of(i) == [t \in SUBSET S |->
                       IF t = {} THEN s ELSE Sim!Hurt(i[t \ {Sim!Max(t)}], h.targets[Sim!Max(t)], h.damage)]
           iter == CHOOSE i : i = Of(i)
<1>1. Len(h.targets) \in Nat /\ DOMAIN h.targets = S /\ \A k \in S : h.targets[k] \in Sim!Actors
  BY LenProperties, ElementOfSeq
<1>2. h.damage # 0 => Sim!Land(s, h) = iter[S]
  BY <1>1 DEF Sim!Land, Sim!FoldLeft, Sim!MapThenFoldSet
<1>3. /\ IsFiniteSet(S) /\ Picks(pick, S)
      /\ \A t \in SUBSET S : t # {} => pick[t] \in t /\ pick[t] = Sim!Max(t)
  BY <1>1, LastIn
<1>4. next \in [Scores \X S -> Scores]
  <2>1. \A p \in Scores \X S : Sim!Hurt(p[1], h.targets[p[2]], h.damage) \in Scores
    BY <1>1, HurtStays
  <2> QED  BY <2>1
<1> HIDE DEF S, pick
<1>5. PICK g : FoldsIn(S, Scores, s, next, pick, g)
  <2> HIDE DEF next
  <2> QED  BY <1>3, <1>4, FoldStays
<1>6. g = Of(g)
  <2>1. \A t \in SUBSET S : t # {} => /\ g[t] = Sim!Hurt(g[t \ {pick[t]}], h.targets[pick[t]], h.damage)
                                      /\ pick[t] = Sim!Max(t)
    <3>1. SUFFICES ASSUME NEW t \in SUBSET S, t # {}
                   PROVE  g[t] = Sim!Hurt(g[t \ {pick[t]}], h.targets[pick[t]], h.damage) /\ pick[t] = Sim!Max(t)
      OBVIOUS
    <3>2. g[t \ {pick[t]}] \in Scores /\ pick[t] \in S
      BY <1>3, <1>5, <3>1 DEF FoldsIn
    <3> QED  BY <1>3, <1>5, <3>1, <3>2 DEF FoldsIn
  <2> DEFINE A(t) == IF t = {} THEN s ELSE Sim!Hurt(g[t \ {Sim!Max(t)}], h.targets[Sim!Max(t)], h.damage)
  <2>2. \A t \in SUBSET S : g[t] = A(t)
    <3> HIDE DEF next
    <3> QED  BY <1>5, <2>1 DEF FoldsIn
  <2>3. Of(g) = [t \in SUBSET S |-> A(t)]
    OBVIOUS
  <2> HIDE DEF Of, A
  <2> QED  BY <1>5, <2>2, <2>3 DEF FoldsIn
<1>7. iter = Of(iter)
  <2> HIDE DEF Of
  <2> QED  BY <1>6
<1> HIDE DEF iter
<1>8. \A t \in SUBSET S : iter[t] = IF t = {} THEN s ELSE Sim!Hurt(iter[t \ {pick[t]}], h.targets[pick[t]], h.damage)
  <2>1. \A t \in SUBSET S : Of(iter)[t] = IF t = {} THEN s
                              ELSE Sim!Hurt(iter[t \ {Sim!Max(t)}], h.targets[Sim!Max(t)], h.damage)
    OBVIOUS
  <2> HIDE DEF Of
  <2> QED  BY <1>3, <1>7, <2>1
<1> DEFINE T == {t \in SUBSET S : iter[t] \in Scores}
<1>9. T = SUBSET S
  <2>1. ASSUME NEW t \in SUBSET S, t # {}, t \ {pick[t]} \in T PROVE t \in T
    <3>1. iter[t \ {pick[t]}] \in Scores /\ h.targets[pick[t]] \in Sim!Actors
      BY <1>1, <1>3, <2>1
    <3>2. Sim!Hurt(iter[t \ {pick[t]}], h.targets[pick[t]], h.damage) \in Scores
      BY <3>1, HurtStays
    <3> QED  BY <1>8, <2>1, <3>2
  <2>2. {} \in T
    BY <1>8
  <2>3. Inherits(T, S, pick)
    BY <2>1, <2>2 DEF Inherits
  <2> HIDE DEF T
  <2> QED  BY <1>3, <2>3, FoldInduction
<1>10. h.damage # 0 => Sim!Land(s, h) \in Scores
  BY <1>2, <1>9
<1>11. h.damage = 0 => Sim!Land(s, h) = s
  BY DEF Sim!Land
<1> QED  BY <1>10, <1>11

\* A log of hits, however many it holds.
LEMMA LogStays ==
  ASSUME ZoneInv, tick \in Nat, NEW s \in Scores, NEW X, NEW log \in Seq(X),
         \A h \in X : h.targets \in Seq(Sim!Actors) /\ h.damage \in Nat
  PROVE  Sim!FoldLeft(Sim!Land, s, log) \in Scores
<1> DEFINE S == 1..Len(log)
           pick == Last(S)
           next == [p \in Scores \X S |-> Sim!Land(p[1], log[p[2]])]
           Of(i) == [t \in SUBSET S |->
                       IF t = {} THEN s ELSE Sim!Land(i[t \ {Sim!Max(t)}], log[Sim!Max(t)])]
           iter == CHOOSE i : i = Of(i)
<1>1. Len(log) \in Nat /\ DOMAIN log = S /\ \A k \in S : log[k] \in X
  BY LenProperties, ElementOfSeq
<1>2. Sim!FoldLeft(Sim!Land, s, log) = iter[S]
  BY <1>1 DEF Sim!FoldLeft, Sim!MapThenFoldSet
<1>3. /\ IsFiniteSet(S) /\ Picks(pick, S)
      /\ \A t \in SUBSET S : t # {} => pick[t] \in t /\ pick[t] = Sim!Max(t)
  BY <1>1, LastIn
<1>4. next \in [Scores \X S -> Scores]
  <2>1. \A p \in Scores \X S : Sim!Land(p[1], log[p[2]]) \in Scores
    BY <1>1, LandStays
  <2> QED  BY <2>1
<1> HIDE DEF S, pick
<1>5. PICK g : FoldsIn(S, Scores, s, next, pick, g)
  <2> HIDE DEF next
  <2> QED  BY <1>3, <1>4, FoldStays
<1>6. g = Of(g)
  <2>1. \A t \in SUBSET S : t # {} => g[t] = Sim!Land(g[t \ {pick[t]}], log[pick[t]]) /\ pick[t] = Sim!Max(t)
    <3>1. SUFFICES ASSUME NEW t \in SUBSET S, t # {}
                   PROVE  g[t] = Sim!Land(g[t \ {pick[t]}], log[pick[t]]) /\ pick[t] = Sim!Max(t)
      OBVIOUS
    <3>2. g[t \ {pick[t]}] \in Scores /\ pick[t] \in S
      BY <1>3, <1>5, <3>1 DEF FoldsIn
    <3> QED  BY <1>3, <1>5, <3>1, <3>2 DEF FoldsIn
  <2> DEFINE A(t) == IF t = {} THEN s ELSE Sim!Land(g[t \ {Sim!Max(t)}], log[Sim!Max(t)])
  <2>2. \A t \in SUBSET S : g[t] = A(t)
    <3> HIDE DEF next
    <3> QED  BY <1>5, <2>1 DEF FoldsIn
  <2>3. Of(g) = [t \in SUBSET S |-> A(t)]
    OBVIOUS
  <2> HIDE DEF Of, A
  <2> QED  BY <1>5, <2>2, <2>3 DEF FoldsIn
<1>7. iter = Of(iter)
  <2> HIDE DEF Of
  <2> QED  BY <1>6
<1> HIDE DEF iter
<1>8. \A t \in SUBSET S : iter[t] = IF t = {} THEN s ELSE Sim!Land(iter[t \ {pick[t]}], log[pick[t]])
  <2>1. \A t \in SUBSET S : Of(iter)[t] = IF t = {} THEN s
                              ELSE Sim!Land(iter[t \ {Sim!Max(t)}], log[Sim!Max(t)])
    OBVIOUS
  <2> HIDE DEF Of
  <2> QED  BY <1>3, <1>7, <2>1
<1> DEFINE T == {t \in SUBSET S : iter[t] \in Scores}
<1>9. T = SUBSET S
  <2>1. ASSUME NEW t \in SUBSET S, t # {}, t \ {pick[t]} \in T PROVE t \in T
    <3>1. iter[t \ {pick[t]}] \in Scores /\ log[pick[t]] \in X
      BY <1>1, <1>3, <2>1
    <3>2. Sim!Land(iter[t \ {pick[t]}], log[pick[t]]) \in Scores
      BY <3>1, LandStays
    <3> QED  BY <1>8, <2>1, <3>2
  <2>2. {} \in T
    BY <1>8
  <2>3. Inherits(T, S, pick)
    BY <2>1, <2>2 DEF Inherits
  <2> HIDE DEF T
  <2> QED  BY <1>3, <2>3, FoldInduction
<1> QED  BY <1>2, <1>9

-----------------------------------------------------------------------------
(***************************************************************************)
(* The invariant.                                                          *)
(***************************************************************************)
\* A list of what is in it.
IsList(l) == l \in Seq({l[k] : k \in DOMAIN l})

LEMMA ListIsList ==
  ASSUME NEW X, NEW l \in Seq(X)
  PROVE  IsList(l) /\ Len(l) \in Nat /\ DOMAIN l = 1..Len(l)
<1>1. Len(l) \in Nat /\ DOMAIN l = 1..Len(l) /\ l \in [1..Len(l) -> X]
  BY LenProperties
<1>2. l \in [1..Len(l) -> {l[k] : k \in DOMAIN l}]
  BY <1>1
<1> DEFINE n == Len(l)
<1>3. l \in Seq({l[k] : k \in DOMAIN l})
  <2>1. n \in Nat /\ l \in [1..n -> {l[k] : k \in DOMAIN l}]
    BY <1>1, <1>2
  <2> HIDE DEF n
  <2> QED  BY <2>1, SeqDef
<1> QED  BY <1>1, <1>3 DEF IsList

\* A cast is painted before it resolves and resolved when it is due; its mob has no other.
PaintInv ==
  /\ IsList(casts)
  /\ \A k \in 1..Len(casts) :
       /\ casts[k].caster \in Sim!Mobs /\ casts[k].start \in Nat /\ casts[k].resolve \in Nat
       /\ casts[k].start < tick /\ casts[k].resolve >= tick
  /\ \A j, k \in 1..Len(casts) : casts[j].caster = casts[k].caster => j = k
  /\ inFlight = {casts[k].caster : k \in 1..Len(casts)}

\* What is logged can be landed.
LogInv ==
  /\ IsList(hits) /\ Len(hits) <= MaxHits
  /\ \A k \in 1..Len(hits) :
       /\ hits[k].tick \in Nat /\ hits[k].start \in Nat /\ hits[k].tick > hits[k].start
       /\ hits[k].targets \in Seq(Sim!Actors) /\ hits[k].damage \in Nat

CountInv ==
  /\ tick \in Nat /\ painted \in Nat /\ dropped \in Nat /\ landed \in Nat
  /\ painted = Len(casts) + Len(hits) + dropped + landed

ScoreInv == [health |-> health, deaths |-> deaths] \in Scores

SimInv == ZoneInv /\ PaintInv /\ LogInv /\ CountInv /\ ScoreInv

\* A new zone.
LEMMA SimStarts ==
  ASSUME Sim!Init
  PROVE  SimInv
<1>1. PICK z \in Zones : zone = [z EXCEPT !.actors = [e \in DOMAIN @ |-> Sim!Added(z, @[e])],
                                         !.mobs = [m \in DOMAIN @ |-> Sim!AddedMob(@[m])]]
  BY DEF Sim!Init
<1>2. /\ DOMAIN z = {"min", "max", "actors", "mobs", "swept", "inputs"}
      /\ IsFiniteSet(DOMAIN z.actors) /\ DOMAIN z.actors \subseteq Int
      /\ DOMAIN z.mobs \subseteq DOMAIN z.actors
  BY ZonesAreSound
<1>3. /\ zone.actors = [e \in DOMAIN z.actors |-> Sim!Added(z, z.actors[e])]
      /\ zone.mobs = [m \in DOMAIN z.mobs |-> Sim!AddedMob(z.mobs[m])]
  BY <1>1, <1>2
<1>4. Sim!Actors = DOMAIN z.actors /\ Sim!Mobs = DOMAIN z.mobs
  BY <1>3 DEF Sim!Actors, Sim!Mobs
<1>5. ASSUME NEW e \in Sim!Actors
      PROVE  /\ Sim!Actor(e).maxHealth \in Nat /\ Sim!Actor(e).health \in Nat
             /\ Sim!Actor(e).maxHealth > 0 => Sim!Actor(e).health # 0
  <2> DEFINE a == z.actors[e]
  <2>1. a \in [at : [x : Int, z : Int], maxSpeed : Int, radius : Int, maxHealth : Int, health : Int, view : Int]
    BY <1>4, ZonesAreSound
  <2>2. Sim!Actor(e) = Sim!Added(z, a)
    BY <1>3, <1>4 DEF Sim!Actor
  <2> HIDE DEF a
  <2>3. /\ Sim!Added(z, a).maxHealth = Clamp(a.maxHealth, 0, MaxHealth)
        /\ Sim!Added(z, a).health = IF a.health \in 1..Clamp(a.maxHealth, 0, MaxHealth) THEN a.health
                                    ELSE Clamp(a.maxHealth, 0, MaxHealth)
    BY <2>1 DEF Sim!Added, Sim!Clamp, Clamp
  <2>4. a.maxHealth \in Int /\ a.health \in Int /\ MaxHealth \in Nat \ {0}
    BY <2>1, ZonesAreSound
  <2>5. Clamp(a.maxHealth, 0, MaxHealth) \in Nat /\ (a.maxHealth > 0 <=> Clamp(a.maxHealth, 0, MaxHealth) > 0)
    BY <2>4 DEF Clamp
  <2> QED  BY <2>2, <2>3, <2>4, <2>5
<1>6. ASSUME NEW m \in Sim!Mobs PROVE Sim!Mob(m).cast \in Nat \ {0} /\ Sim!Mob(m).damage \in Nat
  <2> DEFINE b == z.mobs[m]
  <2>1. b \in [aggro : Int, range : Int, chase : Int, cast : Int, cooldown : Int, circle : Int, damage : Int]
    BY <1>4, ZonesAreSound
  <2>2. Sim!Mob(m) = Sim!AddedMob(b)
    BY <1>3, <1>4 DEF Sim!Mob
  <2> HIDE DEF b
  <2>3. /\ Sim!AddedMob(b).cast = Clamp(b.cast, 1, 30 * TickHz)
        /\ Sim!AddedMob(b).damage = Clamp(b.damage, 0, MaxHealth)
    BY <2>1 DEF Sim!AddedMob, Sim!Clamp, Clamp
  <2>4. b.cast \in Int /\ b.damage \in Int /\ MaxHealth \in Nat /\ 30 * TickHz >= 1 /\ 30 * TickHz \in Int
    BY <2>1, ZonesAreSound
  <2> QED  BY <2>2, <2>3, <2>4 DEF Clamp
<1>7. ZoneInv
  BY <1>2, <1>4, <1>5, <1>6 DEF ZoneInv
<1>8. casts = <<>> /\ hits = <<>> /\ deaths = <<>> /\ inFlight = {} /\ tick = 0 /\ dropped = 0 /\ painted = 0 /\ landed = 0
  BY DEF Sim!Init
<1>9. \A X : <<>> \in Seq(X) /\ Len(<<>>) = 0
  BY EmptySeq
<1>10. PaintInv /\ LogInv /\ CountInv
  <2>1. IsList(<<>>)
    BY <1>9, ListIsList
  <2> QED  BY <1>8, <1>9, <2>1, ZonesAreSound DEF PaintInv, LogInv, CountInv
<1>11. ScoreInv
  <2>1. health = [e \in Sim!Actors |-> Sim!Actor(e).health]
    BY DEF Sim!Init
  <2> QED  BY <1>5, <1>8, <1>9, <2>1 DEF ScoreInv, Scores
<1> QED  BY <1>7, <1>10, <1>11 DEF SimInv

\* The casts that are due, the others, and what the mobs paint in a step.
DuePlaces == {k \in DOMAIN casts : casts[k].resolve <= tick}
KeptPlaces == {k \in DOMAIN casts : casts[k].resolve > tick}
KeptCasts == Sim!At(casts, KeptPlaces)
Resolved == {Sim!Due[k].caster : k \in DOMAIN Sim!Due}
Painters(at) == {m \in Sim!Idle(Resolved) : Sim!Marks(m, at) # {}}
Paint(m, at) == [caster |-> m, start |-> tick, resolve |-> tick + Sim!Mob(m).cast,
                 shape |-> Sim!Circle(at[CHOOSE e \in Sim!Marks(m, at) : TRUE], Sim!Mob(m).circle)]
New(at) == LET order == Sim!Ascending(Painters(at)) IN [k \in DOMAIN order |-> Paint(order[k], at)]
Recorded(at) == SubSeq([k \in DOMAIN Sim!Due |-> Sim!Resolution(Sim!Due[k], at)], 1,
                       Sim!LeastOf(Len(Sim!Due), MaxHits - Len(hits)))

LEMMA CombatSteps ==
  ASSUME NEW at, Sim!CombatStep(at)
  PROVE  /\ hits' = hits \o Recorded(at)
         /\ dropped' = dropped + Len(Sim!Due) - Len(Recorded(at))
         /\ casts' = KeptCasts \o New(at)
         /\ inFlight' = (inFlight \ Resolved) \cup Painters(at)
         /\ painted' = painted + Cardinality(Painters(at))
BY DEF Sim!CombatStep, Recorded, New, KeptCasts, KeptPlaces, Resolved, Painters, Paint, Sim!Cardinality, Cardinality

\* Every cast is due or kept.
LEMMA CastsSplit ==
  ASSUME PaintInv, tick \in Nat
  PROVE  /\ Sim!Due \in Seq({casts[k] : k \in DOMAIN casts}) /\ Len(Sim!Due) \in Nat /\ DOMAIN Sim!Due = 1..Len(Sim!Due)
         /\ KeptCasts \in Seq({casts[k] : k \in DOMAIN casts}) /\ Len(KeptCasts) \in Nat
         /\ Len(casts) = Len(Sim!Due) + Len(KeptCasts)
         /\ \A k \in 1..Len(Sim!Due) : \E p \in DuePlaces : Sim!Due[k] = casts[p]
         /\ \A p \in DuePlaces : \E k \in 1..Len(Sim!Due) : Sim!Due[k] = casts[p]
         /\ \A p \in KeptPlaces : \E k \in 1..Len(KeptCasts) : KeptCasts[k] = casts[p]
         /\ \E at : Drawn(KeptCasts, Len(KeptCasts), casts, KeptPlaces, at)
<1> DEFINE X == {casts[k] : k \in DOMAIN casts}
<1>1. casts \in Seq(X) /\ Len(casts) \in Nat /\ DOMAIN casts = 1..Len(casts)
  <2>1. casts \in Seq(X)
    BY DEF PaintInv, IsList
  <2> HIDE DEF X
  <2> QED  BY <2>1, LenProperties
<1>2. DuePlaces \in SUBSET (1..Len(casts)) /\ KeptPlaces \in SUBSET (1..Len(casts))
  BY <1>1 DEF DuePlaces, KeptPlaces
<1>3. Sim!Due = Sim!At(casts, DuePlaces)
  BY DEF Sim!Due, DuePlaces
<1> HIDE DEF X
<1> DEFINE d == Cardinality(DuePlaces)
           e == Cardinality(KeptPlaces)
<1>4. /\ IsFiniteSet(DuePlaces) /\ d \in Nat /\ Sim!Due \in Seq(X) /\ Len(Sim!Due) = d /\ DOMAIN Sim!Due = 1..d
      /\ \A k \in 1..d : \E p \in DuePlaces : Sim!Due[k] = casts[p]
      /\ \A p \in DuePlaces : \E k \in 1..d : Sim!Due[k] = casts[p]
  <2> DEFINE l == Sim!At(casts, DuePlaces)
  <2>1. /\ IsFiniteSet(DuePlaces) /\ d \in Nat /\ l \in Seq(X) /\ Len(l) = d /\ DOMAIN l = 1..d
        /\ \A k \in 1..d : \E p \in DuePlaces : l[k] = casts[p]
        /\ \A p \in DuePlaces : \E k \in 1..d : l[k] = casts[p]
    BY <1>1, <1>2, EntriesAt
  <2> HIDE DEF d, l
  <2> QED  BY <1>3, <2>1 DEF l
<1>5. /\ IsFiniteSet(KeptPlaces) /\ e \in Nat /\ KeptCasts \in Seq(X) /\ Len(KeptCasts) = e
      /\ \A p \in KeptPlaces : \E k \in 1..e : KeptCasts[k] = casts[p]
      /\ \E at : Drawn(KeptCasts, e, casts, KeptPlaces, at)
  <2> DEFINE l == Sim!At(casts, KeptPlaces)
  <2>1. /\ IsFiniteSet(KeptPlaces) /\ e \in Nat /\ l \in Seq(X) /\ Len(l) = e
        /\ \A p \in KeptPlaces : \E k \in 1..e : l[k] = casts[p]
        /\ \E at : Drawn(l, e, casts, KeptPlaces, at)
    BY <1>1, <1>2, EntriesAt
  <2>2. KeptCasts = l
    BY DEF KeptCasts
  <2> HIDE DEF e, l
  <2> QED  BY <2>1, <2>2
<1>6. Len(casts) = d + e
  <2>1. DuePlaces \cup KeptPlaces = 1..Len(casts) /\ DuePlaces \cap KeptPlaces = {}
    <3>1. \A k \in 1..Len(casts) : casts[k].resolve \in Nat
      BY DEF PaintInv
    <3>2. \A k \in 1..Len(casts) : (casts[k].resolve <= tick \/ casts[k].resolve > tick)
                                    /\ ~(casts[k].resolve <= tick /\ casts[k].resolve > tick)
      BY <3>1
    <3> QED  BY <1>1, <3>2 DEF DuePlaces, KeptPlaces
  <2>2. Cardinality(1..Len(casts)) = Len(casts)
    BY <1>1, FS_Interval
  <2>3. IsFiniteSet(DuePlaces) /\ IsFiniteSet(KeptPlaces) /\ d \in Nat /\ e \in Nat
    BY <1>4, <1>5
  <2>4. Cardinality(DuePlaces \cup KeptPlaces) = d + e - Cardinality(DuePlaces \cap KeptPlaces)
    BY <2>3, FS_Union
  <2>5. Cardinality(DuePlaces \cap KeptPlaces) = 0
    BY <2>1, FS_EmptySet
  <2>6. Cardinality(DuePlaces \cup KeptPlaces) = Len(casts)
    BY <2>1, <2>2
  <2> HIDE DEF d, e
  <2> QED  BY <2>3, <2>4, <2>5, <2>6
<1> HIDE DEF d, e
<1>7. Len(Sim!Due) = d /\ Len(KeptCasts) = e /\ d \in Nat /\ e \in Nat
  BY <1>4, <1>5
<1> QED  BY <1>4, <1>5, <1>6, <1>7 DEF X

\* What is painted: a cast of every mob that paints.
LEMMA NewCasts ==
  ASSUME ZoneInv, PaintInv, tick \in Nat, NEW at
  PROVE  LET n == Cardinality(Painters(at)) IN
         /\ n \in Nat /\ New(at) \in Seq({Paint(m, at) : m \in Painters(at)}) /\ Len(New(at)) = n
         /\ Painters(at) \subseteq Sim!Mobs /\ Painters(at) \cap (inFlight \ Resolved) = {}
         /\ \A k \in 1..n : New(at)[k].caster \in Painters(at) /\ New(at)[k] = Paint(New(at)[k].caster, at)
         /\ \A j, k \in 1..n : New(at)[j].caster = New(at)[k].caster => j = k
         /\ \A m \in Painters(at) : \E k \in 1..n : New(at)[k].caster = m
<1> DEFINE P == Painters(at)
           order == Sim!Ascending(P)
           n == Cardinality(P)
           l == New(at)
<1>1. Resolved \subseteq Sim!Mobs
  <2>1. ASSUME NEW k \in DOMAIN Sim!Due PROVE Sim!Due[k].caster \in Sim!Mobs
    <3>1. PICK p \in DuePlaces : Sim!Due[k] = casts[p]
      BY CastsSplit, <2>1
    <3>2. p \in 1..Len(casts)
      BY <3>1, LenProperties DEF DuePlaces, PaintInv, IsList
    <3> QED  BY <3>1, <3>2 DEF PaintInv
  <2> QED  BY <2>1 DEF Resolved
<1>2. P \subseteq Sim!Mobs /\ P \cap (inFlight \ Resolved) = {}
  BY <1>1 DEF Painters, Sim!Idle
<1>3. IsFiniteSet(P) /\ P \subseteq Int
  BY <1>2, FS_Subset DEF ZoneInv
<1>4. l = [k \in DOMAIN order |-> Paint(order[k], at)]
  BY DEF New
<1> HIDE DEF P
<1>5. /\ n \in Nat /\ order \in Seq(P) /\ Len(order) = n /\ DOMAIN order = 1..n
      /\ \A j, k \in 1..n : order[j] = order[k] => j = k
      /\ \A m \in P : \E k \in 1..n : order[k] = m
  BY <1>3, AscendingLists
<1> HIDE DEF order, n, l
<1>6. \A k \in 1..n : order[k] \in P
  BY <1>5, ElementOfSeq
<1>7. \A k \in 1..n : l[k] = Paint(order[k], at) /\ l[k].caster = order[k]
  BY <1>4, <1>5 DEF Paint
<1>8. l \in [1..n -> {Paint(m, at) : m \in P}]
  BY <1>4, <1>5, <1>6
<1>9. l \in Seq({Paint(m, at) : m \in P}) /\ Len(l) = n
  BY <1>5, <1>8, ListOf
<1> QED  BY <1>2, <1>5, <1>6, <1>7, <1>9 DEF P, n, l

\* The casts a step leaves are painted, to be resolved, and of different mobs.
LEMMA PaintKeeps ==
  ASSUME ZoneInv, PaintInv, tick \in Nat, tick' = tick + 1, zone' = zone, NEW at, Sim!CombatStep(at)
  PROVE  PaintInv' /\ Len(casts') = Len(KeptCasts) + Cardinality(Painters(at))
<1> DEFINE K == KeptCasts
           N == New(at)
           n == Cardinality(Painters(at))
           X == {casts[k] : k \in DOMAIN casts}
           Y == {Paint(m, at) : m \in Painters(at)}
           both == K \o N
           Good(c) == /\ c.caster \in Sim!Mobs /\ c.start \in Nat /\ c.resolve \in Nat
                      /\ c.start < tick + 1 /\ c.resolve >= tick + 1
<1>1. casts' = both /\ inFlight' = (inFlight \ Resolved) \cup Painters(at)
  BY CombatSteps
<1>2. K \in Seq(X) /\ Len(K) \in Nat
  BY CastsSplit
<1>3. PICK drawn : Drawn(K, Len(K), casts, KeptPlaces, drawn)
  BY CastsSplit
<1>4. /\ n \in Nat /\ N \in Seq(Y) /\ Len(N) = n
      /\ Painters(at) \subseteq Sim!Mobs /\ Painters(at) \cap (inFlight \ Resolved) = {}
      /\ \A k \in 1..n : N[k].caster \in Painters(at) /\ N[k] = Paint(N[k].caster, at)
      /\ \A j, k \in 1..n : N[j].caster = N[k].caster => j = k
      /\ \A m \in Painters(at) : \E k \in 1..n : N[k].caster = m
  BY NewCasts
<1>5. \A p \in KeptPlaces : p \in 1..Len(casts) /\ casts[p].resolve > tick
  BY LenProperties DEF KeptPlaces, PaintInv, IsList
<1>6. \A p \in DuePlaces : p \in 1..Len(casts) /\ casts[p].resolve <= tick
  BY LenProperties DEF DuePlaces, PaintInv, IsList
<1>7. Resolved = {casts[p].caster : p \in DuePlaces}
  <2>1. /\ DOMAIN Sim!Due = 1..Len(Sim!Due)
        /\ \A k \in 1..Len(Sim!Due) : \E p \in DuePlaces : Sim!Due[k] = casts[p]
        /\ \A p \in DuePlaces : \E k \in 1..Len(Sim!Due) : Sim!Due[k] = casts[p]
    BY CastsSplit
  <2> QED  BY <2>1 DEF Resolved
\* The kept casts are those of the mobs that are still waiting.
<1>8. \A k \in 1..Len(K) : drawn[k] \in KeptPlaces /\ K[k] = casts[drawn[k]]
  BY <1>3 DEF Drawn
<1>9. \A j, k \in 1..Len(K) : K[j].caster = K[k].caster => j = k
  <2>1. SUFFICES ASSUME NEW j \in 1..Len(K), NEW k \in 1..Len(K), K[j].caster = K[k].caster PROVE j = k
    OBVIOUS
  <2>2. drawn[j] \in 1..Len(casts) /\ drawn[k] \in 1..Len(casts) /\ casts[drawn[j]].caster = casts[drawn[k]].caster
    BY <1>5, <1>8, <2>1
  <2>3. drawn[j] = drawn[k]
    BY <2>2 DEF PaintInv
  <2> QED  BY <1>3, <2>1, <2>3 DEF Drawn
<1>10. {K[k].caster : k \in 1..Len(K)} = inFlight \ Resolved
  <2>1. ASSUME NEW k \in 1..Len(K) PROVE K[k].caster \in inFlight \ Resolved
    <3>1. drawn[k] \in 1..Len(casts) /\ casts[drawn[k]].resolve > tick /\ K[k] = casts[drawn[k]]
      BY <1>5, <1>8, <2>1
    <3>2. ASSUME NEW p \in DuePlaces PROVE casts[p].caster # K[k].caster
      <4>1. p \in 1..Len(casts) /\ casts[p].resolve <= tick /\ casts[p].resolve \in Nat
        BY <1>6, <3>2 DEF PaintInv
      <4>2. p # drawn[k]
        BY <3>1, <4>1
      <4> QED  BY <3>1, <4>1, <4>2 DEF PaintInv
    <3>3. K[k].caster \in inFlight
      BY <3>1 DEF PaintInv
    <3> QED  BY <1>7, <3>2, <3>3
  <2>2. ASSUME NEW m \in inFlight \ Resolved PROVE \E k \in 1..Len(K) : K[k].caster = m
    <3>1. PICK p \in 1..Len(casts) : casts[p].caster = m
      BY <2>2 DEF PaintInv
    <3>2. p \notin DuePlaces
      BY <1>7, <2>2, <3>1
    <3>3. DOMAIN casts = 1..Len(casts) /\ casts[p].resolve \in Nat
      BY LenProperties DEF PaintInv, IsList
    <3>4. p \in KeptPlaces
      BY <3>1, <3>2, <3>3 DEF KeptPlaces, DuePlaces
    <3>5. PICK k \in 1..Len(K) : K[k] = casts[p]
      BY <3>4, CastsSplit
    <3> QED  BY <3>1, <3>5
  <2> QED  BY <2>1, <2>2
<1>11. \A k \in 1..Len(K) : Good(K[k])
  <2>1. SUFFICES ASSUME NEW k \in 1..Len(K) PROVE Good(K[k])
    OBVIOUS
  <2>2. drawn[k] \in 1..Len(casts) /\ casts[drawn[k]].resolve > tick /\ K[k] = casts[drawn[k]]
    BY <1>5, <1>8, <2>1
  <2>3. /\ casts[drawn[k]].caster \in Sim!Mobs /\ casts[drawn[k]].start \in Nat
        /\ casts[drawn[k]].resolve \in Nat /\ casts[drawn[k]].start < tick
    BY <2>2 DEF PaintInv
  <2> QED  BY <2>2, <2>3
<1>12. \A k \in 1..n : Good(N[k])
  <2>1. SUFFICES ASSUME NEW k \in 1..n PROVE Good(N[k])
    OBVIOUS
  <2> DEFINE m == N[k].caster
  <2>2. m \in Sim!Mobs /\ N[k] = Paint(m, at)
    BY <1>4, <2>1
  <2>3. Sim!Mob(m).cast \in Nat \ {0}
    BY <2>2 DEF ZoneInv
  <2>4. N[k].caster = m /\ N[k].start = tick /\ N[k].resolve = tick + Sim!Mob(m).cast
    BY <2>2 DEF Paint
  <2> HIDE DEF m
  <2> QED  BY <2>2, <2>3, <2>4
<1> HIDE DEF K, N, n, X, Y, both, Good
\* Together they are the casts of the next tick.
<1>13. /\ IsList(both) /\ Len(both) = Len(K) + n
       /\ \A k \in 1..Len(K) + n : both[k] = IF k <= Len(K) THEN K[k] ELSE N[k - Len(K)]
  <2>1. K \in Seq(X \cup Y) /\ N \in Seq(X \cup Y)
    BY <1>2, <1>4, SeqMonotonic
  <2>2. /\ K \o N \in Seq(X \cup Y) /\ Len(K \o N) = Len(K) + Len(N)
        /\ \A k \in 1..Len(K) + Len(N) : (K \o N)[k] = IF k <= Len(K) THEN K[k] ELSE N[k - Len(K)]
    BY <2>1, ConcatProperties
  <2>3. IsList(K \o N)
    BY <2>2, ListIsList
  <2> QED  BY <1>4, <2>2, <2>3 DEF both
<1>14. ASSUME NEW k \in 1..Len(both)
       PROVE  \/ k \in 1..Len(K) /\ both[k] = K[k]
              \/ k - Len(K) \in 1..n /\ both[k] = N[k - Len(K)]
  BY <1>2, <1>4, <1>13
<1>15. \A k \in 1..n : k + Len(K) \in 1..Len(both) /\ both[k + Len(K)] = N[k]
  BY <1>2, <1>4, <1>13
<1>16. \A k \in 1..Len(K) : k \in 1..Len(both) /\ both[k] = K[k]
  BY <1>2, <1>4, <1>13
<1>17. \A k \in 1..Len(both) : Good(both[k])
  BY <1>11, <1>12, <1>14
<1>18. \A j \in 1..Len(K), k \in 1..n : K[j].caster # N[k].caster
  <2>1. SUFFICES ASSUME NEW j \in 1..Len(K), NEW k \in 1..n PROVE K[j].caster # N[k].caster
    OBVIOUS
  <2>2. K[j].caster \in inFlight \ Resolved
    BY <1>10
  <2> QED  BY <1>4, <2>2
<1>19. \A j, k \in 1..Len(both) : both[j].caster = both[k].caster => j = k
  <2>1. SUFFICES ASSUME NEW j \in 1..Len(both), NEW k \in 1..Len(both), both[j].caster = both[k].caster PROVE j = k
    OBVIOUS
  <2>2. j \in Int /\ k \in Int /\ Len(K) \in Int
    BY <1>2
  <2>3. CASE j \in 1..Len(K) /\ both[j] = K[j]
    BY <1>9, <1>14, <1>18, <2>1, <2>3
  <2>4. CASE j - Len(K) \in 1..n /\ both[j] = N[j - Len(K)]
    <3>1. k - Len(K) \in 1..n /\ both[k] = N[k - Len(K)]
      BY <1>14, <1>18, <2>1, <2>4
    <3>2. j - Len(K) = k - Len(K)
      BY <1>4, <2>1, <2>4, <3>1
    <3> QED  BY <2>2, <3>2
  <2> QED  BY <1>14, <2>3, <2>4
<1>20. (inFlight \ Resolved) \cup Painters(at) = {both[k].caster : k \in 1..Len(both)}
  <2>1. ASSUME NEW k \in 1..Len(both) PROVE both[k].caster \in (inFlight \ Resolved) \cup Painters(at)
    BY <1>4, <1>10, <1>14
  <2>2. ASSUME NEW m \in inFlight \ Resolved PROVE \E k \in 1..Len(both) : both[k].caster = m
    BY <1>10, <1>16
  <2>3. ASSUME NEW m \in Painters(at) PROVE \E k \in 1..Len(both) : both[k].caster = m
    BY <1>4, <1>15
  <2> QED  BY <2>1, <2>2, <2>3
<1>21. Sim!Mobs' = Sim!Mobs
  BY DEF Sim!Mobs
<1>22. IsList(casts')
  BY <1>1, <1>13
<1>23. \A k \in 1..Len(casts') : /\ casts'[k].caster \in Sim!Mobs' /\ casts'[k].start \in Nat
                                  /\ casts'[k].resolve \in Nat
                                  /\ casts'[k].start < tick' /\ casts'[k].resolve >= tick'
  <2>1. tick' = tick + 1
    OBVIOUS
  <2> QED  BY <1>1, <1>17, <1>21, <2>1 DEF Good
<1>24. \A j, k \in 1..Len(casts') : casts'[j].caster = casts'[k].caster => j = k
  BY <1>1, <1>19
<1>25. inFlight' = {casts'[k].caster : k \in 1..Len(casts')}
  BY <1>1, <1>20
<1>26. Len(casts') = Len(K) + n
  BY <1>1, <1>13
<1> QED  BY <1>22, <1>23, <1>24, <1>25, <1>26 DEF PaintInv, IsList, K, n

\* What a step logs can be landed, and what it cannot log it counts.
LEMMA LogKeeps ==
  ASSUME ZoneInv, PaintInv, LogInv, CountInv, zone' = zone, NEW at, Sim!CombatStep(at)
  PROVE  /\ LogInv'
         /\ Len(Recorded(at)) \in Nat /\ Len(Recorded(at)) <= Len(Sim!Due)
         /\ Len(hits') = Len(hits) + Len(Recorded(at))
<1> DEFINE n == Len(Sim!Due)
           all == [k \in DOMAIN Sim!Due |-> Sim!Resolution(Sim!Due[k], at)]
           most == Sim!LeastOf(n, MaxHits - Len(hits))
           R == Recorded(at)
           X == {hits[k] : k \in DOMAIN hits}
           Y == {all[k] : k \in 1..n}
           Good(h) == /\ h.tick \in Nat /\ h.start \in Nat /\ h.tick > h.start
                      /\ h.targets \in Seq(Sim!Actors) /\ h.damage \in Nat
<1>1. hits' = hits \o R
  BY CombatSteps
<1>2. n \in Nat /\ DOMAIN Sim!Due = 1..n /\ tick \in Nat /\ MaxHits \in Nat
  BY CastsSplit, ZonesAreSound DEF CountInv
<1>3. hits \in Seq(X) /\ Len(hits) \in Nat /\ DOMAIN hits = 1..Len(hits) /\ Len(hits) <= MaxHits
  <2>1. hits \in Seq(X) /\ Len(hits) <= MaxHits
    BY DEF LogInv, IsList
  <2> HIDE DEF X
  <2> QED  BY <2>1, LenProperties
<1>4. most \in 0..n /\ Len(hits) + most <= MaxHits
  BY <1>2, <1>3 DEF Sim!LeastOf
<1>5. R = SubSeq(all, 1, most)
  BY DEF Recorded
<1>6. \A k \in 1..n : Good(all[k])
  <2>1. SUFFICES ASSUME NEW k \in 1..n PROVE Good(all[k])
    OBVIOUS
  <2> DEFINE c == Sim!Due[k]
             caught == {e \in Sim!Actors \ {c.caster} : Sim!Catches(c.shape, at[e])}
  <2>2. c.caster \in Sim!Mobs /\ c.start \in Nat /\ c.start < tick
    <3>1. PICK p \in DuePlaces : c = casts[p]
      BY <1>2, CastsSplit
    <3>2. p \in 1..Len(casts)
      BY LenProperties DEF DuePlaces, PaintInv, IsList
    <3> HIDE DEF c
    <3> QED  BY <3>1, <3>2 DEF PaintInv
  <2>3. Sim!Mob(c.caster).damage \in Nat
    BY <2>2 DEF ZoneInv
  <2>4. Sim!Ascending(caught) \in Seq(Sim!Actors)
    <3>1. caught \in SUBSET Sim!Actors
      OBVIOUS
    <3> HIDE DEF caught
    <3>2. IsFiniteSet(caught) /\ caught \subseteq Int
      BY <3>1, FS_Subset DEF ZoneInv
    <3>3. Sim!Ascending(caught) \in Seq(caught)
      BY <3>2, AscendingLists
    <3> QED  BY <3>1, <3>3, SeqMonotonic
  <2>5. all[k] = Sim!Resolution(c, at)
    BY <1>2
  <2>6. /\ all[k].tick = tick /\ all[k].start = c.start /\ all[k].damage = Sim!Mob(c.caster).damage
        /\ all[k].targets = Sim!Ascending(caught)
    BY <2>5 DEF Sim!Resolution
  <2> HIDE DEF c, caught, all
  <2> QED  BY <1>2, <2>2, <2>3, <2>4, <2>6
<1> HIDE DEF n, all, most, R, X, Good
<1>7. R \in Seq(Y) /\ Len(R) = most /\ \A k \in 1..most : R[k] = all[k]
  <2>1. \A k \in 1..most : all[k] \in Y
    BY <1>2, <1>4
  <2> HIDE DEF Y
  <2>2. most \in Int /\ 1 \in Int /\ most \in Nat
    BY <1>4
  <2>3. /\ SubSeq(all, 1, most) \in Seq(Y)
        /\ Len(SubSeq(all, 1, most)) = IF 1 <= most THEN most - 1 + 1 ELSE 0
        /\ \A i \in 1..most - 1 + 1 : SubSeq(all, 1, most)[i] = all[1 + i - 1]
    BY <2>1, <2>2, SubSeqProperties
  <2> QED  BY <1>5, <2>2, <2>3
<1> HIDE DEF Y
<1>8. /\ hits \o R \in Seq(X \cup Y) /\ Len(hits \o R) = Len(hits) + most
      /\ \A k \in 1..Len(hits) + most : (hits \o R)[k] = IF k <= Len(hits) THEN hits[k] ELSE R[k - Len(hits)]
  <2>1. hits \in Seq(X \cup Y) /\ R \in Seq(X \cup Y)
    BY <1>3, <1>7, SeqMonotonic
  <2> QED  BY <1>7, <2>1, ConcatProperties
<1>9. IsList(hits')
  BY <1>1, <1>8, ListIsList
<1>10. \A k \in 1..Len(hits') : Good(hits'[k])
  <2>1. SUFFICES ASSUME NEW k \in 1..Len(hits') PROVE Good(hits'[k])
    OBVIOUS
  <2>2. \/ k \in 1..Len(hits) /\ hits'[k] = hits[k]
        \/ k - Len(hits) \in 1..most /\ hits'[k] = R[k - Len(hits)]
    BY <1>1, <1>3, <1>4, <1>8
  <2>3. \A i \in 1..most : i \in 1..n /\ R[i] = all[i]
    BY <1>2, <1>4, <1>7
  <2>4. \A i \in 1..Len(hits) : Good(hits[i])
    BY DEF LogInv, Good
  <2> QED  BY <1>6, <2>2, <2>3, <2>4
<1>11. Sim!Actors' = Sim!Actors
  BY DEF Sim!Actors
<1>12. Len(hits') = Len(hits) + most /\ Len(R) = most
  BY <1>1, <1>7, <1>8
<1>13. LogInv'
  BY <1>4, <1>9, <1>10, <1>11, <1>12 DEF LogInv, IsList, Good
<1> QED  BY <1>2, <1>4, <1>12, <1>13 DEF n, R

\* What may be told of the dead depends on the zone alone.
LEMMA ScoresStay ==
  ASSUME zone' = zone
  PROVE  Scores' = Scores
<1>1. Sim!Actors' = Sim!Actors /\ \A e : Sim!Actor(e)' = Sim!Actor(e)
  BY DEF Sim!Actors, Sim!Actor
<1> QED  BY <1>1 DEF Scores

LEMMA ZoneStays ==
  ASSUME ZoneInv, zone' = zone
  PROVE  ZoneInv'
<1>1. /\ Sim!Actors' = Sim!Actors /\ \A e : Sim!Actor(e)' = Sim!Actor(e)
      /\ Sim!Mobs' = Sim!Mobs /\ \A m : Sim!Mob(m)' = Sim!Mob(m)
  BY DEF Sim!Actors, Sim!Actor, Sim!Mobs, Sim!Mob
<1> QED  BY <1>1 DEF ZoneInv

\* A step: no telegraph is lost between what is painted, logged and dropped.
LEMMA StepKeepsSim ==
  ASSUME SimInv, Sim!Step
  PROVE  SimInv'
<1> DEFINE at == Sim!Separated(Sim!Moved)
<1>1. Sim!CombatStep(at) /\ tick' = tick + 1 /\ zone' = zone /\ health' = health /\ deaths' = deaths /\ landed' = landed
  BY DEF Sim!Step, Sim!ownerVars
<1> HIDE DEF at
<1>2. ZoneInv /\ PaintInv /\ LogInv /\ CountInv /\ tick \in Nat
  BY DEF SimInv, CountInv
<1>3. PaintInv' /\ Len(casts') = Len(KeptCasts) + Cardinality(Painters(at))
  BY <1>1, <1>2, PaintKeeps
<1>4. /\ LogInv' /\ Len(Recorded(at)) \in Nat /\ Len(Recorded(at)) <= Len(Sim!Due)
      /\ Len(hits') = Len(hits) + Len(Recorded(at))
  BY <1>1, <1>2, LogKeeps
<1>5. /\ Len(Sim!Due) \in Nat /\ Len(KeptCasts) \in Nat /\ Len(casts) = Len(Sim!Due) + Len(KeptCasts)
      /\ Cardinality(Painters(at)) \in Nat
  BY <1>2, CastsSplit, NewCasts
<1>6. Len(hits) \in Nat
  BY LenProperties, <1>2 DEF LogInv, IsList
<1>7. dropped' = dropped + Len(Sim!Due) - Len(Recorded(at)) /\ painted' = painted + Cardinality(Painters(at))
  BY <1>1, CombatSteps
<1>8. CountInv'
  <2> DEFINE due == Len(Sim!Due)
             kept == Len(KeptCasts)
             new == Cardinality(Painters(at))
             logged == Len(Recorded(at))
  <2>1. /\ due \in Nat /\ kept \in Nat /\ new \in Nat /\ logged \in Nat /\ logged <= due
        /\ tick \in Nat /\ painted \in Nat /\ dropped \in Nat /\ landed \in Nat
    BY <1>2, <1>4, <1>5 DEF CountInv
  <2>2. /\ Len(casts) = due + kept /\ Len(casts') = kept + new /\ Len(hits') = Len(hits) + logged
        /\ dropped' = dropped + due - logged /\ painted' = painted + new /\ landed' = landed /\ tick' = tick + 1
    BY <1>1, <1>3, <1>4, <1>5, <1>7
  <2>3. painted = Len(casts) + Len(hits) + dropped + landed
    BY <1>2 DEF CountInv
  <2> HIDE DEF due, kept, new, logged
  <2> QED  BY <1>6, <2>1, <2>2, <2>3 DEF CountInv
<1>9. ZoneInv'
  BY <1>1, <1>2, ZoneStays
<1>10. ScoreInv'
  BY <1>1, ScoresStay DEF SimInv, ScoreInv
<1> QED  BY <1>3, <1>4, <1>8, <1>9, <1>10 DEF SimInv

\* The player's input touches nothing of the combat.
LEMMA IntentKeepsSim ==
  ASSUME SimInv, Sim!SetIntent \/ UNCHANGED Sim!vars
  PROVE  SimInv'
<1>1. UNCHANGED <<zone, tick, health, inFlight, casts, hits, dropped, painted, landed, deaths>>
  BY DEF Sim!SetIntent, Sim!vars, Sim!actorVars, Sim!combatVars, Sim!ownerVars
<1>2. ZoneInv'
  BY <1>1, ZoneStays DEF SimInv
<1>3. PaintInv' /\ LogInv' /\ CountInv'
  BY <1>1 DEF SimInv, PaintInv, LogInv, CountInv, IsList, Sim!Actors, Sim!Mobs
<1>4. ScoreInv'
  BY <1>1, ScoresStay DEF SimInv, ScoreInv
<1> QED  BY <1>2, <1>3, <1>4 DEF SimInv

\* The owner lands every hit of the log, and each death is told where it happens.
LEMMA DrainKeepsSim ==
  ASSUME SimInv, Sim!Drain
  PROVE  SimInv'
<1> DEFINE s == [health |-> health, deaths |-> deaths]
           done == Sim!FoldLeft(Sim!Land, s, hits)
           X == {hits[k] : k \in DOMAIN hits}
<1>1. /\ health' = done.health /\ deaths' = done.deaths /\ hits' = <<>> /\ landed' = landed + Len(hits)
      /\ UNCHANGED <<zone, tick, inFlight, casts, dropped, painted>>
  BY DEF Sim!Drain
<1>2. hits \in Seq(X) /\ Len(hits) \in Nat /\ \A h \in X : h.targets \in Seq(Sim!Actors) /\ h.damage \in Nat
  <2>1. hits \in Seq(X) /\ DOMAIN hits = 1..Len(hits)
    BY LenProperties DEF SimInv, LogInv, IsList
  <2>2. Len(hits) \in Nat
    <3> HIDE DEF X
    <3> QED  BY <2>1, LenProperties
  <2> QED  BY <2>1, <2>2 DEF SimInv, LogInv
<1>3. done \in Scores
  <2>1. ZoneInv /\ tick \in Nat /\ s \in Scores
    BY DEF SimInv, CountInv, ScoreInv
  <2> HIDE DEF s, X
  <2> QED  BY <1>2, <2>1, LogStays
<1> HIDE DEF done
<1>4. ScoreInv'
  <2>1. done = [health |-> done.health, deaths |-> done.deaths]
    BY <1>3 DEF Scores
  <2> QED  BY <1>1, <1>3, <2>1, ScoresStay DEF ScoreInv
<1>5. ZoneInv'
  BY <1>1, ZoneStays DEF SimInv
<1>6. PaintInv'
  BY <1>1 DEF SimInv, PaintInv, IsList, Sim!Mobs
<1>7. \A Z : <<>> \in Seq(Z) /\ Len(<<>>) = 0
  BY EmptySeq
<1>8. LogInv'
  <2>1. IsList(<<>>)
    BY <1>7, ListIsList
  <2>2. hits' = <<>> /\ Len(hits') = 0 /\ MaxHits \in Nat
    BY <1>1, <1>7, ZonesAreSound
  <2> QED  BY <2>1, <2>2 DEF LogInv, IsList
<1>9. CountInv'
  <2>1. Len(casts) \in Nat
    BY LenProperties DEF SimInv, PaintInv, IsList
  <2> QED  BY <1>1, <1>2, <1>7, <2>1 DEF SimInv, CountInv
<1> QED  BY <1>4, <1>5, <1>6, <1>8, <1>9 DEF SimInv

\* A behaviour of the simulation consists of its steps.
LEMMA SimRuns ==
  ASSUME part = "sim", [TierNext]_tierVars
  PROVE  part' = part /\ [Sim!Next]_(Sim!vars)
BY DEF TierNext, tierVars, simVars, worldVars, Sim!vars, Sim!actorVars, Sim!combatVars, Sim!ownerVars

\* What the invariant says of each mob and of each actor.
LEMMA CombatCounts ==
  ASSUME SimInv
  PROVE  Sim!CastsAccounted /\ Sim!DeathsToldOnce
<1>1. \A n \in Nat : \A S \in SUBSET (1..n) : (\A j, k \in S : j = k) => Cardinality(S) = IF S = {} THEN 0 ELSE 1
  <2>1. SUFFICES ASSUME NEW n \in Nat, NEW S \in SUBSET (1..n), \A j, k \in S : j = k
                 PROVE  Cardinality(S) = IF S = {} THEN 0 ELSE 1
    OBVIOUS
  <2>2. CASE S = {}
    BY <2>2, FS_EmptySet
  <2>3. CASE S # {}
    <3>1. PICK x \in S : TRUE
      BY <2>3
    <3>2. S = {x}
      BY <2>1, <3>1
    <3> QED  BY <2>3, <3>2, FS_Singleton
  <2> QED  BY <2>2, <2>3
<1>2. \A m \in Sim!Mobs : Cardinality({k \in DOMAIN casts : casts[k].caster = m}) = IF m \in inFlight THEN 1 ELSE 0
  <2>1. SUFFICES ASSUME NEW m \in Sim!Mobs
                 PROVE  Cardinality({k \in DOMAIN casts : casts[k].caster = m}) = IF m \in inFlight THEN 1 ELSE 0
    OBVIOUS
  <2> DEFINE S == {k \in DOMAIN casts : casts[k].caster = m}
  <2>2. DOMAIN casts = 1..Len(casts) /\ Len(casts) \in Nat
    BY LenProperties DEF SimInv, PaintInv, IsList
  <2>3. S \in SUBSET (1..Len(casts)) /\ \A j, k \in S : j = k
    BY <2>2 DEF SimInv, PaintInv
  <2>4. S = {} <=> m \notin inFlight
    BY <2>2 DEF SimInv, PaintInv
  <2> HIDE DEF S
  <2>5. Cardinality(S) = IF S = {} THEN 0 ELSE 1
    BY <1>1, <2>2, <2>3
  <2> QED  BY <2>4, <2>5 DEF S
<1>3. \A e \in Sim!Actors :
        Cardinality({k \in DOMAIN deaths : deaths[k].entity = e})
          = IF Sim!Actor(e).maxHealth > 0 /\ health[e] = 0 THEN 1 ELSE 0
  <2>1. SUFFICES ASSUME NEW e \in Sim!Actors
                 PROVE  Cardinality({k \in DOMAIN deaths : deaths[k].entity = e})
                          = IF Sim!Actor(e).maxHealth > 0 /\ health[e] = 0 THEN 1 ELSE 0
    OBVIOUS
  <2> DEFINE S == {k \in DOMAIN deaths : deaths[k].entity = e}
  <2>2. /\ deaths \in Seq([tick : Nat, entity : Sim!Actors])
        /\ \A j, k \in 1..Len(deaths) : deaths[j].entity = deaths[k].entity => j = k
        /\ (\E k \in 1..Len(deaths) : deaths[k].entity = e) <=> Sim!Actor(e).maxHealth > 0 /\ health[e] = 0
    BY DEF SimInv, ScoreInv, Scores
  <2>3. DOMAIN deaths = 1..Len(deaths) /\ Len(deaths) \in Nat
    BY <2>2, LenProperties
  <2>4. S \in SUBSET (1..Len(deaths)) /\ \A j, k \in S : j = k
    BY <2>2, <2>3
  <2>5. S = {} <=> ~(Sim!Actor(e).maxHealth > 0 /\ health[e] = 0)
    BY <2>2, <2>3
  <2> HIDE DEF S
  <2>6. Cardinality(S) = IF S = {} THEN 0 ELSE 1
    BY <1>1, <2>3, <2>4
  <2> QED  BY <2>5, <2>6 DEF S
<1>4. painted = Len(casts) + Len(hits) + dropped + landed
  BY DEF SimInv, CountInv
<1>5. (\A k \in DOMAIN casts : casts[k].resolve >= tick) /\ (\A k \in DOMAIN hits : hits[k].tick > hits[k].start)
  <2>1. DOMAIN casts = 1..Len(casts) /\ DOMAIN hits = 1..Len(hits)
    BY LenProperties DEF SimInv, PaintInv, LogInv, IsList
  <2> QED  BY <2>1 DEF SimInv, PaintInv, LogInv
<1> QED  BY <1>2, <1>3, <1>4, <1>5 DEF Sim!CastsAccounted, Sim!DeathsToldOnce, Sim!Cardinality, Cardinality

\* Every telegraph that is painted resolves once, a step or more after it was painted, and
\* is in the log, landed or counted as dropped; a mob has one in flight exactly while one
\* is painted; and an actor is told dead once, exactly when its health is gone: in zones of
\* any size, with any number of actors and mobs, wherever they move and whomever a mark
\* catches.
THEOREM CombatIsAccounted == TierSpec => []CombatAccounted
<1> DEFINE I == part = "sim" => SimInv
<1>1. TierInit => I
  BY SimStarts DEF TierInit
<1>2. I /\ [TierNext]_tierVars => I'
  <2>1. ASSUME part = "sim", SimInv, [TierNext]_tierVars PROVE SimInv'
    BY <2>1, SimRuns, StepKeepsSim, IntentKeepsSim, DrainKeepsSim DEF Sim!Next
  <2>2. ASSUME part # "sim", [TierNext]_tierVars PROVE part' # "sim"
    BY <2>2 DEF TierNext, tierVars
  <2> QED  BY <2>1, <2>2
<1>3. I => CombatAccounted
  BY CombatCounts DEF CombatAccounted
<1> QED  BY <1>1, <1>2, <1>3, PTL DEF TierSpec
=============================================================================
