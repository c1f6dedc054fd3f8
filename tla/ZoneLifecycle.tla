--------------------------- MODULE ZoneLifecycle ---------------------------
(***************************************************************************)
(* One zone process from its start to its end: cmd/zone's runListen, the   *)
(* conversation with the Agones sidecar (server/agones), the binding the   *)
(* preparation watch observes, and the claim gates in front of the private *)
(* claim service (server/zoneclaim, internal/zonecustody).                 *)
(*                                                                         *)
(* The sidecar, the allocator behind it and the claim service are          *)
(* external: they answer, fail, or fail after having done the work.  Keys, *)
(* envelopes and tokens are valid; the sealed admission mode is modelled.  *)
(***************************************************************************)
EXTENDS Integers, Sequences, FiniteSets

CONSTANTS Handlers,  \* socket upgrades that ask for admission
          Locators,  \* lease locators the allocator may put on the GameServer
          Enrolled,  \* the locator the custodian was enrolled for
          Observers, \* the players' entities their tokens name
          MaxEdits,  \* how often the allocation's metadata changes
          MaxPending, \* snapshots of these changes the watch has still to deliver
          None

VARIABLES gateKind,  \* "plain" (Gate), "receipt" or "custody" (ReceiptGate)
          main,      \* where runListen is
          stopping,  \* the process context is cancelled
          gs,        \* the GameServer as the sidecar serves it
          edits,     \* changes left
          watch,     \* the watch stream: "none", "open" or "ended"
          stream,    \* snapshots the watch has still to deliver
          observed,  \* the metadata barrier of PrepareAdmission has fired
          binding,   \* claimBindingState
          health,    \* where the health loop is
          halted,    \* Lifecycle.stop was called
          told,      \* Shutdown calls the sidecar received
          claim,     \* claim[h]: one admission
          gate,      \* ReceiptGate's fields
          custody,   \* the enrollment: attempted, and the receipt stored
          broken,    \* admissions whose binding changed under them (history)
          firstAsked \* the lease the gate first asked for (history)

processVars == <<gateKind, main, stopping, told>>
sidecarVars == <<gs, edits, watch, stream, observed>>
healthVars  == <<health, halted>>
gateVars    == <<claim, gate, custody, firstAsked>>
vars == <<processVars, sidecarVars, binding, healthVars, gateVars, broken>>

\* None stands for no lease and no socket.
Sane == None \notin Locators \cup Handlers /\ MaxEdits \in Nat

Published == {"envelope", "key", "label"}   \* the admission metadata
NoReceipt == [lease |-> None, observer |-> None, generation |-> 0]
NoClaim   == [pc |-> "idle", observer |-> None, lease |-> None, revision |-> 0,
              late |-> FALSE, receipt |-> NoReceipt]

MainPCs   == {"start", "identity", "watch", "envelope", "key", "label", "observe",
              "assemble", "listen", "ready", "loop", "drain", "leave", "halt", "down"}
ClaimPCs  == {"idle", "queue", "ask", "retain", "check", "admitted"}
HealthPCs == {"none", "beat", "dial", "done"}

Init ==
  /\ gateKind \in {"plain", "receipt", "custody"}
  /\ main = "start" /\ stopping = FALSE /\ told = 0
     \* A restarted container finds its GameServer past Starting.
  /\ gs \in [state : {"Starting", "Allocated"}, meta : {{}}, locator : {None},
             attempt : {None}, deleting : {FALSE}]
  /\ edits = MaxEdits
  /\ watch = "none" /\ stream = <<>> /\ observed = FALSE
  /\ binding = [lease |-> None, revision |-> 0, closed |-> FALSE]
  /\ health = "none" /\ halted = FALSE
  /\ claim = [h \in Handlers |-> NoClaim]
  /\ gate = [holder |-> None, uncertain |-> FALSE, captured |-> FALSE, receipt |-> NoReceipt]
  /\ custody = [attempted |-> FALSE, stored |-> NoReceipt]
  /\ broken = {} /\ firstAsked = None

-----------------------------------------------------------------------------
\* The binding (agones/claim.go).

\* claimBindingState.live and the condition of snapshot.
Live == watch # "none" /\ ~binding.closed /\ ~stopping
Bound == Live /\ binding.lease # None

\* Mutant of Current: the lease is compared without its revision.
SameLease(c) == Bound /\ binding.lease = c.lease

\* ClaimBindingCurrent: the very observation the admission started from.
Current(c) == Bound /\ binding.lease = c.lease /\ binding.revision = c.revision

InFlight == {h \in Handlers : claim[h].pc \in {"ask", "retain", "check"}}

\* Who sees its binding go when the binding becomes next.
Breaks(next) ==
  broken' = IF next.revision # binding.revision \/ next.closed
            THEN broken \cup InFlight ELSE broken

Rebind(next) == binding' = next /\ Breaks(next)
CloseBinding == Rebind([binding EXCEPT !.closed = TRUE, !.lease = None])

Ours(snap) == snap.meta = Published   \* admissionIdentityMetadataMatches
Awaited(snap) == Ours(snap) /\ snap.state = "Starting"

\* The lease a snapshot names: only an allocated, undeleted object with this
\* process's metadata, whose attempt label agrees with the locator.
Named(snap) ==
  IF Ours(snap) /\ snap.state = "Allocated" /\ ~snap.deleting
     /\ snap.attempt = snap.locator
  THEN snap.locator ELSE None

\* observe: every change is a new revision, equal observations are none.
Observe(snap) ==
  IF binding.closed \/ Named(snap) = binding.lease THEN UNCHANGED <<binding, broken>>
  ELSE Rebind([binding EXCEPT !.lease = Named(snap), !.revision = @ + 1])

-----------------------------------------------------------------------------
\* The sidecar (external), as agonestest's fake also serves it.
Opening == <<gs>>
Sends(snap) == stream' = IF watch = "open" THEN Append(stream, snap) ELSE stream

\* The watch callback, in the order of the stream: observe, then the barrier.
Deliver ==
  /\ watch = "open" /\ stream # <<>>
  /\ LET snap == Head(stream) IN
     /\ Observe(snap)
     /\ observed' = (observed \/ Awaited(snap))
  /\ stream' = Tail(stream)
  /\ UNCHANGED <<processVars, gs, edits, watch, healthVars, gateVars>>

\* The stream ends with an error, EOF or its context; binding.close follows.
WatchEnds ==
  /\ watch = "open"
  /\ watch' = "ended" /\ stream' = <<>> /\ CloseBinding
  /\ UNCHANGED <<processVars, gs, edits, observed, healthVars, gateVars>>

\* The allocator and whoever else edits the object: the locator with or without
\* the label of its attempt, or the deletion of the object.
Edit ==
  /\ edits > 0 /\ Len(stream) < MaxPending /\ main # "down"
  /\ gs.state \in {"Ready", "Allocated"} /\ gs.meta = Published
  /\ \/ \E l \in Locators \cup {None} : \E a \in {l, None} :
          gs' = [gs EXCEPT !.state = "Allocated", !.locator = l, !.attempt = a]
     \/ gs' = [gs EXCEPT !.deleting = TRUE]
  /\ gs' # gs
  /\ edits' = edits - 1 /\ Sends(gs')
  /\ UNCHANGED <<processVars, watch, observed, binding, healthVars, gateVars, broken>>

-----------------------------------------------------------------------------
\* PrepareAdmission and runListen.
Goto(label) == main' = label
Tell == told' = told + 1   \* sdk.Shutdown, whatever it answers

\* fail: the sidecar is told, and the watch context ends with the call.
Abandon ==
  /\ Goto("down") /\ Tell /\ CloseBinding
  /\ watch' = IF watch = "open" THEN "ended" ELSE watch
  /\ stream' = <<>>
  /\ UNCHANGED <<gateKind, stopping, gs, edits, observed, healthVars, gateVars>>

Dial ==
  /\ main = "start"
  /\ main' \in {"identity", "down"}
  /\ UNCHANGED <<gateKind, stopping, told, sidecarVars, binding, healthVars, gateVars, broken>>

StartingIdentity == gs.state = "Starting"

\* GameServer, its identity and the sealing of the secret.
Identify ==
  /\ main = "identity"
  /\ \/ /\ StartingIdentity /\ Goto("watch")
        /\ UNCHANGED <<gateKind, stopping, told, sidecarVars, binding, healthVars, gateVars, broken>>
     \/ Abandon

OpenWatch ==
  /\ main = "watch"
  /\ \/ /\ Goto("envelope") /\ watch' = "open" /\ stream' = Opening
        /\ UNCHANGED <<gateKind, stopping, told, gs, edits, observed, binding, healthVars, gateVars, broken>>
     \/ Abandon

\* SetAnnotation twice, then SetLabel; the label last, so that an allocation
\* that selects on it finds the rest.
AfterPublish == [envelope |-> "key", key |-> "label", label |-> "observe"]
Publish ==
  /\ main \in Published
  /\ \/ /\ gs' = [gs EXCEPT !.meta = @ \cup {main}]
        /\ Goto(AfterPublish[main]) /\ Sends(gs')
        /\ UNCHANGED <<gateKind, stopping, told, edits, watch, observed, binding, healthVars, gateVars, broken>>
     \/ Abandon

\* The barrier: the zone has seen its own metadata, or gives up.
Barrier ==
  /\ main = "observe"
  /\ \/ /\ observed /\ Live /\ Goto("assemble")
        /\ UNCHANGED <<gateKind, stopping, told, sidecarVars, binding, healthVars, gateVars, broken>>
     \/ Abandon

\* The deferred prepared.Shutdown when Ready did not succeed.
Release ==
  /\ Goto("down") /\ Tell /\ CloseBinding
  /\ UNCHANGED <<gateKind, stopping, sidecarVars, healthVars, gateVars>>

\* Allocation identity, verifier, gate and hub; then the listener.
Assemble ==
  /\ main \in {"assemble", "listen"}
  /\ \/ /\ Goto(IF main = "assemble" THEN "listen" ELSE "ready")
        /\ main = "listen" => ~stopping
        /\ UNCHANGED <<gateKind, stopping, told, sidecarVars, binding, healthVars, gateVars, broken>>
     \/ Release

\* prepared.Ready, behind the bound listener and the serving goroutine. The
\* sidecar may have acted on a call that failed.
MarkReady ==
  /\ main = "ready"
  /\ \/ /\ Live
        /\ gs' = [gs EXCEPT !.state = "Ready"] /\ Sends(gs')
        /\ \/ Goto("loop") /\ health' = "beat"
           \/ Goto("drain") /\ UNCHANGED health
     \/ /\ Goto("drain") /\ UNCHANGED <<gs, stream, health>>
  /\ UNCHANGED <<gateKind, stopping, told, edits, watch, observed, binding, halted, gateVars, broken>>

\* SIGTERM, or a failed serve goroutine, ends the loop.
Signal ==
  /\ ~stopping /\ main # "down"
  /\ stopping' = TRUE /\ broken' = broken \cup InFlight
  /\ UNCHANGED <<gateKind, main, told, sidecarVars, binding, healthVars, gateVars>>

LeaveLoop ==
  /\ main = "loop" /\ Goto("drain")
  /\ UNCHANGED <<gateKind, stopping, told, sidecarVars, binding, healthVars, gateVars, broken>>

\* hub.Shutdown cancels the admissions and waits for them, five seconds at most.
Drain ==
  /\ main = "drain" /\ Goto("leave")
  /\ claim' = [h \in Handlers |-> [claim[h] EXCEPT !.late = TRUE]]
  /\ UNCHANGED <<gateKind, stopping, told, sidecarVars, binding, healthVars, gate, custody, firstAsked, broken>>

\* Mutant of Leave: a failed Ready counts as activated, so nobody is left to
\* tell the sidecar.
LeaveUntold ==
  /\ main = "leave"
  /\ Goto(IF health = "none" THEN "down" ELSE "halt")
  /\ CloseBinding /\ halted' = TRUE
  /\ UNCHANGED <<gateKind, stopping, told, sidecarVars, health, gateVars>>

\* lc.Shutdown owns the sidecar once Ready succeeded, prepared.Shutdown before.
Leave ==
  /\ main = "leave"
  /\ IF health = "none" THEN Release
     ELSE /\ Goto("halt") /\ CloseBinding /\ halted' = TRUE
          /\ UNCHANGED <<gateKind, stopping, told, sidecarVars, health, gateVars>>

\* Shutdown waits for the health loop, then tells the sidecar.
Halt ==
  /\ main = "halt" /\ health = "done"
  /\ Goto("down") /\ Tell
  /\ UNCHANGED <<gateKind, stopping, sidecarVars, binding, healthVars, gateVars, broken>>

-----------------------------------------------------------------------------
\* healthLoop. A beat that fails closes the binding: the watch is not
\* reinstalled by a new connection.
HealthEnds == halted \/ stopping

\* A beat that reaches the sidecar changes nothing.
BeatFails ==
  /\ health = "beat" /\ health' = "dial" /\ CloseBinding
  /\ UNCHANGED <<processVars, sidecarVars, halted, gateVars>>

\* The dial is not cancellable; it answers, or it never does.
DialAnswers ==
  /\ health = "dial" /\ health' = "beat"
  /\ UNCHANGED <<processVars, sidecarVars, binding, halted, gateVars, broken>>

\* Mutant of DialAbandoned: redial waits for the dial's own answer.
DialAwaited == FALSE /\ UNCHANGED vars

\* redial leaves the dial behind when the process ends.
DialAbandoned ==
  /\ health = "dial" /\ HealthEnds /\ health' = "done"
  /\ UNCHANGED <<processVars, sidecarVars, binding, halted, gateVars, broken>>

HeartStops ==
  /\ health = "beat" /\ HealthEnds /\ health' = "done"
  /\ UNCHANGED <<processVars, sidecarVars, binding, halted, gateVars, broken>>

-----------------------------------------------------------------------------
\* The claim gates.
Serving == main \in {"ready", "loop"}
Custodied == gateKind = "custody"

Moves(h, label) == claim' = [claim EXCEPT ![h].pc = label]
\* Returning: the gate's slot goes to the next admission.
Leaves(h, result) ==
  /\ claim' = [claim EXCEPT ![h] = [NoClaim EXCEPT !.pc = result]]
  /\ gate' = IF gate.holder = h THEN [gate EXCEPT !.holder = None] ELSE gate
  /\ broken' = broken \ {h}
Refuse(h) == Leaves(h, "idle") /\ UNCHANGED <<custody, firstAsked>>
Others == UNCHANGED <<processVars, sidecarVars, binding, healthVars>>

Arrive(h) ==
  /\ Serving /\ claim[h].pc = "idle"
  /\ \E o \in Observers :
       claim' = [claim EXCEPT ![h] = [NoClaim EXCEPT !.pc = "queue", !.observer = o]]
  /\ Others /\ UNCHANGED <<gate, custody, firstAsked, broken>>

\* The request's context ends: its timeout, its peer, or the shutdown.
Expire(h) ==
  /\ claim[h].pc \notin {"idle", "admitted"} /\ ~claim[h].late
  /\ claim' = [claim EXCEPT ![h].late = TRUE]
  /\ Others /\ UNCHANGED <<gate, custody, firstAsked, broken>>

Matches(r, lease, observer) == r.lease = lease /\ r.observer = observer

\* Receipt: withheld while custody is uncertain.
Exposed == IF gate.captured /\ ~gate.uncertain THEN gate.receipt ELSE NoReceipt

\* Mutant of Latch: a custodied gate trusts the reply to tell what was done.
LatchNothing == gate
\* The latch before dispatch: a failed reply can follow a remote commit.
Latch == IF Custodied /\ ~gate.captured THEN [gate EXCEPT !.uncertain = TRUE] ELSE gate

\* The admission slot of a receipt gate serializes what follows; then the
\* request's binding is read.
Enter(h) ==
  /\ claim[h].pc = "queue"
  /\ \/ claim[h].late /\ Refuse(h)
     \/ /\ gateKind # "plain" => gate.holder = None
        /\ IF \/ claim[h].late \/ gate.uncertain \/ ~Bound
              \/ gate.captured /\ ~Matches(gate.receipt, binding.lease, claim[h].observer)
           THEN Refuse(h)
           ELSE /\ claim' = [claim EXCEPT ![h].pc = "ask", ![h].lease = binding.lease,
                                          ![h].revision = binding.revision]
                /\ gate' = IF gateKind = "plain" THEN gate ELSE [Latch EXCEPT !.holder = h]
                /\ firstAsked' = IF firstAsked = None THEN binding.lease ELSE firstAsked
                /\ UNCHANGED <<custody, broken>>
  /\ Others

\* The first receipt fixes the lifetime.
Capture(r) == IF gate.captured THEN gate ELSE [gate EXCEPT !.receipt = r, !.captured = TRUE]

\* Mutant of SameLifetime: the binding alone is compared.
AnyLifetime(r) == TRUE
\* A replay must answer with the original receipt.
SameLifetime(r) == gate.captured => gate.receipt = r

Answered(h, r) ==
  IF gateKind = "plain" THEN Moves(h, "check") /\ UNCHANGED <<gate, custody, firstAsked, broken>>
  ELSE IF ~SameLifetime(r) THEN Refuse(h)
  ELSE /\ gate' = Capture(r)
       /\ claim' = [claim EXCEPT ![h].receipt = r,
                      ![h].pc = IF Custodied /\ ~gate.captured THEN "retain" ELSE "check"]
       /\ UNCHANGED <<custody, firstAsked, broken>>

\* The claim service answers with the lease's generation. It may refuse, and its
\* answer may be lost whether it committed or not.
Ask(h) ==
  /\ claim[h].pc = "ask"
  /\ \/ Refuse(h)
     \/ /\ ~claim[h].late
        /\ \E g \in 1..2 : Answered(h, [lease |-> claim[h].lease,
                                        observer |-> claim[h].observer, generation |-> g])
  /\ Others

\* Enrollment.RetainOriginal: one create for the enrolled lifetime, whose
\* acknowledgement may be lost; a request that ended does not attempt it.
Retain(h) ==
  /\ claim[h].pc = "retain"
  /\ \/ claim[h].late /\ Leaves(h, "idle") /\ UNCHANGED custody
     \/ /\ ~claim[h].late /\ ~custody.attempted
        /\ gate.receipt.lease = Enrolled
        /\ custody' = [custody EXCEPT !.attempted = TRUE, !.stored = gate.receipt]
        /\ \/ /\ Moves(h, "check") /\ gate' = [gate EXCEPT !.uncertain = FALSE]
              /\ UNCHANGED broken
           \/ Leaves(h, "idle")
     \/ ~claim[h].late /\ custody' = [custody EXCEPT !.attempted = TRUE] /\ Leaves(h, "idle")
  /\ UNCHANGED firstAsked /\ Others

\* After the claim the observation must still be the one it started from.
Check(h) ==
  /\ claim[h].pc = "check"
  /\ IF claim[h].late \/ ~Current(claim[h]) THEN Refuse(h)
     ELSE /\ claim' = [claim EXCEPT ![h].pc = "admitted"]
          /\ gate' = IF gate.holder = h THEN [gate EXCEPT !.holder = None] ELSE gate
          /\ UNCHANGED <<custody, firstAsked, broken>>
  /\ Others

\* The socket ends; its observer may come again.
Depart(h) ==
  /\ claim[h].pc = "admitted" /\ Refuse(h) /\ Others

Admission(h) ==
  \/ Arrive(h) \/ Expire(h) \/ Enter(h) \/ Ask(h) \/ Retain(h)
  \/ Check(h) \/ Depart(h)

Process == \/ Dial \/ Identify \/ OpenWatch \/ Publish \/ Barrier \/ Assemble
           \/ MarkReady \/ LeaveLoop \/ Drain \/ Leave \/ Halt
HealthLoop == BeatFails \/ DialAnswers \/ DialAbandoned \/ HeartStops
Sidecar == Deliver \/ WatchEnds \/ Edit

Next == Process \/ HealthLoop \/ Sidecar \/ Signal \/ \E h \in Handlers : Admission(h)

Spec == Init /\ [][Next]_vars

-----------------------------------------------------------------------------
TypeOK ==
  /\ gateKind \in {"plain", "receipt", "custody"} /\ main \in MainPCs
  /\ stopping \in BOOLEAN /\ told \in 0..1
  /\ gs.meta \subseteq Published /\ gs.state \in {"Starting", "Ready", "Allocated"}
  /\ edits \in 0..MaxEdits /\ watch \in {"none", "open", "ended"}
  /\ binding.lease \in Locators \cup {None} /\ binding.revision \in Nat
  /\ binding.closed => binding.lease = None
  /\ health \in HealthPCs /\ halted \in BOOLEAN
  /\ \A h \in Handlers : claim[h].pc \in ClaimPCs
  /\ gate.holder \in Handlers \cup {None} /\ broken \subseteq Handlers

\* An admission whose binding changed under it fails its last comparison.
AdmitsUnbroken ==
  \A h \in Handlers : claim[h].pc # "admitted" /\ claim'[h].pc = "admitted"
    => h \notin broken /\ ~stopping

\* A socket is admitted only if the allocation it was claimed for was observed
\* without interruption from before the claim until after its answer: a binding
\* that went and came back (the same locator), a lost watch, a failed beat or a
\* shutdown in between refuses it (ClaimBindingCurrent compares revisions).
AdmittedUnderOneBinding == [][AdmitsUnbroken]_vars

\* What a custodied gate gives out or admits under is in custody first: a lost
\* claim answer or a lost custody acknowledgement closes the gate for good.
CustodyBeforeUse ==
  Custodied =>
    /\ Exposed # NoReceipt => custody.stored = Exposed
    /\ \A h \in Handlers : claim[h].pc = "admitted" => custody.stored = claim[h].receipt

\* The receipt is never replaced, and whoever is admitted was claimed under it.
KeepsLifetime ==
  /\ gate.captured => gate'.captured /\ gate'.receipt = gate.receipt
  /\ \A h \in Handlers :
       gateKind # "plain" /\ claim[h].pc # "admitted" /\ claim'[h].pc = "admitted"
         => claim'[h].receipt = gate.receipt
            /\ (Custodied => gate.receipt.lease = firstAsked)

\* A receipt gate serves one allocation lifetime; with custody it is that of the
\* first lease asked for, whose claim may have been committed unheard, and its
\* receipt is stored before it is used.
OneLifetime == [][KeepsLifetime /\ CustodyBeforeUse']_vars

\* The end of a process that reached the sidecar.
EndsTold ==
  main' = "down" /\ main \notin {"start", "down"} => told = 0 /\ told' = 1

\* Once the sidecar was reached the process never ends without telling it to
\* recycle the GameServer, and tells it once, whichever step failed.
SidecarToldOnce == [][EndsTold]_vars
=============================================================================
