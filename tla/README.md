# World at Ruin, verified: handoff, zone, and platform

This directory holds TLA+ models of the server side of World at Ruin and of the client's end of the
replication stream, the TLC configurations that check them on small instances, and TLAPS proofs of
the results that matter most. Every module is translated from the source under `src/`;
`PROJECT.json` maps each definition to the lines it stands for.

## The system

A player signs in (`nakamaauth`) and asks Nakama for a zone (`CreateHandoff`). Nakama reserves a
*lease* in its storage, allocates an Agones GameServer for it and hands the player an endpoint and a
token. The client connects to the zone's web socket; the zone redeems the token by *claiming* the
lease over a private RPC, attaches the player to the simulation and streams replicated state until
the session ends. Several Nakama processes and several retries of one player run at once, and each
step is a call to a storage engine or a Kubernetes API whose answer may be lost. Beside this path
stand the player's stores, the friend graph, the stores of an allocator tier that is built but not
wired in yet, and an offline publisher of signed updates.

| component | state it keeps | operations | talks to | module |
| --- | --- | --- | --- | --- |
| lease store (`nakamalease`) | a JSON lease per (user, reservation), its version | Create, Replace, BeginDispatch, Finalize, BeginRelease, Release, ClaimByKey, EndSession, ReclaimExpired, the attempt scan | Nakama storage, by conditional writes | `LeaseRecord`, `LeaseStore`, `LeaseDocument` |
| allocation coordinator (`handoffalloc`) | none of its own | Allocate, Release, Reconcile, the expiry loop | lease store, resource adapter | `Coordinator`, `ExpirySweeper` |
| resource adapter (`agonesresources`, `agonesalloc`, `gameserverapi`) | none of its own | observe, allocate, adopt, Resolve, Release | Agones, Kubernetes | `Coordinator`, `Fleet` |
| handoff service (`handoff`) | none of its own | CreateHandoff | coordinator | `Coordinator` |
| claim and completion RPC (`claimrpc`) | none of its own | redeem a token, end a session | lease store, adapter | `ZoneSession`, `ZoneLifecycle` |
| orphan reaper (`orphanreaper`) | suspects of the last sweep | scan, scan, delete | Kubernetes, lease store | `OrphanReaper` |
| runtime module (`nakamaruntime`) | connections, listener, life, gate | initialize and roll back, enter, drain, retire | everything above | `RuntimeModule` |
| zone socket hub (`zonesock`) | connections, their workers, requests to the simulation, mailboxes | admission, attach, detach, pump, resync, movement, shutdown | simulation, gate, clients | `ZoneHub`, `MovementIntake`, `ReplicationStream` |
| claim gates (`zoneclaim`) and lifecycle (`agones`, `cmd/zone`) | the binding, its revision, the receipt | prepare, ready, watch, claim, shut down | sidecar, claim RPC | `ZoneLifecycle` |
| simulation (`sim`) | actors, intents, casts, hit log | Step, ApplyDamage, Snapshot, Update | owned by one goroutine | `Geometry`, `ZoneSim`, `ReplicaStore` |
| wire codec (`wire`) | none | encode, decode | hub, client | `WireMessages`, `Wire` |
| player stores (`playerstate`, `nakamacharacter`, `nakamainventory`, `nakamamastery`) | a document and the audits of its mutations | load, save, apply, resolve | Nakama storage | `PlayerState` |
| friends (`nakamafriends`) | Nakama's edges | invite, remove, block, status, list | Nakama | `FriendGraph` |
| provisioning (`nakamaauth`) | identity bindings, a gate per process | first sign-in | Nakama | `Provisioning` |
| allocator discovery and peers | none of its own | observe, connect, reserve | Kubernetes, an allocator | `AllocatorPeer` |
| allocator generation (`nakamageneration`, `zonecustody`, `allocatoradmission`, `gameservercommit`, `custodywitness`) | membership, custody, grants, hand-over rows, the witness | create once, register, commit, fence, recover, publish | Nakama storage, Kubernetes, a table outside | `CreateOnce`, `GenerationFence`, `CustodyWitness` |
| update publisher | files | issue, assemble, verify, canonicalize | the file system | `UpdateTrust` |
| client stream (`zone_connection`, `replica_store`, `zone_movement`) | replica, own position | fold, refuse, acknowledge | the hub | `ReplicaStore`, `ReplicationStream` |
| client persistence (`save_vault`, `file_lock`, `boot_recovery`) | save generations, lock file, boot attempts | rotate, take over, roll back | the file system | not modelled |

What makes it hard, and the property each part owes:

* *Retries overlap.* Nothing serialises two calls for one reservation except the version of the
  lease. One attempt must get one object, one answer, and the player's allocation must outlive the
  retries that lost. The same holds of a first sign-in, of a mastery event and of a row that is
  created once.
* *Answers are lost.* A dispatch whose acknowledgement is lost may have allocated; a sign-in that is
  given up may still issue a session; a write that was
  refused may be the retry of one that committed; a commit may land after everybody gave up on it.
* *Cleanup is concurrent with use.* Sweeps, reapers, failed calls and ended sessions delete; a claim
  may land in between. A shutdown hook closes connections handlers may be using.
* *Goroutines meet at queues and locks.* A duplicate connection, a peer that never completes a close
  handshake, an upgrade that races shutdown, a queue that overflows while its writer is running, a
  mailbox whose connection ends between the check and the step.
* *What was checked may be stale.* A binding that went and came back during a claim, a generation
  that changed during a handshake, a page of Pods older than the next, a revocation list that is
  older than the head.
* *Integers are truncated.* A chase that rounds to a standstill, a contact that rounds to a crossing.
* *Two tiers keep one table.* The client refuses a delta it cannot fold, for good.

`PROJECT.json` lists each hazard at its line with the properties that watch it.

## The modules

### The handoff

| module | models | correspondence |
| --- | --- | --- |
| `LeaseRecord` | the lease, what `normalizeLease` accepts, the transitions of one record | a record of attempt, object, dispatch and three flags |
| `LeaseStore` | `nakamalease.Store`, one key | an operation is an action with a result; the version check, the conditional write and the reload behind a rejection are one action, since a lease content never returns |
| `Fleet` | the allocator and the GameServers (external) | objects carry an attempt label until deleted; `Anomalies` names what a real allocator may add: a second copy, a late landing |
| `Coordinator` | `CreateHandoff` down to the adapter | a process per call; its program counter stops at every external call, so any two calls interleave between any two of them |
| `ExpirySweeper` | `ReclaimExpired` under `RunExpiryReconciler` | list, fence, recheck, delete, remove, one step each |
| `OrphanReaper` | `orphanreaper.Reconciler` | the object scan, the lease scan, the grace, the conditional delete |
| `ZoneSession` | the claim and completion handlers | LoadForClaim, Resolve, ClaimByKey, then EndSession |
| `Handoff` | all of the above over one key | `Next` is the interleaving of their steps with the clock and the allocator; the properties are stated here |
| `LeaseLifecycle` | what the handoff promises of a lease and its object | the abstract specification `Handoff` implements: `INSTANCE LeaseLifecycle WITH lease <- lease, server <- server` |
| `HandoffInvariants` | the inductive invariants behind the handoff's safety | not code: state formulae |
| `LeaseDocument` | the stored form of a lease while builds of three ages share it | a document is its schema and which members are set, zero, null or absent; each operation is a read, a check and a conditional write or removal |
| `RuntimeModule` | the module inside Nakama | initialization is one step per acquisition, any of which may fail; a handler or sweep is only the interval in which it may use the connections |

One reservation key is modelled, because every operation reads and writes a single key. The
deadline `ExpiresAt` is a set of expired attempts; the allocation ID, the observer and the secret
reference are one value, since they pin the same object. Names, tokens, certificates and endpoints
are valid by assumption.

A *fault* (bounded by `MaxFaults`) is a storage error before or after the write committed, a failed
or unanswered API call, a crash of the process, or a GameServer that fails by itself.

### The zone

| module | models | correspondence |
| --- | --- | --- |
| `ZoneHub` | the life of a connection and of the hub | an HTTP handler, a reader, a writer and, for a refused attachment, a closer goroutine per connection; `pending` and `batch` are what was scheduled for the simulation and what `runPending` took; `once` is `sync.Once` as others see it: free, held by a close handshake, spent |
| `MovementIntake` | the mailbox, the hold, the budget and the acknowledgement slot of each connection | `BeforeStep` is split where another goroutine can run: after the zeroing, around the step, between the slot and its token; the writer never stops on its own here (`ZoneHub` ends it) |
| `ZoneLifecycle` | one zone process in the sealed mode, with each gate | `main` is where `runListen` is; the watch, the health loop and each socket are goroutines beside it; `gateKind` chooses the plain, receipt or custody gate, of which `cmd/zone` wires the first |
| `Geometry` | speed clamps, telegraph shapes, first contact | pure integer operators with the code's truncations |
| `ZoneSim` | one step of a world | `Step` composes what `World.Step` calls, in its order; `Hurt` and `Drain` are the owner between steps; the view radius is a constant of an actor |
| `WireMessages`, `Wire` | validity, layout and decoding of every frame | one word per fixed-width field, two's complement modulo `Word`; a layout is data that the encoder and the decoder share |
| `ReplicaStore` | the tracker's delta and the client's fold | pure operators: `Delta` is `SnapshotTracker.Update`, `Applies` and `Fold` are `_apply_delta` |
| `ReplicationStream` | the frames of one connection | the simulation goroutine pumps, acknowledges and resyncs; `Drain` is one turn of `send`'s loop; the client folds what the writer took, since nothing flows back |

### The platform

| module | models | correspondence |
| --- | --- | --- |
| `PlayerState` | a record, its audits and concurrent calls on it | `kind` chooses mastery, inventory or character; a batch commits whole or not at all, by version, with its answer lost or not |
| `FriendGraph` | the boundary over Nakama's directed edges | each request of Nakama is a step; `wanted` and `barred` remember consent and blocks for the properties |
| `Provisioning` | the first sign-in with an identity | the gate of each replica with its queue and token, Nakama's unique e-mail and single session, the create-only binding; `adrift` are the calls a request stopped waiting for, which Nakama performs later or never |
| `AllocatorPeer` | observation, connection and answer of one reservation | a page is a step; Pods move, come and go between two of them |
| `CreateOnce` | the membership of a generation and the custody of a lifetime | a write is sent, lands at any later time or never, and its caller may stop waiting |
| `CustodyWitness`, `GenerationFence` | closing a generation: grants, commits, fence, hand-over, recovery, publication | a row is its own version; the commit's one write is a message that may arrive at any time; a recoverer re-reads the owner and hand-off rows only when a witness is composed |
| `FenceAuthority` | the fence reference in `internal/fencereference` | the abstract specification `GenerationFence` implements |
| `UpdateTrust` | the publisher's commands over one file system | reading, staging and linking are steps of a process that may be killed; a signature is the name of its key |

### Compositions and proofs

`ZoneTier` puts the parts of a zone process beside its hub side by side (`ZoneSim`, `ZoneLifecycle`,
`MovementIntake`, `Wire`), and `Platform` everything of the platform but the generation, with the
stored form of a lease (`LeaseDocument`) and the runtime module. They are parameterised like their
parts and state the properties of the runs; `MCZoneTier` and `MCPlatform` only give the values of an
instance and check the laws of the pure operators on it. `Handoff` is the composition of the handoff.
`GenerationFence` and `ReplicationStream` need no module for their instances: the `.cfg` gives every value.

Proofs stand in `HandoffProofs`, `LeaseLifecycleProofs`, `ZoneHubProofs`, `ReplicationStreamProofs`,
`GenerationFenceProofs`, `ZoneTierProofs` (the zone process, the movement input and the combat) and
`PlatformProofs` (the player stores and the parts of `Platform`).

## What is checked

Bounds are chosen so that each hazard can occur: two calls are enough for a takeover and a lost
race, a second object for a duplicate, two sweeps for a sweep that outlives another one's removal,
two connections for a duplicate, a queue of two for a frame in the middle of a drain, two recoverers
for a takeover, three creators for a retry beside a competitor.

Several runs check more than one setting. Such a module has a variable `part` that is chosen in the
initial state and never changes; every action belongs to a part, the variables of the other parts
stay `None` or as they began (`MCShutdowns`, `ZoneTier`, `Platform`) or the parts are instances of one
module over the same variables (`MCLiveness`, `MCHandoffOverlap`), and a property that is not of all
parts says of which it speaks. A name that two modules both use for a variable is shared, since only
one of them runs.

| run | instance | distinct states | shows |
| --- | --- | --- | --- |
| `handoff` | 2 calls, 2 objects, 2 sweeps, 1 session, 1 fault | 1.46 M | `TypeOK`; a request leaves only under its own durable dispatch (`DispatchBarrier`); a claimed session is not cleaned up (`AdmittedSessionKept`); an unknown dispatch is given up only with a known outcome (`QuarantineKept`); nobody but a claim changes what was handed out, until a step fails (`RetainedUntilFault`); the handoff implements its lifecycle (`ImplementsLifecycle`) |
| `handoff_overlap` | settings `copies` (2 calls, a sweep, duplicates, 1 fault), `late` (2 calls, a sweep, a reaper, late landings, 1 fault) and `calm` (3 calls, no fault), 2 objects | 4.29 M | nobody is handed two objects of one attempt (`OneAnswerPerAttempt`); the object of a live lease is not deleted (`LeasedObjectKept`) |
| `liveness` | settings `calls` (2 calls, 1 object, a sweep, 1 fault), `orphans` (1 call, 2 objects, a sweep, a reaper, 2 faults, late landings) and `shared` (2 calls with one attempt ID, a session), fair | 311 k | calls return, an unclaimed attempt ends, orphans are reclaimed (`CallsReturn`, `UnclaimedAttemptEnds`, `OrphansReclaimed`); calls that repeat an attempt ID get one object (`OneObjectPerAttempt`) |
| `shutdowns` | `hub`: 2 connections of one observer; `module`: 1 RPC, 1 claim, 2 sweeps, every combination of settings; fair | 385 k | attachments and counters agree (`AttachmentsAgree`), a drained hub is quiet (`DrainedIsQuiet`), a replacement does not take the live connection (`LiveConnectionKept`), connections end (`HubLetsGo`) and the module retires (`ShutdownRetires`) |
| `replication` | 1 entity, 2 states, 2 casts, a queue of 2, 5 ticks, each version, fair | 860 k | the queue leads the client to the tracker's table (`QueueReachesTracker`), acknowledgements are accepted (`AcksAccepted`), the replica converges (`ReplicaConverges`) |
| `generation_fence` | an owner, 2 recoverers, 2 servers, 2 grants, 1 change of a server, 1 restored backup, with and without a witness | 4.56 M | reports are final, also of a recoverer without a witness that fences although its rows were rolled back (`ReportedIsFinal`), one process recovers (`OneRecovery`), the generation implements the fence reference (`ImplementsAuthority`) |
| `zone_tier` | `sim`: 4 small worlds of 5 ticks; `lifecycle`: 2 sockets, 2 leases, 3 edits, each gate; `intake`: 2 connections, 2 intents, 3 ticks; `wire`: every small frame, 2 words altered | 3.06 M | casts and deaths are accounted for (`CombatAccounted`), rounding freezes no chase, nothing crosses and two actors part (`MotionKeepsItsOrder`), every step can be encoded (`FramesEncode`); admission under one binding (`AdmittedUnderOneBinding`), one lifetime per gate (`OneLifetime`), one shutdown told (`SidecarToldOnce`); an intent drives a bounded run and nothing after its connection (`InputAccounted`); a message has one encoding (`CanonicalFrames`) |
| `platform` | player stores of each kind, friends, 3 sign-ins on two replicas with one call adrift, peers, rows created once, lease documents of three builds, the publisher, the runtime module with 1 RPC, 1 claim, 2 sweeps and every combination of settings | 3.76 M | mastery points are neither minted nor lost and answers agree with the audit (`PointsConserved`, `AnswersMatchAudit`); friends are friends by consent and a block stays hidden (`FriendsGated`); an identity stays bound to one account and sign-ins that were given tokens on one replica do not end each other's session (`SignInsAgree`); a reservation is dispatched under one observed generation and refused only while nothing was written (`DispatchJustified`); whoever is told a row is theirs is told of the same row (`RowsCreatedOnce`); a build leaves later documents intact (`RowsSurviveUpgrade`); a revoked leaf signs nothing accepted and what was published stays (`TrustHolds`); the runtime module closes what it opened, after its users (`ConnectionsAccounted`) |
| `handoff_retry` | 2 calls, 1 fault | violation | finding 1: `HandedAllocationRetained` |
| `handoff_duplicates` | 2 calls, duplicates | violation | finding 2: `HandedObjectKept` |
| `replication_race` | as `replication` | violation | finding 3: `NeverRefused` |
| `signins_in_turn` | the sign-ins of `platform` | violation | finding 4: `SignInsInTurn` |

Deadlock checking is off in every run: calls return, a hub shuts down, the world stops at its last
tick, a command exits, so each system really stops.

*Bounds.* `MaxFaults` counts failed steps; `MaxTick` the ticks of a world; `MaxEdits` the changes of
an allocation, `MaxPending` the claims under way; `HoldTicks`, `FrameBudget` and `MaxFrames` are
`MovementIntake`'s hold, budget and sent frames; `MaxAlterations` the words changed in a frame;
`MaxTries`, `MaxPolls`, `Budget` and `MaxPages` are retries and pages; `MaxVersion` the changes of
the cluster; `MaxGrants`, `MaxTouches`, `MaxRestores` the grants, the controller's changes and the
restored backups; `MaxWrites` the writes of one row; `MaxAdrift` the given-up sign-in calls that are on
their way to Nakama at once. The code has no such bound except the hold, the
budget, the polls, the pages and the grants, whose values are larger there; each is small enough to
be used up in the instance, and what happens at it is part of the run. Distances in `MCZoneTier` are
a few units and `CosScale` is 100, so that walls, cells, corners and truncation all bite.

*Symmetry* is used for calls, objects, sweeps, sessions, reapers, sockets, connections, recoverers
and sign-ins of one replica, where no property is temporal beyond one step and every call draws an
attempt of its own (`MCFresh` maps each call to itself, and permuting calls permutes attempts with
them). The runs under fairness use none; they state a leads-to for one of several identical
processes (`c1`, `s1`, `k1`), since what holds of it holds of each.

*Mutants.* Every property of a passing run is paired in `PROJECT.json` with at least one variant of
a modelled definition, written next to it and marked "Mutant of", that a plausible bug in the code
would give: a sweep that reclaims a claimed lease, a cleanup that trusts the object's name, a detach
that does not compare connections, a binding compared without its revision, a recast before the
resolution, a token taken before its slot is filled. Substituting it makes TLC report the property
violated; a property that joins several parts has one per part.

### Fairness

* `MCLiveness`: a call's goroutine and the loops of a sweep and a reaper keep running and the clock
  advances. Storage and API calls have deadlines, so a call in progress ends. Nothing is assumed of
  the allocator, the players or the sessions.
* `MCShutdowns`, hub: an admitted handler ends (a claim is bounded by its timeout), the simulation
  ticks until shutdown, the drain runs, and a goroutine sees the end of its socket. Only the
  writer's pings notice a silent peer, and a close handshake is not assumed to end unless the socket
  is closed under it. Each request runs once, so one fairness condition on all of these is fairness
  of each.
* `MCShutdowns`, module: handlers return, since their contexts are bounded, the hook's goroutines go
  on, sweeps begin and end. A worker whose context has ended and whose ticker fires has both cases
  of its select ready; Go picks among ready cases at random, hence strong fairness of `Stop`.
* `ReplicationStream`: the simulation ticks and the writer writes. A peer that does not read ends its
  connection by the write deadline, which is `ZoneHub`'s concern.

### Findings

1. `handoffalloc/coordinator.go:320`. When `Finalize` fails, `Allocate` checks once for a winner
   and otherwise cleans the attempt up. A retry that adopted the same dispatch can publish and
   return it between the check and `reconcileAttempt`'s load, and loses its object. The `Allocator`
   contract (`handoff/service.go:43`) forbids it. It takes a failed step: `RetainedUntilFault`
   holds in the run `handoff`, and is proved.
2. `agonesresources/adapter.go:515`. `releaseDuplicates` deletes every object it once listed without
   rereading the lease; one of them may have been published and returned since.
3. `zonesock/hub.go:276`. `send` empties the queue one receive at a time while `writeLoop` receives
   from the same channel. A delta taken in the middle has lost its predecessors, the client refuses
   it and fails the connection for good.
4. `nakamaauth/provisioner.go:372`. The gate of first sign-ins is released whenever the request returns,
   also when its `AuthenticateEmail` was cancelled or went unanswered. Nakama may perform that call
   afterwards; its session then ends that of the next sign-in on the replica between its authentication
   and its verification, which waits for a binding nobody writes and fails. The comment on the gate
   (`provisioner.go:365`) promises that one "first sign-in can authenticate, verify, and publish the
   durable winner before another issues a token", and the one on the wait (418) thinks of other replicas
   only. Between sign-ins that were both given tokens the promise holds, and is proved
   (`EndedElsewhere` in `SignInsAgree`); the account that is answered is not affected.

Much depends on who draws attempt IDs. The service draws a random one per call (`FreshAttempts`).
Calls that shared one could tear down and hand out again under it, which would break
`RetainedUntilFault` and `OneAnswerPerAttempt`, and, with a sweep or a fault beside them,
`DispatchBarrier` and `OneObjectPerAttempt`; the `shared` setting of `liveness` therefore claims only
that such calls return, and are given one object when neither is there.

Two things the models show without contradicting any text: the shipped zone loop never drains the
hit log, so once it is full every further telegraph is counted as dropped (`ZoneSim` lets the owner
drain, or not); and the receipt and custody gates are complete but not wired into `cmd/zone`.

## What is proved

TLAPS checks the following for every value of the constants: any number of calls, sweeps, sessions,
reapers, objects, attempts and faults; of sockets, leases and edits; of connections and observers; any
tables, queue and ticks; any number of servers, grants and recoverers; of sign-ins, replicas, identities
and accounts; of players and friends; of creators and handles; of Pods and pages; of processes and
documents; of files, lists and commands; of RPCs, claims and sweeps; of mastery events and weapons.

| theorem | says | rests on |
| --- | --- | --- |
| `HandoffTypeOK` | `Handoff!Spec => []TypeOK`, which includes that every stored or held lease is what `normalizeLease` accepts, and that each process at each place has the lease and the object its next step works with | lemmas on the records and the store's operations, one lemma per action (`HandoffProofs`) |
| `RequestsUnderOwnDispatch` | `[]DispatchBarrier`: a request leaves only under its call's own durable, unfenced dispatch, whatever the allocator does | `DispatchInv` |
| `QuarantineHolds` | `QuarantineKept`: a dispatch is given up only with a known outcome, if no request lands late | `DispatchInv` and one step of each process |
| `AnswersAgree` | `[]OneAnswerPerAttempt`: every call that answers for an attempt names the same object, whatever copies and late landings there are | `AnswerInv` |
| `SingleObject` | an attempt has one object, unless the allocator makes copies | `DiscardInv` |
| `LeasedObjectsKept` | `LeasedObjectKept`: nothing deletes the object of a stored, unfenced lease, late landings included | `DiscardInv` |
| `AdmittedSessionsKept` | `[]AdmittedSessionKept`: an admitted session keeps its claimed lease and its object until its own end is proved | `DiscardInv`, `ServedAlone` |
| `HandedAllocationsKept` | `RetainedUntilFault`: until a step fails, only a claim changes a live lease that was handed out | `SpareInv` |
| `RecordHolds` | every object is on record, and whoever is about to forget or replace a lease has none of its objects left | `RecordInv` |
| `LifecycleImplemented` | `Handoff!Spec => ImplementsLifecycle`: every step of the interleaving is a step of `LeaseLifecycle` or a stutter | all of these but `AnswerInv` and `SpareInv` |
| `LifecycleSafe` | the abstract lifecycle keeps objects on record, acquires one per attempt, and deletes a published object only under its fence | the conjunction is inductive with the types |
| `AttachmentsHold` | `[]AttachmentsAgree`: whoever holds an observer, or waits for one, can let it go, and the world and the metrics count who is attached | `HubInv` |
| `DrainIsQuiet` | `[]DrainedIsQuiet`: a reported drain means that every handler and every goroutine of a socket has returned | `HubInv` |
| `LiveConnectionHolds` | `LiveConnectionKept`: only a connection's own end or the shutdown takes its observer from it | `HubInv` |
| `DeltaApplies`, `DeltaFolds`, `LegacyDeltaFolds` | for any two tables the client accepts the tracker's delta and lands on the second; the same of a peer without casts | function extensionality |
| `QueueLeadsToTracker` | `[]QueueReachesTracker`: except in the middle of an overflow, the queued frames take the client to the tracker's table | `StreamInv` |
| `AcksNeverRefused` | `[]AcksAccepted`: an acknowledgement neither precedes the join nor goes back in time | `StreamInv` |
| `SidecarHearsOnce` | whichever step of the zone process fails, the sidecar it reached hears of it once (`SidecarToldOnce`) | `ToldInv` in `ZoneTierProofs` |
| `AdmissionNeedsOneBinding` | nobody is admitted across a change of the allocation's binding, for each gate (`AdmittedUnderOneBinding`) | `BindingInv` |
| `CustodyPrecedesUse`, `GateServesOneLifetime` | custody holds what is exposed or admitted under; with that, a receipt gate serves one lifetime (`OneLifetime`) | `HolderInv`, `CustodyInv` |
| `ReportsAreFinal` | what a fence, a recovery or a verified publication reports is what the generation's grants have allocated, for good, rolled-back rows and recoverers without a witness included (`ReportedIsFinal`) | `GenInv`, `FenceInv` in `GenerationFenceProofs` |
| `RecoveredOnce` | one process recovers a generation (`OneRecovery`) | `WitnessInv`, `TakeoverInv` |
| `AuthorityImplemented` | `GenerationFence!Spec => ImplementsAuthority`: the whole generation refines the fence reference | all of these and `IdleInv` |
| `InputIsAccounted` | `[]InputAccounted`: an intent drives a bounded run of steps and none after a newer one, the input of an ended connection drives nothing from the next tick on, and a waiting acknowledgement has a writer that will be told | `IntakeInv` in `ZoneTierProofs` |
| `CombatIsAccounted` | `[]CombatAccounted`: every painted telegraph resolves once and is logged, landed or counted as dropped, a mob has one in flight exactly while one is painted, and an actor is told dead once, exactly when its health is gone | `SimInv` in `ZoneTierProofs` |
| `PointsAreConserved` | `[]PointsConserved`: every mastery point awarded is banked, on a weapon, in the stain, or was lost | `IInv` in `PlatformProofs` and sums over the weapons |
| `AnswersAreAudited` | `AnswersMatchAudit`: what a call is answered is what the audit under its key says, and an unreadable record stays as it is | `IInv` |
| `SignInsAreOfOneAccount` | `SignInsAgree`: an answered sign-in names the account its identity stays bound to; first sign-ins that were given tokens on one replica do not end each other's session, whatever calls are given up and performed later | `SignInv` |
| `DispatchIsJustified` | `DispatchJustified`: what discovery observed was true of one moment, only the actor under the pinned generation is asked, and what is refused was never written | `PeerInv` |
| `RowsAreCreatedOnce` | `RowsCreatedOnce`: who is told that a generation is open, or that a lifetime is theirs, is told of the one row | `CreationInv`, `CustodyInv` |
| `FriendsStayGated` | `FriendsGated`: friends are friends by the consent of both, and a block is heard of by who made it | `FriendInv` |
| `RowsSurvive` | `RowsSurviveUpgrade`: no process touches a row that a later build expanded, and what one writes it reads back | `DocumentInv` |
| `TrustStands` | `TrustHolds`: a leaf that a list under the head's floor revokes signs nothing accepted, and what was published stays | `TrustInv` |
| `ConnectionsHold` | `[]ConnectionsAccounted`: no connection is closed under its users, and an initialization that fails keeps nothing | `ModuleInv` |

The two `LifecycleTypeOK` are the types of `LeaseLifecycle` and of the zone process.

### Assumptions and hypotheses

Assumptions on constants stand with the constants, and TLC evaluates each in the runs: `NoneIsFresh`,
`NoneIsNoLease`, `NoneIsNoConn` (None is told apart), `MaxFaultsIsNat`, `AnomaliesAreKnown`,
`AttemptOfIsAFunction`, `ObserverOfIsAFunction`, `SendQueueIsPositive`, `MaxTickIsPositive`. `Sane` in
the zone process and in the generation says the same of their constants. Those of `PlayerState`,
`Platform` and `ZoneTier` say more of what the code takes in:

* `WeaponsAreFinite`, `BankIsPositive`, `StainsFit`: the weapons are a finite set, a bank is worth a
  positive number of points, and what a death can take of all weapons together is an exact integer;
  `EventsAreSealed`: an event is an award to a weapon, a death with a percentage or a reclaim, as
  `nakamamastery/event.go` seals it before anything is read.
* `FoundsAreRows`: the storage has one row under a key, also of what is there from the beginning.
* `PodsAreRanked`: the API server lists Pods in an order, and the actor is one of its generation.
* `SignInsAreFinite`: the sign-ins under way are finitely many; their gate counts them. An account
  Nakama creates is an account, and a session is told from none.
* `SessionsAreWhole`: a publisher's commands name files of their session and its documents have the
  members of their kind; `ListsAreCumulative`: a newer revocation list of a root revokes what an older
  one did. What a root puts on a list is decided outside the publisher;
  `docs/design/distribution-and-self-update.md:220` speaks of "a monotonically versioned revoked-key
  list". Without it a list that forgets a key gives the revoked leaf back.
* `IntentsAreNumbered`: the wire refuses an intent numbered zero (`wire/movement.go:34`), so zero is free
  to mean that none is held.
* `ZonesAreSound`: a zone has finitely many actors under integer identities, its mobs are among them, and
  their sizes, speeds and pools are integers of any sign and size, which `Add` and `AddMob` clamp; the
  largest pool is at least one (`maxHealth`, `sim/world.go:76`) and a second has ticks.

Hypotheses are stated with the theorem. Those on the handoff but `HandoffTypeOK` need `FreshAttempts`
(`secureAttemptID` draws 128 bits per call; see *Findings* for what shared ones would do). No copy is made by
the allocator in whatever rests on `DiscardInv`: finding 2 shows that `releaseDuplicates` deletes a live
object otherwise. `QuarantineHolds` needs that no refused request lands late, and `RecordHolds` and
`LifecycleImplemented` need both, since an object that lands after its attempt was forgotten is on no
record (the orphan reaper is there for it, see `OrphansReclaimed`). `AdmittedSessionsKept` holds of
several sessions as long as a claimed lease serves one at a time (`ServedAlone`): the claim RPC answers
a repeated redemption of one token with the same lease, and it is the zone's own gate that admits
once. With one session, as in the run `handoff`, this holds by itself; with two on one lease, the end
of one would take the lease of the other.

### The arguments

**The handoff.** `DispatchBarrier` is not inductive. A call could find itself at the request with its
dispatch released if another process could know its attempt, so `DispatchInv` says that nobody can
before the request is sent: no object carries the attempt, no allocator holds it, no other call works
for it; the lease in hand is that of the attempt worked for; an object in hand carries that attempt;
and a call at the end of a cleanup meets its attempt fenced or gone, since nobody stages it twice. The
proof splits `Next` into the steps of the call itself (one lemma per action), the steps of another
call, and those of sweeps, reapers, sessions and the environment, for which one lemma says what such a
step may do to the lease (`AsideFrame`).

The other invariants are each about a kind of attempt that no step takes back, so that what a process
concluded from an old read is still true when it acts on it:

* `DiscardInv`: an attempt is *over* when nobody will stage it and it is fenced if it is stored.
  Whatever a call, a sweep, a reaper or a session still has to delete belongs to one that is over; a
  published lease names a present object; an attempt has one object and none while its request is out.
* `RecordInv`: every object is one of the stored attempt. A call about to forget a lease, or to
  replace it, has seen that no object is left, and none can land, because no request for it is out.
* `AnswerInv`: an attempt is *settled* with an object when nobody will stage it and it is published with
  that object if it is stored. What was handed out, or may be handed out next, is settled; a second
  publication meets `SameAllocationOwner`, so two answers agree although two objects may exist.
* `SpareInv`: an attempt is *spent* when nobody will stage it and it is fenced, claimed or expired if it
  is stored. As long as no step has failed, calls clean up and take over spent attempts only: a call
  whose `Finalize` or fence was rejected finds the attempt published or fenced. One failed write
  breaks exactly this, which is finding 1.

For the refinement, `LifecycleImplemented` takes each action to the action of `LeaseLifecycle` it
stands for. A deletion maps to one of an object that is over (`DiscardInv`), a removal to one of an
attempt without objects (`RecordInv`), an acquisition to one for a dispatched lease. TLC
confirms all five inductive invariants on the constants of the run `handoff`.

**The hub.** A waiting group is a counter, so `CountInv` ties it to the set of handlers and workers
under way. What the simulation goroutine will run is one queue, what it took followed by what is
pending; a connection's release is never in front of its own attachment (`Ordered`), a connection
that holds an observer or waits for one is either free to end or has its release queued
(`Releasable`), and nothing of a connection exists before its socket is registered (`Unregistered`).
With these a replacement can release the previous holder without taking the next one's place, and
`Shutdown`, which empties both, leaves nothing attached.

**The stream.** `QueueReachesTracker` speaks of what the client makes of the frames still queued,
which is a recursive function of their sequence (`Reach`). Lemmas say what an appended frame adds and
what a removed first frame leaves. `StreamInv` adds the order of ticks (`FramesInv`), that the client has
a base once it was sent a snapshot (`ReachInv`), and that acknowledgements follow the join (`AckInv`);
an overflow suspends it until the resync frame is queued, and finding 3 is what a writer that
receives in between makes of that.

**The zone process.** That a binding changed is history (`broken`), while the gate compares numbers:
the inductive invariant ties them, saying that a broken admission still in flight holds a smaller
revision than the binding's unless the binding is closed or the process is stopping (`BindingInv`). The
gate's last check looks at exactly these, so the same locator that went and came back cannot pass. For
the receipt gate the invariant says who holds the gate between the question and the answer
(`HolderInv`), and that a custodied gate stays uncertain from its first question until its receipt is
stored (`CustodyInv`), which is why a lost answer closes it.

**The generation.** `ReportedIsFinal` is not inductive: a commit that was sent before the fence may
arrive after it. Its commit is conditional on the version that was frozen with the grant, so `GenInv`
keeps the frozen version behind every server that was committed or barred, and every registered grant
issued once the row is drained; `FenceInv` says of each barred server that the judged outcome can no
longer change, and that a fence's observation covers every grant of the drained row when it ends. Steps
are split by the part of the state they move (`Kept` says what no step takes back), so that the
fence's part is proved once for all steps that leave the fences alone. `OneRecovery` needs the witness:
a restored backup removes the owner row, and what keeps a second recoverer out is the fourth pin of the
record outside (`WitnessInv`: a record pins final facts only, and the owner's pin of an acknowledged
write is in the table or was followed there; `TakeoverInv`: who proceeds holds that pin or, with no
witness and nothing restored, the owner row). A recoverer without a witness fences on the strength of
its acknowledged writes alone, whatever became of the rows since; its reports stay final because
`FenceInv` speaks of the grants and the servers it barred, never of those rows. For the refinement `IdleInv` says that neither the owner
nor a recoverer has begun to fence before its turn, so nothing is accepted before every registered
grant is barred; then each action of `Next` is one step of `FenceAuthority` or leaves its state alone.

**The movement input.** A connection attaches once, because its release is never in front of its
attachment in the queue (`Sound`, `QueueSound`) and nothing of it exists before (`Untouched`). So what it
has driven was driven in one piece: `RunsOn` says that the steps driven by the held intent are the last
ones, and that the distance to the first of them and what remains of the hold add up to less than the
hold, which is what makes a run bounded. Sequences rise from the mailbox to the step (`NumbersRise`), so
an older intent cannot come back. `BarredOut` follows a release through the queue: whoever is released
before a tick begins is either not the holder or has its detachment in the batch of that tick, in
front of the step.

**The combat.** Where everyone is does not matter to it, so no step of the proof looks at the geometry: a
mark may catch anybody. `PaintInv` says that the casts are of different mobs, and that the mobs in flight
are exactly their casters; a step splits the casts by their places into those that are due and the others
(`CastsSplit`), and who paints is either idle or resolved in this very step, so never the caster of one
that stays (`NewCasts`). What is due is logged as far as the log has room and counted otherwise
(`LogKeeps`), hence the sum of `CountInv`. The owner's drain is a fold of folds, over the log and over whom
each hit catches. `Scores` is the set of all healths and deaths that agree, one blow stays in it
(`HurtStays`), and so does a fold of blows (`FoldStays`).

**The player stores.** A write is conditional on the version it was computed from, so `EvidenceInv` says
of each call that its next record is a transition of the record at that version, or that the version
is old and the write will be refused. An answer is computed from the audit that is committed with the
record. That an award, a death and a reclaim keep the total is a statement on sums over the weapons,
which the model writes as a fold; the lemmas on totals say what a fold is when one weapon changes, when
all are moved to the stain and when two functions are added.

**The platform.** A behaviour of `Platform` is of one part, so each theorem has the part's own inductive
invariant.

* Sign-ins (`SignInv`): the counter of a gate's entry is the number of its live requests, its token has
  one holder, the entry is removed with the last of them, and a new entry is one that nobody uses
  (`Gates`, `Owned`); a binding is written once and an account belongs to one identity (`Bindings`). So a
  request that holds the gate meets either no binding or the one everybody is answered from. Calls adrift
  are of identities that were verified (`CallsKnown`), so one that lands late writes only where no binding
  is, and creates an account only where none is. What it may do is issue a session; that session is nobody's
  (`Stray`), which is why `EndedElsewhere` speaks of tokens that were given.
* Peers (`PeerInv`): all pages of a list are of the version its first page gave, so what was found holds
  of the cluster at that version, whatever happens in between; a moved generation ends the observation.
* Created once (`CreationInv`, `CustodyInv`): a row does not change once it is there, hence what one write
  found out stays true although others land later.
* Friends (`FriendInv`): an edge of Nakama is only what the wishes of the two have made it, so an
  accepted pair has two of them.
* Lease documents (`DocumentInv`): a version is given once, so whoever passed a check at a version and
  writes at it writes over the document it checked.
* Publisher (`TrustInv`): nothing signs a list that the session did not begin with, a file's signature
  is of who held the key, and an occupied path is not written.
* Runtime module (`ModuleInv`): what initialization has acquired is determined by where it is, a user of
  the connections holds the gate, and the gate is closed and drained before they are.

**Induction.** The library's induction theorems take an operator as a parameter, which the provers
cannot instantiate. For the recursive function of the stream, `ReplicationStreamProofs` derives what it
needs from the well-foundedness of finite subsets: a set of naturals that is not empty has a least
member (`LeastNatural`), hence a set of naturals that holds 0 and each successor up to a bound holds
them all (`Induction`), hence the function exists and is unique (`RunExists`, `RunUnique`). The folds
behind the sums of `PlayerState` go the same way over the subsets of the weapons (`LeastSubset`,
`SumsAt`), and the folds over the lists of the simulation over the sets of their places
(`PartialsExist`, `FoldInduction`).

Only model-checked:

* `OneObjectPerAttempt` of calls that share an attempt ID. `SingleObject` proves it of calls with fresh
  ones; with a shared one it holds only as long as nothing else is there, which is no invariant of the
  protocol and stays a check of that instance.
* `MotionKeepsItsOrder` and `FramesEncode` of the simulation: nonlinear arithmetic
  with truncated divisions and roots, folded over passes and pairs.
* `CanonicalFrames`: what a recursive encoding does for every list.
* Everything under fairness, since liveness and ENABLED are outside the prover's reach.

No module uses RECURSIVE operators.

## What is not modelled

* JSON as text, pagination of the lease scan (a scan is one read), the claim index beside the key.
* Tokens, mTLS handshakes, certificates' encoding and endpoint material.
* `ZoneHub`: several observers (connections of different observers share only the counters) and a
  repeated `Shutdown`.
* `ReplicationStream`: the observer's own identity and the capacity checks of the client, which no
  table of the server reaches; an acknowledgement is its tick.
* `ZoneLifecycle`: the unsealed local mode of `agones.Start`, flag parsing, and the scripted scenario
  of the demonstration zone.
* `ZoneSim`: heights, which no rule reads, a view radius that changes, and overflow of 64 bits, which
  the clamps on what enters exclude.
* `Provisioning`: what a bound account may do after its session was checked.
* The client's connection states and prediction, its save vault, file lock and boot recovery; its
  presentation; probes, fixtures, tooling and CI. `PROJECT.json` gives the reason per component.

## Plan

1. `SaveVault`, `FileLock`, `BootRecovery`: crashes between the client's file operations.
2. `zone_movement.gd`'s pending inputs and `predicted_movement.gd`'s replay, composed with
   `MovementIntake` through `ReplicationStream`'s acknowledgements.
3. `ZoneLifecycle` composed with `ZoneHub`'s admission and `ZoneSession`'s claim.
4. Proofs: the round trip of a frame's fields, which is the part of `CanonicalFrames` that needs no
   induction, and what of `FramesEncode` is not geometry: the order and the membership of its lists.

Runs stay few: a new question is added to the run whose instance already contains it before it gets
an instance of its own.
