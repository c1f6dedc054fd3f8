------------------------- MODULE ReplicationStream --------------------------
(***************************************************************************)
(* One zone connection's frames: the simulation goroutine pumps deltas and *)
(* acknowledgements (server/zonesock/hub.go, movement.go), the writer      *)
(* goroutine sends them, and the client folds them in the order of the     *)
(* transport (client/scripts/zone_connection.gd).                          *)
(*                                                                         *)
(* Nothing flows back, so a frame is folded when the writer takes it.  The *)
(* end of a connection ends its stream (ZoneHub has its teardown).         *)
(***************************************************************************)
EXTENDS ReplicaStore, Integers, Sequences

CONSTANTS SendQueue,  \* Config.SendQueue: the capacity of c.out
          MaxTick     \* bound on World.Tick

ASSUME SendQueueIsPositive == SendQueue \in Nat \ {0}
ASSUME MaxTickIsPositive == MaxTick \in Nat \ {0}

VARIABLES version,  \* conn.version, negotiated for the life of the connection
          tick,     \* World.Tick
          world,    \* what World.Snapshot returns for the observer
          tracker,  \* the table of c.tracker
          sim,      \* where the simulation goroutine is
          out,      \* c.out
          ack,      \* c.ack: the tick acknowledged, 0 when taken
          ackReady, \* c.ackReady holds its token
          writer,   \* where the writer goroutine is
          joined,   \* writeLoop's joined
          client    \* the client: its store and its movement state

simVars    == <<version, tick, world, tracker, sim>>
writerVars == <<writer, joined, client>>
vars == <<simVars, out, ack, ackReady, writerVars>>

\* A legacy peer gets no casts, a movement peer its acknowledgements.
Versions == {"legacy", "casts", "movement"}
Legacy == version = "legacy"
Movement == version = "movement"

SnapshotFrame == [kind |-> "snapshot", tick |-> tick, table |-> ProjectTable(world, Legacy)]
DeltaFrame(d) == [kind |-> "delta", tick |-> tick, delta |-> d]

\* tick is 0 until there is a base.
NewClient == [tick |-> 0, table |-> Empty, own |-> 0, refused |-> "none"]

Init ==
  /\ version \in Versions
  /\ tick = 1 /\ world \in Tables /\ tracker = Empty
  /\ sim = "attach" /\ out = <<>> /\ ack = 0 /\ ackReady = FALSE
  /\ writer = "select" /\ joined = FALSE
  /\ client = NewClient

-----------------------------------------------------------------------------
\* The client.  A refusal is terminal: _fail_stream closes the transport.
Refuse(c, why) == [c EXCEPT !.refused = why]

\* ReplicaStore.apply, of the next frame of the transport.
Folded(c, frame) ==
  IF c.refused # "none" THEN c
  ELSE IF frame.tick <= c.tick THEN Refuse(c, "tick")
  ELSE CASE frame.kind = "snapshot" ->
              [c EXCEPT !.tick = frame.tick, !.table = frame.table]
         [] frame.kind = "delta" ->
              IF c.tick # 0 /\ Applies(frame.delta, c.table)
              THEN [c EXCEPT !.tick = frame.tick, !.table = Fold(c.table, frame.delta)]
              ELSE Refuse(c, "fold")

\* ZoneMovement.acknowledge, behind the join. The applied input sequence is left out:
\* an acknowledgement is its tick.
Acknowledged(c, at) ==
  IF c.refused # "none" THEN c
  ELSE IF c.tick = 0 \/ at < c.own THEN Refuse(c, "ack")
  ELSE [c EXCEPT !.own = at]

-----------------------------------------------------------------------------
\* The simulation goroutine.
Step ==
  /\ sim = "step" /\ tick < MaxTick
  /\ tick' = tick + 1
  /\ world' \in Tables
  /\ sim' = "pump"
  /\ UNCHANGED <<version, tracker, out, ack, ackReady, writerVars>>

\* Hub.attach, from Tick or from BeforeStep: the queue is new, the join snapshot
\* fits.
Attach ==
  /\ sim = "attach"
  /\ tracker' = world
  /\ out' = Append(out, SnapshotFrame)
  /\ sim' \in {"pump"} \cup (IF Movement THEN {"step"} ELSE {})
  /\ UNCHANGED <<version, tick, world, ack, ackReady, writerVars>>

\* Hub.pump and the first select of send: the delta of the tick, unless empty.
Pump ==
  /\ sim = "pump"
  /\ tracker' = world
  /\ LET d == ProjectDelta(Delta(tracker, world), Legacy)
     IN  \/ IsEmpty(d) /\ sim' = "ack" /\ UNCHANGED out
         \/ /\ ~IsEmpty(d) /\ Len(out) < SendQueue
            /\ out' = Append(out, DeltaFrame(d))
            /\ sim' = "ack"
         \/ /\ ~IsEmpty(d) /\ Len(out) = SendQueue
            /\ sim' = "drain"
            /\ UNCHANGED out
  /\ UNCHANGED <<version, tick, world, ack, ackReady, writerVars>>

\* Mutant of Drain: the tick ends without the snapshot.
DrainOnly ==
  /\ sim = "drain"
  /\ \/ out # <<>> /\ out' = Tail(out) /\ UNCHANGED sim
     \/ out = <<>> /\ sim' = "ack" /\ UNCHANGED out
  /\ UNCHANGED <<version, tick, world, tracker, ack, ackReady, writerVars>>

\* One turn of send's drain loop; the writer may take a frame between two turns.
Drain ==
  /\ sim = "drain"
  /\ \/ out # <<>> /\ out' = Tail(out) /\ UNCHANGED sim
     \/ out = <<>> /\ sim' = "resync" /\ UNCHANGED out
  /\ UNCHANGED <<version, tick, world, tracker, ack, ackReady, writerVars>>

\* The snapshot that replaces what was drained.
Resync ==
  /\ sim = "resync"
  /\ tracker' = world
  /\ out' = IF Len(out) < SendQueue THEN Append(out, SnapshotFrame) ELSE out
  /\ sim' = "ack"
  /\ UNCHANGED <<version, tick, world, ack, ackReady, writerVars>>

\* Hub.ackMovement: the slot keeps the latest acknowledgement.
AckMovement ==
  /\ sim = "ack"
  /\ IF Movement THEN ack' = tick /\ ackReady' = TRUE ELSE UNCHANGED <<ack, ackReady>>
  /\ sim' = "step"
  /\ UNCHANGED <<version, tick, world, tracker, out, writerVars>>

SimStep == Step \/ Attach \/ Pump \/ Drain \/ Resync \/ AckMovement

-----------------------------------------------------------------------------
\* conn.writeLoop.
WriteFrame ==
  /\ writer = "select"
  /\ out # <<>>
  /\ out' = Tail(out)
  /\ client' = Folded(client, Head(out))
  /\ joined' = TRUE
  /\ UNCHANGED <<simVars, ack, ackReady, writer>>

\* Mutant of AckSelected: an acknowledgement need not wait for the join.
AckUngated ==
  /\ writer = "select"
  /\ ackReady
  /\ ackReady' = FALSE
  /\ writer' = "ack"
  /\ UNCHANGED <<simVars, out, ack, joined, client>>

\* The ackReady case, disarmed until a frame was written.
AckSelected ==
  /\ writer = "select"
  /\ joined /\ ackReady
  /\ ackReady' = FALSE
  /\ writer' = "ack"
  /\ UNCHANGED <<simVars, out, ack, joined, client>>

\* takeAck and the write; a slot emptied since is skipped.
WriteAck ==
  /\ writer = "ack"
  /\ client' = IF ack = 0 THEN client ELSE Acknowledged(client, ack)
  /\ ack' = 0
  /\ writer' = "select"
  /\ UNCHANGED <<simVars, out, ackReady, joined>>

WriterStep == WriteFrame \/ AckSelected \/ WriteAck

Next == SimStep \/ WriterStep

Spec == Init /\ [][Next]_vars

\* The simulation ticks and the writer's peer reads until the stream ends.
FairSpec == Spec /\ WF_vars(SimStep) /\ WF_vars(WriterStep)

-----------------------------------------------------------------------------
\* A delta names entities of this observer.
PartialMaps(values) == UNION {[present -> values] : present \in SUBSET Ids}
Deltas == [entered : PartialMaps(States), moved : PartialMaps(States), left : SUBSET Ids,
           started : PartialMaps(Casts), ended : SUBSET Ids]
Frames == [kind : {"snapshot"}, tick : 1 .. MaxTick, table : Tables]
            \cup [kind : {"delta"}, tick : 1 .. MaxTick, delta : Deltas]
Clients == [tick : 0 .. MaxTick, table : Tables, own : 0 .. MaxTick,
            refused : {"none", "tick", "fold", "ack"}]

TypeOK ==
  /\ version \in Versions
  /\ tick \in 1 .. MaxTick /\ world \in Tables /\ tracker \in Tables
  /\ sim \in {"attach", "step", "pump", "drain", "resync", "ack"}
  /\ out \in Seq(Frames) /\ Len(out) <= SendQueue
  /\ ack \in 0 .. MaxTick /\ ackReady \in BOOLEAN
  /\ writer \in {"select", "ack"} /\ joined \in BOOLEAN
  /\ client \in Clients

\* What client c is after each of the frames.
Reach(c, frames) ==
  LET reach[n \in 0 .. Len(frames)] ==
        IF n = 0 THEN c ELSE Folded(reach[n - 1], frames[n])
  IN  reach

\* Outside an overflow the queue takes the client to exactly what the tracker
\* takes it to hold: the next delta is relative to what the client will have.
QueueReachesTracker ==
  /\ TypeOK
  /\ sim \notin {"attach", "drain", "resync"} /\ client.refused = "none" =>
       LET last == Reach(client, out)[Len(out)]
       IN  last.refused = "none" /\ last.table = ProjectTable(tracker, Legacy)

\* An acknowledgement of the client's own position is never refused: it neither
\* precedes the join nor goes back in time.
AcksAccepted == client.refused # "ack"

\* When the world comes to rest, the replica reaches it and the client knows its
\* own position of the last tick, whatever was dropped on the way.
ReplicaConverges ==
  <>[](\/ client.refused # "none"
       \/ /\ client.table = ProjectTable(world, Legacy)
          /\ Movement => client.own = MaxTick)

\* Every delta is relative to the previous applied frame, so the client refuses
\* none (replica_store.gd).
NeverRefused == client.refused = "none"
=============================================================================
