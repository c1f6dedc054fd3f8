--------------------------- MODULE MovementIntake ---------------------------
(***************************************************************************)
(* Movement input of one observer (server/zonesock): the reader goroutines *)
(* of its connections offer intents to a mailbox each, the simulation      *)
(* goroutine takes one a tick, lets it coast, and leaves an acknowledgement*)
(* of the step for the writer in a slot of its own.                        *)
(*                                                                         *)
(* ZoneHub has the life of a connection; here its end is that some         *)
(* goroutine clears inputActive and then, once, queues the release.  All   *)
(* connections negotiated the movement version.  A protocol violation is   *)
(* one of the ends.                                                        *)
(***************************************************************************)
EXTENDS Integers, FiniteSets, Sequences

CONSTANTS Conns,         \* connections of the observer, one after the other or at once
          Intents,       \* Intents[s]: the direction, in thousandths, and sprint of sequence s
          Cap,           \* the actor's maximum speed
          HoldTicks,     \* MovementHoldTicks: steps an intent drives
          FrameBudget,   \* maxInputFramesPerTick
          MaxFrames,     \* bound of the model on frames received
          MaxTick,       \* bound of the model on steps
          None

VARIABLES phase,                      \* of the simulation goroutine
          tick,
          pending, batch,             \* Hub.pending, and what runPending took of it
          holder,                     \* Hub.conns at the observer
          driver,                     \* the intent the world has: none, or whose and which
          frame,                      \* frame[c]: the intent the reader is handling, or 0
          sent,                       \* frames the readers have had
          active,                     \* conn.inputActive
          received, frames, latest,   \* under conn.inputMu
          held, remaining,            \* conn.held (its sequence) and conn.remaining
          nextSequence, applyTick, appliedSequence,
          ack, ackReady,              \* the slot, and the token that it is full
          writer, joined,             \* the writer goroutine, and its first frame
          end,                        \* how far a connection's end has come
          barred,                     \* released before the tick under way began (history)
          driven                      \* driven[t]: what drove step t (history)

simVars  == <<phase, tick, pending, batch, holder, driver>>
boxVars  == <<received, frames, latest>>
stepVars == <<held, remaining, nextSequence, applyTick, appliedSequence>>
ackVars  == <<ack, ackReady, writer, joined>>
vars == <<simVars, frame, sent, active, boxVars, stepVars, ackVars, end, barred, driven>>

Sequences == DOMAIN Intents
Attached  == IF holder = None THEN {} ELSE {holder}

\* Go's division of integers truncates towards zero.
Quo(n, d) == IF n >= 0 THEN n \div d ELSE -((-n) \div d)
Velocity(i, most) ==
  LET cap == IF i.sprint THEN most ELSE most \div 2
  IN  IF most <= 0 THEN <<0, 0>> ELSE <<Quo(i.x * cap, 1000), Quo(i.z * cap, 1000)>>
\* What the wire lets through: validIntent.
Legal(i) == i.x * i.x + i.z * i.z <= 1000000

Idle == [conn |-> None, seq |-> 0, v |-> <<0, 0>>]
Driving(c, s) == [conn |-> c, seq |-> s, v |-> Velocity(Intents[s], Cap)]
NoAck == [seq |-> 0, tick |-> 0]
Request(op, c) == [op |-> op, conn |-> c]

Init ==
  /\ phase = "before" /\ tick = 0 /\ batch = <<>> /\ pending = <<>>
  /\ holder = None /\ driver = Idle
  /\ frame = [c \in Conns |-> 0] /\ sent = 0
  /\ active = [c \in Conns |-> FALSE]
  /\ received = [c \in Conns |-> 0] /\ frames = [c \in Conns |-> 0] /\ latest = [c \in Conns |-> 0]
  /\ held = [c \in Conns |-> 0] /\ remaining = [c \in Conns |-> 0]
  /\ nextSequence = [c \in Conns |-> 0] /\ applyTick = [c \in Conns |-> 0]
  /\ appliedSequence = [c \in Conns |-> 0]
  /\ ack = [c \in Conns |-> NoAck] /\ ackReady = [c \in Conns |-> FALSE]
  /\ writer = [c \in Conns |-> "none"] /\ joined = [c \in Conns |-> FALSE]
  /\ end = [c \in Conns |-> "new"] /\ barred = {} /\ driven = <<>>

-----------------------------------------------------------------------------
\* The connection's goroutines.
Open(c) ==
  /\ end[c] = "new" /\ tick < MaxTick
  /\ end' = [end EXCEPT ![c] = "live"]
  /\ writer' = [writer EXCEPT ![c] = "waiting"]
  /\ pending' = Append(pending, Request("attach", c))
  /\ UNCHANGED <<phase, tick, batch, holder, driver, frame, sent, active, boxVars, stepVars, ack, ackReady, joined, barred, driven>>

\* readLoop has a frame: one the budget drops, one that is no intent, or an intent.
Receive(c) ==
  /\ frame[c] = 0 /\ end[c] \in {"live", "ending"} /\ sent < MaxFrames
  /\ sent' = sent + 1
  /\ IF frames[c] >= FrameBudget
     THEN UNCHANGED <<frame, frames>>
     ELSE /\ frames' = [frames EXCEPT ![c] = @ + 1]
          /\ \/ UNCHANGED frame
             \/ \E s \in Sequences : Legal(Intents[s]) /\ frame' = [frame EXCEPT ![c] = s]
  /\ UNCHANGED <<simVars, active, received, latest, stepVars, ackVars, end, barred, driven>>

\* Mutant of Newer: a sequence may be offered again.
NewerOrSame(s, c) == s >= received[c]
Newer(s, c) == s > received[c]

OfferIntent(c) ==
  /\ frame[c] \in Sequences
  /\ IF active[c] /\ Newer(frame[c], c)
     THEN received' = [received EXCEPT ![c] = frame[c]] /\ latest' = [latest EXCEPT ![c] = frame[c]]
     ELSE UNCHANGED <<received, latest>>
  /\ frame' = [frame EXCEPT ![c] = 0]
  /\ UNCHANGED <<simVars, sent, active, frames, stepVars, ackVars, end, barred, driven>>

\* teardown or close, by any goroutine: the input is cleared at once, the release
\* queued by the one that enters conn.once.
Deactivate(c) ==
  /\ end[c] = "live"
  /\ end' = [end EXCEPT ![c] = "ending"] /\ active' = [active EXCEPT ![c] = FALSE]
  /\ UNCHANGED <<simVars, frame, sent, boxVars, stepVars, ackVars, barred, driven>>
Release(c) ==
  /\ end[c] = "ending"
  /\ end' = [end EXCEPT ![c] = "released"]
  /\ pending' = Append(pending, Request("detach", c))
  /\ UNCHANGED <<phase, tick, batch, holder, driver, frame, sent, active, boxVars, stepVars, ackVars, barred, driven>>

\* writeLoop: no acknowledgement before the join snapshot, then the token, then the
\* slot, which may be empty.
WriteJoin(c) ==
  /\ writer[c] = "waiting" /\ ~joined[c] /\ holder = c
  /\ joined' = [joined EXCEPT ![c] = TRUE]
  /\ UNCHANGED <<simVars, frame, sent, active, boxVars, stepVars, ack, ackReady, writer, end, barred, driven>>
TakeToken(c) ==
  /\ writer[c] = "waiting" /\ joined[c] /\ ackReady[c]
  /\ ackReady' = [ackReady EXCEPT ![c] = FALSE] /\ writer' = [writer EXCEPT ![c] = "woken"]
  /\ UNCHANGED <<simVars, frame, sent, active, boxVars, stepVars, ack, joined, end, barred, driven>>
WriteAck(c) ==
  /\ writer[c] = "woken"
  /\ ack' = [ack EXCEPT ![c] = NoAck] /\ writer' = [writer EXCEPT ![c] = "waiting"]
  /\ UNCHANGED <<simVars, frame, sent, active, boxVars, stepVars, ackReady, joined, end, barred, driven>>

-----------------------------------------------------------------------------
\* The simulation goroutine: BeforeStep, World.Step, Tick.

\* Mutant of Taken: only the end of the tick runs what is pending.
TakenAtEnd(stage) == IF stage = "before" THEN <<>> ELSE pending
Taken(stage) == pending

TakePending ==
  /\ phase \in {"before", "after"} /\ tick < MaxTick
  /\ batch' = Taken(phase) /\ pending' = SubSeq(pending, Len(Taken(phase)) + 1, Len(pending))
  /\ IF phase = "before"
     THEN phase' = "attach" /\ barred' = {c \in Conns : end[c] = "released"}
     ELSE phase' = "reattach" /\ UNCHANGED barred
  /\ UNCHANGED <<tick, holder, driver, frame, sent, active, boxVars, stepVars, ackVars, end, driven>>

Attach(c) ==
  /\ holder = None
  /\ holder' = c /\ driver' = Idle /\ active' = [active EXCEPT ![c] = TRUE]
\* attach refuses the second connection off this goroutine: it ends like any other.
Refuse(c) == holder # None /\ UNCHANGED <<holder, driver, active>>
Detach(c) ==
  IF holder = c
  THEN holder' = None /\ driver' = Idle /\ active' = [active EXCEPT ![c] = FALSE]
  ELSE UNCHANGED <<holder, driver, active>>
RunRequest ==
  /\ batch # <<>> /\ batch' = Tail(batch)
  /\ LET r == Head(batch) IN IF r.op = "attach" THEN Attach(r.conn) \/ Refuse(r.conn) ELSE Detach(r.conn)
  /\ UNCHANGED <<phase, tick, pending, frame, sent, boxVars, stepVars, ackVars, end, barred, driven>>

\* The observer is stopped; the mailbox of a connection whose input is live is
\* taken next, under its lock.
ZeroAndCheck ==
  /\ phase = "attach" /\ batch = <<>>
  /\ driver' = Idle
  /\ phase' = IF \E c \in Attached : active[c] THEN "take" ELSE "step"
  /\ UNCHANGED <<tick, pending, batch, holder, frame, sent, active, boxVars, stepVars, ackVars, end, barred, driven>>

Drive ==
  /\ phase = "take"
  /\ LET c == holder
         fresh == latest[c] # 0
         seq == IF fresh THEN latest[c] ELSE held[c]
         left == IF fresh THEN HoldTicks ELSE remaining[c]
     IN  /\ latest' = [latest EXCEPT ![c] = 0] /\ frames' = [frames EXCEPT ![c] = 0]
         /\ held' = [held EXCEPT ![c] = seq]
         /\ remaining' = [remaining EXCEPT ![c] = IF left > 0 THEN left - 1 ELSE 0]
         /\ driver' = IF left > 0 THEN Driving(c, seq) ELSE driver
         /\ IF fresh
            THEN nextSequence' = [nextSequence EXCEPT ![c] = seq] /\ applyTick' = [applyTick EXCEPT ![c] = tick + 1]
            ELSE UNCHANGED <<nextSequence, applyTick>>
  /\ phase' = "step"
  /\ UNCHANGED <<tick, pending, batch, holder, frame, sent, active, received, appliedSequence, ackVars, end, barred, driven>>

WorldStep ==
  /\ phase = "step"
  /\ tick' = tick + 1 /\ driven' = Append(driven, [conn |-> driver.conn, seq |-> driver.seq])
  /\ phase' = "after"
  /\ UNCHANGED <<pending, batch, holder, driver, frame, sent, active, boxVars, stepVars, ackVars, end, barred>>

\* ackMovement: the slot first, then the token.
LeaveAck(c) ==
  LET seq == IF applyTick[c] # 0 /\ tick >= applyTick[c] THEN nextSequence[c] ELSE appliedSequence[c]
  IN  /\ appliedSequence' = [appliedSequence EXCEPT ![c] = seq]
      /\ ack' = [ack EXCEPT ![c] = [seq |-> seq, tick |-> tick]]
      /\ UNCHANGED ackReady
LeaveToken(c) == ackReady' = [ackReady EXCEPT ![c] = TRUE] /\ UNCHANGED <<ack, appliedSequence>>

\* Mutant of AckStage: the token comes before what it announces.
TokenFirst(stage, c) == IF stage = "reattach" THEN LeaveToken(c) ELSE LeaveAck(c)
AckStage(stage, c) == IF stage = "reattach" THEN LeaveAck(c) ELSE LeaveToken(c)

AckMovement ==
  /\ phase \in {"reattach", "token"} /\ batch = <<>>
  /\ \/ /\ \E c \in Attached : (phase = "token" \/ active[c]) /\ AckStage(phase, c)
        /\ phase' = IF phase = "reattach" THEN "token" ELSE "before"
     \/ /\ phase = "reattach" /\ \A c \in Attached : ~active[c]
        /\ phase' = "before" /\ UNCHANGED <<ack, ackReady, appliedSequence>>
  /\ UNCHANGED <<tick, pending, batch, holder, driver, frame, sent, active, boxVars, held, remaining,
                 nextSequence, applyTick, writer, joined, end, barred, driven>>

-----------------------------------------------------------------------------
SimStep == TakePending \/ RunRequest \/ ZeroAndCheck \/ Drive \/ WorldStep \/ AckMovement
ConnStep(c) ==
  \/ Open(c) \/ Receive(c) \/ OfferIntent(c) \/ Deactivate(c) \/ Release(c)
  \/ WriteJoin(c) \/ TakeToken(c) \/ WriteAck(c)

Next == SimStep \/ \E c \in Conns : ConnStep(c)
Spec == Init /\ [][Next]_vars

-----------------------------------------------------------------------------
\* However often an intent is sent again, on this connection or beside another, it
\* drives at most HoldTicks steps, in a row, and none once a newer one drove.
CoastBounded ==
  \A i, j \in DOMAIN driven :
    i < j /\ driven[i].conn = driven[j].conn /\ driven[i].conn # None =>
      /\ driven[i].seq <= driven[j].seq
      /\ driven[i].seq = driven[j].seq => j - i < HoldTicks /\ driven[j - 1] = driven[i]

\* The input of a connection whose release was queued before a tick began drives no
\* step of it, although its attachment may have been run after its end cleared
\* inputActive and a frame of it may still be on its way to the mailbox.
EndedDrivesNothing ==
  phase \in {"take", "step"} => holder \notin barred /\ driver.conn \notin barred

\* The latest acknowledgement of a connection always reaches its writer: what is in
\* the slot has a token, or a writer or the simulation on its way to it.
AckNotStranded ==
  \A c \in Conns : ack[c] # NoAck => ackReady[c] \/ writer[c] = "woken" \/ (phase = "token" /\ holder = c)
=============================================================================
