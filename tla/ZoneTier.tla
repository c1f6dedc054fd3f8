------------------------------ MODULE ZoneTier ------------------------------
(***************************************************************************)
(* The parts of a zone process that ZoneHub leaves out.  A behaviour is of *)
(* one part; the variables of the others are None, and a variable that two *)
(* parts have is that of the part that runs.                               *)
(*                                                                         *)
(* sim        the simulation of a zone: ZoneSim                            *)
(* lifecycle  the process and its claim gates: ZoneLifecycle               *)
(* intake     the movement input of an observer: MovementIntake            *)
(* wire       a frame that is altered: Wire                                *)
(***************************************************************************)
EXTENDS ZoneLifecycle, Geometry

CONSTANTS Zones, TickHz, Passes, Slop, MaxHealth, MaxHits, ListLimit, MaxSteps,
          Conns, Intents, Cap, HoldTicks, FrameBudget, MaxFrames, MaxTick,
          Word, Words, Messages, MaxAlterations, FrameEntities, FrameExtent, FrameScale, FrameDirection

VARIABLES part,
          zone, tick, pos, intent, nextCast, inFlight, casts, hits, dropped, painted, landed, deaths,
          phase, pending, batch, holder, driver, frame, sent, active, received, frames,
          latest, held, remaining, nextSequence, applyTick, appliedSequence, ack, ackReady,
          writer, joined, end, barred, driven,
          alterations

Sim == INSTANCE ZoneSim WITH MaxEntities <- ListLimit, MaxTick <- MaxSteps
Intake == INSTANCE MovementIntake
Frames == INSTANCE Wire WITH
  MaxEntities <- FrameEntities, MaxWorldExtent <- FrameExtent, CosScale <- FrameScale, MaxDirection <- FrameDirection

\* An actor is a record of numbers under a number, a mob is an actor, and so much can be
\* healed and logged, at so many steps a second.
ASSUME ZonesAreSound ==
  /\ MaxHealth \in Nat \ {0} /\ MaxHits \in Nat /\ TickHz \in Nat \ {0}
  /\ \A z \in Zones :
       /\ DOMAIN z = {"min", "max", "actors", "mobs", "swept", "inputs"}
       /\ IsFiniteSet(DOMAIN z.actors) /\ DOMAIN z.actors \subseteq Int
       /\ DOMAIN z.mobs \subseteq DOMAIN z.actors
       /\ \A e \in DOMAIN z.actors :
            z.actors[e] \in [at : [x : Int, z : Int], maxSpeed : Int, radius : Int, maxHealth : Int,
                            health : Int, view : Int]
       /\ \A m \in DOMAIN z.mobs :
            z.mobs[m] \in [aggro : Int, range : Int, chase : Int, cast : Int, cooldown : Int, circle : Int,
                          damage : Int]

\* A connection is told from none, and the wire carries no intent numbered zero.
ASSUME IntentsAreNumbered ==
  None \notin Conns /\ HoldTicks \in Nat /\ DOMAIN Intents \subseteq Nat \ {0}

-----------------------------------------------------------------------------
worldVars == <<nextCast, inFlight, casts, hits, dropped, painted, landed, deaths>>
simVars == <<zone, tick, pos, intent, health, worldVars>>
lifecycleVars == <<gateKind, main, stopping, gs, edits, watch, stream, observed, binding,
                   halted, told, claim, gate, custody, broken, firstAsked>>
intakeVars == <<phase, pending, batch, holder, driver, active, received, frames, latest, held,
                remaining, nextSequence, applyTick, appliedSequence, ack, ackReady, writer,
                joined, end, barred, driven>>
frameVars == <<frame, sent, alterations>>
tierVars == <<part, simVars, lifecycleVars, intakeVars, frameVars>>

\* What is not of a part.  A lifecycle that does not run has not begun.
NoWorld == /\ zone = None /\ pos = None /\ intent = None /\ nextCast = None /\ inFlight = None /\ casts = None
           /\ hits = None /\ dropped = None /\ painted = None /\ landed = None /\ deaths = None
NoTick == tick = None
NoHealth == health = None
NoLifecycle == /\ gateKind = "plain" /\ main = "start" /\ stopping = FALSE /\ told = 0
               /\ claim = [h \in Handlers |-> NoClaim] /\ broken = {}
               /\ gate = [holder |-> None, uncertain |-> FALSE, captured |-> FALSE, receipt |-> NoReceipt]
               /\ gs = None /\ edits = None /\ watch = None /\ stream = None /\ observed = None
               /\ binding = None /\ halted = None /\ custody = None /\ firstAsked = None
NoIntake == /\ phase = None /\ pending = None /\ batch = None /\ holder = None /\ driver = None /\ active = None
            /\ received = None /\ frames = None /\ latest = None /\ held = None /\ remaining = None
            /\ nextSequence = None /\ applyTick = None /\ appliedSequence = None /\ ack = None
            /\ ackReady = None /\ writer = None /\ joined = None /\ end = None /\ barred = None /\ driven = None
NoFrame == frame = None /\ sent = None
NoAlteration == alterations = None

TierInit ==
  \/ /\ part = "sim" /\ Sim!Init
     /\ NoLifecycle /\ NoIntake /\ NoFrame /\ NoAlteration
  \/ /\ part = "lifecycle" /\ Init
     /\ NoWorld /\ NoTick /\ NoIntake /\ NoFrame /\ NoAlteration
  \/ /\ part = "intake" /\ Intake!Init
     /\ NoWorld /\ NoHealth /\ NoLifecycle /\ NoAlteration
  \/ /\ part = "wire" /\ Frames!Init
     /\ NoWorld /\ NoTick /\ NoHealth /\ NoLifecycle /\ NoIntake

TierNext ==
  /\ \/ part = "sim" /\ Sim!Next /\ UNCHANGED <<lifecycleVars, intakeVars, frameVars>>
     \/ part = "lifecycle" /\ Next
        /\ UNCHANGED <<zone, tick, pos, intent, worldVars, intakeVars, frameVars>>
     \/ part = "intake" /\ Intake!Next
        /\ UNCHANGED <<zone, pos, intent, health, worldVars, lifecycleVars, alterations>>
     \/ part = "wire" /\ Frames!Next /\ UNCHANGED <<simVars, lifecycleVars, intakeVars>>
  /\ UNCHANGED part

TierSpec == TierInit /\ [][TierNext]_tierVars

-----------------------------------------------------------------------------
\* A painted telegraph is accounted for until it lands, and a death is told once however
\* many marks cause it.
CombatAccounted == part = "sim" => Sim!CastsAccounted /\ Sim!DeathsToldOnce

\* No rounding freezes a pursuit, no speed carries an actor through another, and two
\* actors that fit are apart when a step ends.
MotionKeepsItsOrder == [][part = "sim" => Sim!ChaseCloses /\ Sim!NeverCrosses /\ Sim!PairParts']_simVars

\* What every observer is told of a step can be encoded.
FramesEncode == [][part = "sim" => Sim!StepEncodes]_simVars

\* An intent drives a bounded run of steps, none of them after its connection's end,
\* and the last acknowledgement reaches its writer.
InputAccounted ==
  part = "intake" => Intake!CoastBounded /\ Intake!EndedDrivesNothing /\ Intake!AckNotStranded

\* A message has one encoding and an encoding one message.
CanonicalFrames == part = "wire" => Frames!CanonicalFrames
=============================================================================
