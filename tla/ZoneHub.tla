------------------------------ MODULE ZoneHub -------------------------------
(***************************************************************************)
(* The zone socket hub (server/zonesock): admission on the HTTP side, two  *)
(* goroutines per upgraded socket, attach and detach marshalled onto the   *)
(* simulation goroutine, and shutdown.                                     *)
(*                                                                         *)
(* A connection is one request; what it sends and receives is left to      *)
(* ReplicationStream.  Tokens, versions and the claim are verdicts.        *)
(* Encoding a snapshot succeeds (the zone is far below wire.MaxEntities).  *)
(***************************************************************************)
EXTENDS Integers, FiniteSets, Sequences

CONSTANTS Conns,       \* requests that reach the handler
          Observers,   \* observers the world knows
          ObserverOf,  \* ObserverOf[c]: whom the token of c names
          Claimed,     \* whether admission takes a durable claim (NewClaimedHub)
          None

ASSUME ObserverOfIsAFunction == DOMAIN ObserverOf = Conns
ASSUME NoneIsNoConn == None \notin Conns

VARIABLES handler,    \* handler[c]: where ServeHTTP is
          cancelled,  \* requests whose admission context is done
          at,         \* at[c, t]: where goroutine t of the socket is
          once,       \* once[c]: c.once
          severed,    \* sockets whose context is done and that are closed
          peer,       \* peer[c]: whether the other end still answers
          pending,    \* Hub.pending: requests to the simulation goroutine
          batch,      \* what runPending took and still has to run
          conns,      \* Hub.conns
          interest,   \* observers with an interest radius in the world
          connected,  \* Hub.connected
          sockets,    \* Hub.sockets
          workers,    \* the count of Hub.workers
          closing,    \* Hub.closing (and the lifetime's end)
          toClose,    \* sockets the shutdown still has to close
          drained     \* Hub.drained is closed

requestVars == <<handler, cancelled>>
socketVars  == <<at, once, severed, peer>>
worldVars   == <<batch, conns, interest, connected>>
hubVars     == <<pending, sockets, workers>>
endVars     == <<closing, toClose, drained>>
vars == <<requestVars, socketVars, worldVars, hubVars, endVars>>

\* The goroutines that may end a socket: the two of Handler, and the one attach
\* spawns to refuse it.
Threads == {"writer", "reader", "closer"}

HandlerPCs == {"new", "entered", "cleared", "accepted", "serving", "returned"}
ThreadPCs  == {"none", "run", "teardown", "close", "shake", "leave", "done"}

Init ==
  /\ handler = [c \in Conns |-> "new"] /\ cancelled = {}
  /\ at = [p \in Conns \X Threads |-> "none"]
  /\ once = [c \in Conns |-> "free"]
  /\ severed = {} /\ peer = [c \in Conns |-> "alive"]
  /\ pending = <<>> /\ batch = <<>>
  /\ conns = [o \in Observers |-> None] /\ interest = {} /\ connected = 0
  /\ sockets = {} /\ workers = 0
  /\ closing = FALSE /\ toClose = {} /\ drained = FALSE

Request(op, c) == [op |-> op, conn |-> c]
Move(c, t, label) == at' = [at EXCEPT ![<<c, t>>] = label]
HandlerAt(c, label) == handler' = [handler EXCEPT ![c] = label]
\* The handler returns without a socket; finish retires it.
Refused(c) == HandlerAt(c, "returned") /\ workers' = workers - 1

\* Mutant of Enqueue: the latest request runs first.
EnqueueFirst(op, c) ==
  pending' = IF closing THEN pending ELSE <<Request(op, c)>> \o pending

\* enqueue: nothing is scheduled once the hub is closing.
Enqueue(op, c) ==
  pending' = IF closing THEN pending ELSE Append(pending, Request(op, c))

-----------------------------------------------------------------------------
\* ServeHTTP.
BeginAdmission(c) ==
  /\ handler[c] = "new"
  /\ IF closing
     THEN HandlerAt(c, "returned") /\ UNCHANGED workers
     ELSE HandlerAt(c, "entered") /\ workers' = workers + 1
  /\ UNCHANGED <<cancelled, socketVars, worldVars, pending, sockets, endVars>>

\* The end of the hub's lifetime reaches the admission context.
CancelAdmission(c) ==
  /\ closing
  /\ handler[c] \in {"entered", "cleared"}
  /\ c \notin cancelled
  /\ cancelled' = cancelled \cup {c}
  /\ UNCHANGED <<handler, socketVars, worldVars, hubVars, endVars>>

\* The token, the wire version, the handshake and the claim admit the request or
\* refuse it; a claim is refused when it returns to a cancelled admission.
CheckRequest(c) ==
  /\ handler[c] = "entered"
  /\ \/ Refused(c)
     \/ /\ Claimed => c \notin cancelled
        /\ HandlerAt(c, "cleared") /\ UNCHANGED workers
  /\ UNCHANGED <<cancelled, socketVars, worldVars, pending, sockets, endVars>>

\* Mutant of Upgrade: the admission is finished before the socket is registered.
UpgradeFinished(c) ==
  /\ handler[c] = "cleared"
  /\ \/ Refused(c)
     \/ /\ c \notin cancelled
        /\ HandlerAt(c, "accepted") /\ workers' = workers - 1
  /\ UNCHANGED <<cancelled, socketVars, worldVars, pending, sockets, endVars>>

Upgrade(c) ==
  /\ handler[c] = "cleared"
  /\ \/ Refused(c)
     \/ /\ c \notin cancelled
        /\ HandlerAt(c, "accepted") /\ UNCHANGED workers
  /\ UNCHANGED <<cancelled, socketVars, worldVars, pending, sockets, endVars>>

\* registerSocket: both workers are tracked and the attachment queued at once; an
\* upgrade that raced shutdown is closed by its handler.
RegisterSocket(c) ==
  /\ handler[c] = "accepted"
  /\ \/ /\ closing
        /\ Refused(c)
        /\ severed' = severed \cup {c}
        /\ UNCHANGED <<pending, sockets, at>>
     \/ /\ ~closing
        /\ HandlerAt(c, "serving")
        /\ workers' = workers + 2
        /\ sockets' = sockets \cup {c}
        /\ Enqueue("attach", c)
        /\ at' = [at EXCEPT ![<<c, "writer">>] = "run", ![<<c, "reader">>] = "run"]
        /\ UNCHANGED severed
  /\ UNCHANGED <<cancelled, once, peer, worldVars, endVars>>

HandlerReturns(c) ==
  /\ handler[c] = "serving"
  /\ Refused(c)
  /\ UNCHANGED <<cancelled, socketVars, worldVars, pending, sockets, endVars>>

-----------------------------------------------------------------------------
\* The goroutines of a socket.
PeerGoes(c) ==
  /\ at[c, "writer"] # "none"
  /\ peer[c] = "alive"
  /\ peer' = [peer EXCEPT ![c] = "gone"]
  /\ UNCHANGED <<requestVars, at, once, severed, worldVars, hubVars, endVars>>

\* A failed write or an unanswered ping ends the writer, a failed read the
\* reader; so does the end of the socket.  Its deferred teardown follows.
Ends(c, t) ==
  \/ at[c, t] = "teardown"
  \/ at[c, t] = "run" /\ (c \in severed \/ peer[c] = "gone")

\* A client message the hub refuses.
ProtocolViolation(c) ==
  /\ at[c, "reader"] = "run"
  /\ c \notin severed /\ peer[c] = "alive"
  /\ Move(c, "reader", "close")
  /\ UNCHANGED <<requestVars, once, severed, peer, worldVars, hubVars, endVars>>

\* conn.teardown; a second caller waits for c.once.
Teardown(c, t) ==
  /\ Ends(c, t)
  /\ \/ /\ once[c] = "free"
        /\ once' = [once EXCEPT ![c] = "spent"]
        /\ severed' = severed \cup {c}
        /\ Enqueue("detach", c)
     \/ once[c] = "spent" /\ UNCHANGED <<once, severed, pending>>
  /\ Move(c, t, "leave")
  /\ UNCHANGED <<requestVars, peer, worldVars, sockets, workers, endVars>>

\* The reader's deferred teardown follows its close, the closer is done.
AfterClose(t) == IF t = "reader" THEN "teardown" ELSE "done"

\* Mutant of BeginClose: the close handshake comes before the release.
BeginCloseOnly(c, t) ==
  /\ at[c, t] = "close"
  /\ \/ /\ once[c] = "free"
        /\ once' = [once EXCEPT ![c] = "busy"]
        /\ Move(c, t, "shake")
     \/ /\ once[c] = "spent"
        /\ Move(c, t, AfterClose(t))
        /\ UNCHANGED once
  /\ UNCHANGED <<requestVars, severed, peer, worldVars, hubVars, endVars>>

\* conn.close: the release is scheduled before the close handshake.
BeginClose(c, t) ==
  /\ at[c, t] = "close"
  /\ \/ /\ once[c] = "free"
        /\ once' = [once EXCEPT ![c] = "busy"]
        /\ Enqueue("detach", c)
        /\ Move(c, t, "shake")
     \/ /\ once[c] = "spent"
        /\ Move(c, t, AfterClose(t))
        /\ UNCHANGED <<once, pending>>
  /\ UNCHANGED <<requestVars, severed, peer, worldVars, sockets, workers, endVars>>

\* The handshake ends, answered, timed out or interrupted by CloseNow.
EndClose(c, t) ==
  /\ at[c, t] = "shake"
  /\ once' = [once EXCEPT ![c] = "spent"]
  /\ severed' = severed \cup {c}
  /\ Move(c, t, AfterClose(t))
  /\ UNCHANGED <<requestVars, peer, worldVars, hubVars, endVars>>

\* socketWorkerDone: the last of the two workers retires the socket.
WorkerLeaves(c, t) ==
  /\ at[c, t] = "leave"
  /\ Move(c, t, "done")
  /\ sockets' = IF \A u \in {"writer", "reader"} \ {t} : at[c, u] = "done"
                THEN sockets \ {c} ELSE sockets
  /\ workers' = workers - 1
  /\ UNCHANGED <<requestVars, once, severed, peer, worldVars, pending, endVars>>

-----------------------------------------------------------------------------
\* The simulation goroutine: runPending takes what was scheduled and runs it.
TakePending ==
  /\ ~closing
  /\ batch = <<>> /\ pending # <<>>
  /\ batch' = pending /\ pending' = <<>>
  /\ UNCHANGED <<requestVars, socketVars, conns, interest, connected, sockets, workers, endVars>>

\* attach: an unknown observer and a second connection are refused off the
\* simulation goroutine.
Vacant(o) == o \in Observers /\ conns[o] = None

Attach(c) ==
  LET o == ObserverOf[c] IN
  \/ /\ ~Vacant(o)
     /\ Move(c, "closer", "close")
     /\ UNCHANGED <<conns, interest, connected>>
  \/ /\ Vacant(o)
     /\ conns' = [conns EXCEPT ![o] = c]
     /\ interest' = interest \cup {o}
     /\ connected' = connected + 1
     /\ UNCHANGED at

\* Mutants of Detach: whoever asks releases the observer; the interest stays.
DetachWhoever(c) ==
  LET o == ObserverOf[c] IN
  /\ IF o \in Observers /\ conns[o] # None
     THEN /\ conns' = [conns EXCEPT ![o] = None]
          /\ interest' = interest \ {o}
          /\ connected' = connected - 1
     ELSE UNCHANGED <<conns, interest, connected>>
  /\ UNCHANGED at
DetachTwice(c) ==
  LET o == ObserverOf[c] IN
  /\ connected' = connected - 1
  /\ IF o \in Observers /\ conns[o] = c
     THEN /\ conns' = [conns EXCEPT ![o] = None]
          /\ interest' = interest \ {o}
     ELSE UNCHANGED <<conns, interest>>
  /\ UNCHANGED at

\* detach: only the live connection of the observer releases it.
Detach(c) ==
  LET o == ObserverOf[c] IN
  /\ IF o \in Observers /\ conns[o] = c
     THEN /\ conns' = [conns EXCEPT ![o] = None]
          /\ interest' = interest \ {o}
          /\ connected' = connected - 1
     ELSE UNCHANGED <<conns, interest, connected>>
  /\ UNCHANGED at

RunRequest ==
  /\ ~closing
  /\ batch # <<>>
  /\ batch' = Tail(batch)
  /\ LET r == Head(batch) IN
     IF r.op = "attach" THEN Attach(r.conn) ELSE Detach(r.conn)
  /\ UNCHANGED <<requestVars, once, severed, peer, hubVars, endVars>>

-----------------------------------------------------------------------------
\* Shutdown, by the simulation's owner after its tick loop: admission is fenced,
\* the queue dropped and every observer released.
Shutdown ==
  /\ ~closing /\ batch = <<>>
  /\ closing' = TRUE
  /\ pending' = <<>>
  /\ toClose' = sockets
  /\ conns' = [o \in Observers |-> None]
  /\ interest' = interest \ {o \in Observers : conns[o] # None}
  /\ connected' = connected - Cardinality({o \in Observers : conns[o] # None})
  /\ UNCHANGED <<requestVars, socketVars, batch, sockets, workers, drained>>

\* Mutant of DrainCloses: the drain enters c.once, as teardown does.
DrainThroughOnce(c) ==
  /\ c \in toClose
  /\ once[c] # "busy"
  /\ toClose' = toClose \ {c}
  /\ severed' = severed \cup {c}
  /\ once' = [once EXCEPT ![c] = "spent"]
  /\ UNCHANGED <<requestVars, at, peer, worldVars, hubVars, closing, drained>>

\* The drain closes each socket without c.once, which a blocked close handshake
\* may hold, and waits for the work to end.
DrainCloses(c) ==
  /\ c \in toClose
  /\ toClose' = toClose \ {c}
  /\ severed' = severed \cup {c}
  /\ UNCHANGED <<requestVars, at, once, peer, worldVars, hubVars, closing, drained>>

DrainEnds ==
  /\ closing /\ ~drained
  /\ toClose = {} /\ workers = 0
  /\ drained' = TRUE
  /\ UNCHANGED <<requestVars, socketVars, worldVars, hubVars, closing, toClose>>

-----------------------------------------------------------------------------
HandlerStep(c) ==
  BeginAdmission(c) \/ CheckRequest(c) \/ Upgrade(c) \/ RegisterSocket(c) \/ HandlerReturns(c)

ThreadStep(c, t) ==
  Teardown(c, t) \/ BeginClose(c, t) \/ EndClose(c, t) \/ WorkerLeaves(c, t)

SimStep == TakePending \/ RunRequest

Next ==
  \/ \E c \in Conns : HandlerStep(c) \/ CancelAdmission(c) \/ PeerGoes(c) \/ ProtocolViolation(c)
  \/ \E c \in Conns, t \in Threads : ThreadStep(c, t)
  \/ SimStep
  \/ Shutdown \/ (\E c \in Conns : DrainCloses(c)) \/ DrainEnds

Spec == Init /\ [][Next]_vars

\* The steps that are not left to chance: an admitted handler ends (the claim is
\* bounded by its timeout), the simulation ticks until shutdown, the drain runs, and
\* a goroutine sees the end of its socket.  Only the writer's pings notice a silent
\* peer, and a close handshake ends only when the socket is closed under it.  A request
\* runs once, so no process steps for ever, and fairness of the whole is fairness of each.
FairStep ==
  \/ \E c \in Conns :
       \/ handler[c] # "new" /\ HandlerStep(c)
       \/ CancelAdmission(c) \/ DrainCloses(c)
       \/ Teardown(c, "writer")
       \/ (c \in severed \/ at[c, "reader"] = "teardown") /\ Teardown(c, "reader")
       \/ \E t \in Threads :
            BeginClose(c, t) \/ WorkerLeaves(c, t) \/ (c \in severed /\ EndClose(c, t))
  \/ SimStep \/ DrainEnds

-----------------------------------------------------------------------------
Requests == [op : {"attach", "detach"}, conn : Conns]

TypeOK ==
  /\ handler \in [Conns -> HandlerPCs] /\ cancelled \subseteq Conns
  /\ at \in [Conns \X Threads -> ThreadPCs]
  /\ once \in [Conns -> {"free", "busy", "spent"}]
  /\ severed \subseteq Conns /\ peer \in [Conns -> {"alive", "gone"}]
  /\ pending \in Seq(Requests) /\ batch \in Seq(Requests)
  /\ conns \in [Observers -> Conns \cup {None}]
  /\ interest \subseteq Observers /\ connected \in Nat
  /\ sockets \subseteq Conns /\ workers \in Nat /\ toClose \subseteq Conns
  /\ closing \in BOOLEAN /\ drained \in BOOLEAN

Queued(op, c) ==
  \/ \E i \in DOMAIN batch : batch[i] = Request(op, c)
  \/ \E i \in DOMAIN pending : pending[i] = Request(op, c)

\* A connection that holds an observer or waits for one.
Wanted(c) == Queued("attach", c) \/ \E o \in Observers : conns[o] = c

\* A connection that holds an observer, or is still to be attached, can let it
\* go: until it is severed, or with its release on the way behind the attachment
\* (registerSocket queues the attachment before the goroutines that can end the
\* socket exist; enqueue keeps their order).
HeldIsReleasable ==
  \A c \in Conns :
    Wanted(c) => once[c] = "free" \/ Queued("detach", c)

\* What the world and the operators see agrees with who is attached.
AttachedIsCounted ==
  /\ interest = {o \in Observers : conns[o] # None}
  /\ connected = Cardinality(interest)

\* Attachments are let go and counted: who holds an observer, or waits for one, can
\* let it go, and the world and the operators see who is attached.
AttachmentsAgree == TypeOK /\ HeldIsReleasable /\ AttachedIsCounted

\* A connection loses its observer only by its own end or by shutdown: neither a
\* refused duplicate nor its teardown takes the observer from the live one.
ConnectionKept ==
  \A o \in Observers : conns[o] # None /\ conns'[o] # conns[o]
    => once[conns[o]] # "free" \/ closing'
LiveConnectionKept == [][ConnectionKept]_conns

\* Shutdown reports a drain only when every admitted handler has returned and
\* every socket worker is gone, and nothing starts afterwards.
DrainedIsQuiet ==
  drained =>
    /\ \A c \in Conns : handler[c] \in {"new", "returned"}
    /\ \A c \in Conns, t \in {"writer", "reader"} : at[c, t] \in {"none", "done"}
    /\ sockets = {}
=============================================================================
