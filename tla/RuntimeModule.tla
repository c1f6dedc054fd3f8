---------------------------- MODULE RuntimeModule ----------------------------
(***************************************************************************)
(* The handoff module inside Nakama (server/nakamaruntime): what it         *)
(* acquires while it is initialized, how a failure gives that back, and how *)
(* the shutdown hook retires it while handlers and sweeps still run.        *)
(*                                                                         *)
(* A handler and a sweep may use the connections for as long as they run:   *)
(* the coordinator cleans up under a context of its own after its caller's  *)
(* has ended.  What they do there is Handoff's.                             *)
(***************************************************************************)
EXTENDS Integers, FiniteSets, Sequences

CONSTANTS Calls,       \* requests the module may be sent
          Claims,      \* those that come by the private listener
          Settings,    \* runtime.env, and the files it names, at the start
          Workers      \* the sweeps that may be configured: expiry and orphans

VARIABLES stage,      \* of the initialization; "running" once it succeeded
          setting,
          held,       \* what is acquired: connections and the bound socket
          life,       \* the detached lifecycle: "none", "live", "ended"
          closed,     \* handlerGate.closed
          listener,   \* "none", "bound", "serving", "closed"
          call,       \* call[c]: where a request is
          worker,     \* worker[w]: where a sweep is
          hook,       \* how far the shutdown hook has come
          finished    \* drain's channel: workers and handlers have returned

initVars == <<stage, setting>>
runVars  == <<call, worker, listener>>
hookVars == <<hook, finished, closed>>
vars == <<initVars, held, life, runVars, hookVars>>

Connections == {"kube", "allocator"}
Configured(s) == {w \in Workers : w = "expiry" \/ s.orphans = "true"}

Init ==
  /\ stage = "config" /\ setting \in Settings /\ held = {} /\ life = "none" /\ closed = FALSE
  /\ listener = "none" /\ call = [c \in Calls |-> "new"] /\ worker = [w \in Workers |-> "off"]
  /\ hook = "none" /\ finished = FALSE

-----------------------------------------------------------------------------
\* The configuration: a flag that is neither true nor false is an error, and what a
\* disabled part is set to is not looked at.
Flags == {"", "false", "true"}
Sound(s) ==
  /\ s.enabled \in Flags
  /\ s.enabled = "true" => s.complete /\ s.claims \in Flags /\ s.orphans \in Flags

\* The claims credentials: every root a valid client authority, every certificate
\* of the chain valid and signed by the next, a leaf that may serve, and no key in
\* two roles.  A static snapshot must also lead to a root.
Keys(certificates) == {c.key : c \in certificates}
Served(material) == {material.chain[i] : i \in DOMAIN material.chain}
Linked(chain) == \A i \in 1..(Len(chain) - 1) : chain[i].signer = chain[i + 1].key /\ chain[i + 1].ca
Trusted(material) ==
  LET leaf == Head(material.chain) IN
  /\ \A r \in material.roots : r.ca /\ r.valid /\ r.clients
  /\ \A c \in Served(material) : c.valid
  /\ Linked(material.chain) /\ leaf.serves /\ leaf.key \notin Keys(material.roots)
  /\ (Keys(material.roots) \cup {leaf.key}) \cap material.allocator = {}
  /\ material.static =>
       /\ ~leaf.ca /\ leaf.key \notin Keys({material.chain[i] : i \in 2..Len(material.chain)})
       /\ Keys(Served(material)) \cap material.allocator = {}
       /\ material.chain[Len(material.chain)].signer \in Keys(material.roots)

\* Initialization goes on, or fails and gives up what it holds.
Proceed(next) == stage' = next /\ UNCHANGED <<setting, runVars, hookVars>>
Fail(keeps) ==
  /\ stage' = "failed" /\ held' = keeps
  /\ life' = IF life = "live" THEN "ended" ELSE life
  /\ UNCHANGED <<setting, runVars, hookVars>>

ReadConfig ==
  /\ stage = "config"
  /\ \/ ~Sound(setting) /\ Fail({})
     \/ Sound(setting) /\ setting.enabled # "true" /\ Proceed("off") /\ UNCHANGED <<held, life>>
     \/ Sound(setting) /\ setting.enabled = "true" /\ Proceed("kube") /\ UNCHANGED <<held, life>>

\* connectRuntime: keys, the in-cluster client, then the allocator, whose handshake
\* is awaited.
ConnectKube ==
  /\ stage = "kube"
  /\ Fail({}) \/ (Proceed("allocator") /\ held' = held \cup {"kube"} /\ UNCHANGED life)
ConnectAllocator ==
  /\ stage = "allocator"
  /\ \/ Fail(held \ {"kube"})
     \/ Proceed("compose") /\ held' = held \cup {"allocator"} /\ UNCHANGED life

Compose ==
  /\ stage = "compose"
  /\ Fail(held \ Connections) \/ (Proceed("listen") /\ life' = "live" /\ UNCHANGED held)

\* preparePrivateListener binds, and does not accept.
Listen ==
  /\ stage = "listen"
  /\ \/ Fail(held \ Connections)
     \/ setting.claims # "true" /\ Proceed("rpc") /\ UNCHANGED <<held, life>>
     \/ /\ setting.claims = "true" /\ Trusted(setting.material)
        /\ stage' = "rpc" /\ held' = held \cup {"socket"} /\ listener' = "bound"
        /\ UNCHANGED <<setting, life, call, worker, hookVars>>

\* Mutant of RolledBack: the socket stays bound.
RolledBackPartly == held \ Connections
RolledBack == {}

RegisterRpc ==
  /\ stage = "rpc"
  /\ Fail(RolledBack) \/ (Proceed("shutdown") /\ UNCHANGED <<held, life>>)

\* The last step that may fail; only then are the workers and the server started.
RegisterShutdown ==
  /\ stage = "shutdown"
  /\ \/ Fail(RolledBack)
     \/ /\ stage' = "running"
        /\ worker' = [w \in Workers |-> IF w \in Configured(setting) THEN "due" ELSE "stopped"]
        /\ UNCHANGED <<setting, held, life, call, listener, hookVars>>

-----------------------------------------------------------------------------
\* ServeTLS, on its goroutine; its failure ends the module's life.
Serve ==
  /\ stage = "running" /\ listener = "bound" /\ listener' = "serving"
  /\ UNCHANGED <<initVars, held, life, call, worker, hookVars>>
ServeFails ==
  /\ stage = "running" /\ listener \in {"bound", "serving"} /\ listener' = "closed"
  /\ life' = "ended" /\ held' = held \ {"socket"}
  /\ UNCHANGED <<initVars, call, worker, hookVars>>

\* A handler looks at the module's life, then enters the gate.
Arrive(c) ==
  /\ stage = "running" /\ call[c] = "new" /\ (c \in Claims => listener = "serving")
  /\ call' = [call EXCEPT ![c] = IF life = "live" THEN "admitting" ELSE "refused"]
  /\ UNCHANGED <<initVars, held, life, worker, listener, hookVars>>

Admits == ~closed

Enter(c) ==
  /\ call[c] = "admitting"
  /\ call' = [call EXCEPT ![c] = IF Admits THEN "inside" ELSE "refused"]
  /\ UNCHANGED <<initVars, held, life, worker, listener, hookVars>>
Leave(c) ==
  /\ call[c] = "inside" /\ call' = [call EXCEPT ![c] = "left"]
  /\ UNCHANGED <<initVars, held, life, worker, listener, hookVars>>

\* The orphan sweep looks at its context before it sweeps; the expiry sweep goes on.
SweepBegins(w) ==
  /\ worker[w] = "due"
  /\ worker' = [worker EXCEPT ![w] = IF w = "orphans" /\ life = "ended" THEN "stopped" ELSE "sweeping"]
  /\ UNCHANGED <<initVars, held, life, call, listener, hookVars>>
\* A sweep that fails after its context has ended is the last.
SweepEnds(w) ==
  /\ worker[w] = "sweeping"
  /\ \/ worker' = [worker EXCEPT ![w] = "waiting"]
     \/ w = "expiry" /\ life = "ended" /\ worker' = [worker EXCEPT ![w] = "stopped"]
  /\ UNCHANGED <<initVars, held, life, call, listener, hookVars>>
\* The select between the ticker and the end of the context.
Tick(w) ==
  /\ worker[w] = "waiting" /\ worker' = [worker EXCEPT ![w] = "due"]
  /\ UNCHANGED <<initVars, held, life, call, listener, hookVars>>
Stop(w) ==
  /\ worker[w] = "waiting" /\ life = "ended" /\ worker' = [worker EXCEPT ![w] = "stopped"]
  /\ UNCHANGED <<initVars, held, life, call, listener, hookVars>>

-----------------------------------------------------------------------------
\* The shutdown hook, which Nakama calls once.
HookCancels ==
  /\ stage = "running" /\ hook = "none" /\ life' = "ended"
  /\ hook' = IF setting.claims = "true" THEN "stop" ELSE "close"
  /\ UNCHANGED <<initVars, held, runVars, finished, closed>>

\* privateListener.stop: no new connection; those that are open have until the
\* deadline, and their handlers beyond it.
HookStops ==
  /\ hook = "stop" /\ hook' = "close" /\ listener' = "closed" /\ held' = held \ {"socket"}
  /\ UNCHANGED <<initVars, life, call, worker, finished, closed>>

HookCloses ==
  /\ hook = "close" /\ hook' = "drain" /\ closed' = TRUE
  /\ UNCHANGED <<initVars, held, life, runVars, finished>>

\* Mutant of Drained: only the handlers are waited for.
HandlersDrained == \A c \in Calls : call[c] # "inside"
Drained == (\A c \in Calls : call[c] # "inside") /\ \A w \in Workers : worker[w] = "stopped"

\* drain's goroutine.
Finish ==
  /\ closed /\ ~finished /\ Drained /\ finished' = TRUE
  /\ UNCHANGED <<initVars, held, life, runVars, hook, closed>>

\* The hook returns when all has finished or at its deadline; the connections go
\* when all has finished, with the hook or after it.
HookReturns ==
  /\ hook = "drain" /\ hook' = "over"
  /\ UNCHANGED <<initVars, held, life, runVars, finished, closed>>
\* Mutant of MayRetire: what outlasts the hook is forgotten.
WithinTheHook == hook = "drain"
MayRetire == hook \in {"drain", "over"}
Retire ==
  /\ MayRetire /\ finished /\ Connections \subseteq held /\ held' = held \ Connections
  /\ UNCHANGED <<initVars, life, runVars, hookVars>>

InitStep == ReadConfig \/ ConnectKube \/ ConnectAllocator \/ Compose \/ Listen \/ RegisterRpc \/ RegisterShutdown
CallStep(c) == Arrive(c) \/ Enter(c) \/ Leave(c)
WorkerStep(w) == SweepBegins(w) \/ SweepEnds(w) \/ Tick(w) \/ Stop(w)
HookStep == HookStops \/ HookCloses \/ Finish \/ HookReturns \/ Retire

Next ==
  \/ InitStep \/ Serve \/ ServeFails \/ HookCancels \/ HookStep
  \/ \E c \in Calls : CallStep(c)
  \/ \E w \in Workers : WorkerStep(w)
Spec == Init /\ [][Next]_vars

\* What is not left to chance: handlers return (their contexts are bounded), sweeps
\* come to an end, and the hook's goroutines go on.  A handler returns once and a
\* hook's step is taken once, so fairness of the whole is fairness of each.
GoesOn == HookStep \/ \E c \in Calls : Leave(c)
Sweeps(w) == SweepBegins(w) \/ SweepEnds(w)

-----------------------------------------------------------------------------
\* The connections outlive every use: none is closed while a handler or a sweep
\* runs, whenever the shutdown came and however long they take (handlerGate, drain).
InUse == (\E c \in Calls : call[c] = "inside") \/ \E w \in Workers : worker[w] = "sweeping"
ConnectionsOutliveUse == InUse => Connections \subseteq held

\* An initialization that fails, at whichever step, keeps nothing: no connection, no
\* bound port, no running life (rollback, and each early return before it).
FailureKeepsNothing == stage = "failed" => held = {} /\ life # "live"
=============================================================================
