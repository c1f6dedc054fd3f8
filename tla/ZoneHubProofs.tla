--------------------------- MODULE ZoneHubProofs ----------------------------
(***************************************************************************)
(* The zone socket hub, for any number of connections and observers: an    *)
(* attached connection can always be let go, a live one is not replaced,   *)
(* what is counted is what is there, and a reported drain is quiet.        *)
(***************************************************************************)
EXTENDS ZoneHub, TLAPS, FiniteSetTheorems

\* What Hub.workers counts: handlers under way and the two workers of a socket.
Workers == {"writer", "reader"}
UnderWay == {"entered", "cleared", "accepted", "serving"}
Working ==
  {p \in Conns \X {"handler"} : handler[p[1]] \in UnderWay}
    \cup {p \in Conns \X Workers : at[p] \notin {"none", "done"}}

\* The group counts the work, and a drain was reported when there was none.
CountInv ==
  /\ IsFiniteSet(Working) /\ workers = Cardinality(Working)
  /\ drained => closing /\ Working = {}

\* A registered socket has a worker left; its workers start together.
SocketInv ==
  /\ \A c \in sockets : \E t \in Workers : at[c, t] \notin {"none", "done"}
  /\ \A c \in Conns : at[c, "writer"] = "none" <=> at[c, "reader"] = "none"
  /\ \A c \in Conns : at[c, "writer"] \notin {"close", "shake"}
  /\ \A c \in Conns : at[c, "closer"] \notin {"run", "teardown", "leave"}

\* What is scheduled for the simulation goroutine, in its order.
Queue == batch \o pending
Has(op, c) == \E i \in 1 .. Len(Queue) : Queue[i] = Request(op, c)

\* A release never overtakes its attachment.
Ordered ==
  \A c \in Conns : \A i, j \in 1 .. Len(Queue) :
    i < j /\ Queue[i] = Request("detach", c) => Queue[j] # Request("attach", c)

\* Nothing of a connection exists before its socket is registered.
Unregistered(c) ==
  /\ \A t \in Threads : at[c, t] = "none"
  /\ once[c] = "free"
  /\ ~Has("attach", c) /\ ~Has("detach", c)
  /\ \A o \in Observers : conns[o] # c

\* A connection that holds an observer or waits for one, and what lets it go
\* (HeldIsReleasable, over the one queue).
Holds(c) == Has("attach", c) \/ \E o \in Observers : conns[o] = c
Releasable == \A c \in Conns : Holds(c) => once[c] = "free" \/ Has("detach", c)

Registered(c) == handler[c] \in {"serving", "returned"}

\* Releases follow their attachment, and belong to connections that ended.
AttachInv ==
  /\ Ordered /\ Releasable
  /\ \A c \in Conns : Registered(c) \/ Unregistered(c)
  /\ \A c \in Conns : Has("detach", c) => once[c] # "free"
  /\ \A c \in Conns, t \in Threads : at[c, t] = "shake" => once[c] # "free"
  /\ \A o \in Observers : conns[o] # None => ObserverOf[conns[o]] = o
  /\ closing => Queue = <<>> /\ \A o \in Observers : conns[o] = None

InterestInv == IsFiniteSet(interest) /\ AttachedIsCounted

HubInv == TypeOK /\ CountInv /\ SocketInv /\ AttachInv /\ InterestInv

-----------------------------------------------------------------------------
\* Types.

\* The types of everything but the two counters.
Shapes ==
  /\ handler \in [Conns -> HandlerPCs] /\ cancelled \subseteq Conns
  /\ at \in [Conns \X Threads -> ThreadPCs]
  /\ once \in [Conns -> {"free", "busy", "spent"}]
  /\ severed \subseteq Conns /\ peer \in [Conns -> {"alive", "gone"}]
  /\ pending \in Seq(Requests) /\ batch \in Seq(Requests)
  /\ conns \in [Observers -> Conns \cup {None}]
  /\ interest \subseteq Observers
  /\ sockets \subseteq Conns /\ toClose \subseteq Conns
  /\ closing \in BOOLEAN /\ drained \in BOOLEAN

LEMMA TypeParts == TypeOK <=> Shapes /\ workers \in Nat /\ connected \in Nat
BY DEF TypeOK, Shapes

\* The first of some requests, and the others.
LEMMA FirstTyped ==
  ASSUME NEW S, NEW seq \in Seq(S), seq # <<>>
  PROVE  Head(seq) \in S /\ Tail(seq) \in Seq(S)
OBVIOUS

\* The request the simulation goroutine runs.
LEMMA FirstRuns ==
  ASSUME Shapes, RunRequest
  PROVE  \E c \in Conns : \/ Head(batch) = Request("attach", c) /\ Attach(c)
                          \/ Head(batch) = Request("detach", c) /\ Detach(c)
<1>1. batch \in Seq(Requests) /\ batch # <<>>
  BY DEF Shapes, RunRequest
<1>2. Head(batch) \in Requests
  BY <1>1, FirstTyped
<1>3. Head(batch) = Request(Head(batch).op, Head(batch).conn) /\ Head(batch).conn \in Conns
      /\ Head(batch).op \in {"attach", "detach"}
  BY <1>2 DEF Requests, Request
<1> QED  BY <1>3 DEF RunRequest

\* Only the simulation goroutine and the shutdown attach and release.
LEMMA OthersKeep ==
  ASSUME [Next]_vars, ~Shutdown, ~RunRequest
  PROVE  UNCHANGED <<conns, interest, connected>>
BY DEF Next, HandlerStep, ThreadStep, SimStep, BeginAdmission, CheckRequest, Upgrade, RegisterSocket,
   HandlerReturns, CancelAdmission, PeerGoes, ProtocolViolation, Teardown, BeginClose, EndClose,
   WorkerLeaves, TakePending, DrainCloses, DrainEnds, vars, worldVars

\* A request is scheduled as one.
LEMMA EnqueueTyped ==
  ASSUME Shapes, NEW op \in {"attach", "detach"}, NEW c \in Conns, Enqueue(op, c)
  PROVE  pending' \in Seq(Requests)
<1>1. Request(op, c) \in Requests
  BY DEF Request, Requests
<1>2. pending \in Seq(Requests)
  BY DEF Shapes
<1>3. Append(pending, Request(op, c)) \in Seq(Requests)
  BY <1>1, <1>2
<1> QED  BY <1>2, <1>3 DEF Enqueue

\* Every step keeps them.
LEMMA ShapesKept == Shapes /\ [Next]_vars => Shapes'
<1> SUFFICES ASSUME Shapes, [Next]_vars PROVE Shapes'
  OBVIOUS
<1> USE DEF HandlerPCs, ThreadPCs, Threads, HandlerAt, Move, Refused
<1>1. ASSUME NEW c \in Conns, BeginAdmission(c) PROVE Shapes'
  BY <1>1 DEF Shapes, BeginAdmission, socketVars, worldVars, endVars
<1>2. ASSUME NEW c \in Conns, CheckRequest(c) PROVE Shapes'
  BY <1>2 DEF Shapes, CheckRequest, socketVars, worldVars, endVars
<1>3. ASSUME NEW c \in Conns, Upgrade(c) PROVE Shapes'
  BY <1>3 DEF Shapes, Upgrade, socketVars, worldVars, endVars
<1>4. ASSUME NEW c \in Conns, RegisterSocket(c) PROVE Shapes'
  <2>1. pending' \in Seq(Requests)
    BY <1>4, EnqueueTyped DEF RegisterSocket, Shapes
  <2> QED  BY <1>4, <2>1 DEF Shapes, RegisterSocket, worldVars, endVars
<1>5. ASSUME NEW c \in Conns, HandlerReturns(c) PROVE Shapes'
  BY <1>5 DEF Shapes, HandlerReturns, socketVars, worldVars, endVars
<1>6. ASSUME NEW c \in Conns, CancelAdmission(c) PROVE Shapes'
  BY <1>6 DEF Shapes, CancelAdmission, socketVars, worldVars, hubVars, endVars
<1>7. ASSUME NEW c \in Conns, PeerGoes(c) PROVE Shapes'
  BY <1>7 DEF Shapes, PeerGoes, requestVars, worldVars, hubVars, endVars
<1>8. ASSUME NEW c \in Conns, ProtocolViolation(c) PROVE Shapes'
  BY <1>8 DEF Shapes, ProtocolViolation, requestVars, worldVars, hubVars, endVars
<1>9. ASSUME NEW c \in Conns, NEW t \in Threads, Teardown(c, t) PROVE Shapes'
  <2>1. pending' \in Seq(Requests)
    BY <1>9, EnqueueTyped DEF Teardown, Shapes
  <2> QED  BY <1>9, <2>1 DEF Shapes, Teardown, requestVars, worldVars, endVars
<1>10. ASSUME NEW c \in Conns, NEW t \in Threads, BeginClose(c, t) PROVE Shapes'
  <2>1. pending' \in Seq(Requests)
    BY <1>10, EnqueueTyped DEF BeginClose, Shapes
  <2> QED  BY <1>10, <2>1 DEF Shapes, BeginClose, AfterClose, requestVars, worldVars, endVars
<1>11. ASSUME NEW c \in Conns, NEW t \in Threads, EndClose(c, t) PROVE Shapes'
  BY <1>11 DEF Shapes, EndClose, AfterClose, requestVars, worldVars, hubVars, endVars
<1>12. ASSUME NEW c \in Conns, NEW t \in Threads, WorkerLeaves(c, t) PROVE Shapes'
  BY <1>12 DEF Shapes, WorkerLeaves, requestVars, worldVars, endVars
<1>13. CASE TakePending
  BY <1>13 DEF Shapes, TakePending, requestVars, socketVars, endVars
<1>14. CASE RunRequest
  <2>1. Tail(batch) \in Seq(Requests)
    BY <1>14, FirstTyped DEF RunRequest, Shapes
  <2>2. PICK c \in Conns : Attach(c) \/ Detach(c)
    BY <1>14, FirstRuns
  <2>3. /\ at' \in [Conns \X Threads -> ThreadPCs]
        /\ conns' \in [Observers -> Conns \cup {None}] /\ interest' \subseteq Observers
    BY <2>2 DEF Shapes, Attach, Detach, Vacant
  <2> QED  BY <1>14, <2>1, <2>3 DEF Shapes, RunRequest, requestVars, hubVars, endVars
<1>15. CASE Shutdown
  BY <1>15 DEF Shapes, Shutdown, requestVars, socketVars
<1>16. ASSUME NEW c \in Conns, DrainCloses(c) PROVE Shapes'
  BY <1>16 DEF Shapes, DrainCloses, requestVars, worldVars, hubVars
<1>17. CASE DrainEnds
  BY <1>17 DEF Shapes, DrainEnds, requestVars, socketVars, worldVars, hubVars
<1>18. CASE UNCHANGED vars
  BY <1>18 DEF Shapes, vars, requestVars, socketVars, worldVars, hubVars, endVars
<1> QED
  BY <1>1, <1>2, <1>3, <1>4, <1>5, <1>6, <1>7, <1>8, <1>9, <1>10, <1>11, <1>12, <1>13, <1>14,
     <1>15, <1>16, <1>17, <1>18
  DEF Next, HandlerStep, ThreadStep, SimStep

-----------------------------------------------------------------------------
\* The work that is counted.

\* A handler that moves, and a goroutine of a socket that moves.
LEMMA HandlerCounts ==
  ASSUME Shapes, NEW c \in Conns, NEW label \in HandlerPCs, HandlerAt(c, label), at' = at
  PROVE  /\ <<c, "handler">> \in Working <=> handler[c] \in UnderWay
         /\ Working' = IF label \in UnderWay THEN Working \cup {<<c, "handler">>}
                       ELSE Working \ {<<c, "handler">>}
<1>1. \A p \in Conns \X {"handler"} :
        handler'[p[1]] = IF p = <<c, "handler">> THEN label ELSE handler[p[1]]
  BY DEF Shapes, HandlerAt
<1>2. \A t \in Workers : t # "handler"
  BY DEF Workers
<1>3. <<c, "handler">> \in Conns \X {"handler"} /\ <<c, "handler">> \notin Conns \X Workers
  BY <1>2
<1> QED  BY <1>1, <1>3 DEF Working

LEMMA ThreadCounts ==
  ASSUME Shapes, NEW c \in Conns, NEW t \in Threads, NEW label \in ThreadPCs,
         Move(c, t, label), handler' = handler
  PROVE  /\ t \in Workers => (<<c, t>> \in Working <=> at[c, t] \notin {"none", "done"})
         /\ t \in Workers => Working' = IF label \in {"none", "done"} THEN Working \ {<<c, t>>}
                                        ELSE Working \cup {<<c, t>>}
         /\ t = "closer" => Working' = Working
<1>1. \A p \in Conns \X Threads : at'[p] = IF p = <<c, t>> THEN label ELSE at[p]
  BY DEF Shapes, Move
<1>2. Conns \X Workers \subseteq Conns \X Threads /\ \A u \in Workers : u # "handler" /\ u # "closer"
  BY DEF Workers, Threads
<1>3. <<c, t>> \notin Conns \X {"handler"} /\ (t \in Workers <=> <<c, t>> \in Conns \X Workers)
  BY DEF Threads
<1>4. t = "closer" => t \notin Workers
  BY DEF Workers
<1> HIDE DEF Workers
<1> QED  BY <1>1, <1>2, <1>3, <1>4 DEF Working

\* The count when nothing starts or ends, when one ends, and when one starts.
LEMMA CountStays ==
  ASSUME CountInv, workers \in Nat, Working' = Working, UNCHANGED <<workers, drained>>, closing => closing'
  PROVE  CountInv' /\ workers' \in Nat
BY DEF CountInv

LEMMA CountLeaves ==
  ASSUME CountInv, workers \in Nat, NEW x \in Working, Working' = Working \ {x},
         workers' = workers - 1, UNCHANGED <<closing, drained>>
  PROVE  CountInv' /\ workers' \in Nat
<1>1. IsFiniteSet(Working') /\ Cardinality(Working') = Cardinality(Working) - 1
  BY FS_RemoveElement DEF CountInv
<1>2. Cardinality(Working') \in Nat
  BY <1>1, FS_CardinalityType
<1> QED  BY <1>1, <1>2 DEF CountInv

LEMMA CountEnters ==
  ASSUME CountInv, workers \in Nat, NEW x, x \notin Working, Working' = Working \cup {x},
         workers' = workers + 1, ~closing, UNCHANGED <<closing, drained>>
  PROVE  CountInv' /\ workers' \in Nat
<1>1. IsFiniteSet(Working') /\ Cardinality(Working') = Cardinality(Working) + 1
  BY FS_AddElement DEF CountInv
<1> QED  BY <1>1 DEF CountInv

\* Two more of what is counted.
LEMMA NatPlusTwo == \A m, n : m \in Nat /\ n = m + 2 => n \in Nat
OBVIOUS

LEMMA TwoMore ==
  ASSUME NEW S, IsFiniteSet(S), NEW x, NEW y, x \notin S, y \notin S, x # y
  PROVE  IsFiniteSet(S \cup {x, y}) /\ Cardinality(S \cup {x, y}) = Cardinality(S) + 2
<1>1. IsFiniteSet(S \cup {x}) /\ Cardinality(S \cup {x}) = Cardinality(S) + 1
  BY FS_AddElement
<1>2. IsFiniteSet((S \cup {x}) \cup {y}) /\ Cardinality((S \cup {x}) \cup {y}) = Cardinality(S \cup {x}) + 1
  BY <1>1, FS_AddElement
<1>3. (S \cup {x}) \cup {y} = S \cup {x, y}
  OBVIOUS
<1>4. Cardinality(S) \in Nat
  BY FS_CardinalityType
<1>5. Cardinality(S \cup {x}) + 1 = Cardinality(S) + 2
  BY <1>1, <1>4
<1> QED  BY <1>2, <1>3, <1>5

\* A registered upgrade: the handler goes on and both workers of the socket start.
LEMMA CountRegisters ==
  ASSUME CountInv, Shapes, workers \in Nat, NEW c \in Conns, RegisterSocket(c), ~closing,
         \A t \in Threads : at[c, t] = "none"
  PROVE  CountInv' /\ workers' \in Nat
<1> DEFINE x == <<c, "writer">>
           y == <<c, "reader">>
<1>1. /\ \A p \in Conns \X Threads : at'[p] = IF p \in {x, y} THEN "run" ELSE at[p]
      /\ workers' = workers + 2 /\ UNCHANGED <<closing, drained>>
      /\ \A d \in Conns : handler'[d] \in UnderWay <=> handler[d] \in UnderWay
  BY DEF RegisterSocket, HandlerAt, Shapes, endVars, Threads, UnderWay
<1>2. /\ {x, y} \subseteq Conns \X Workers /\ Conns \X Workers \subseteq Conns \X Threads
      /\ at[x] = "none" /\ at[y] = "none" /\ x # y
  <2>1. Workers \subseteq Threads /\ "writer" \in Workers /\ "reader" \in Workers
    BY DEF Workers, Threads
  <2>2. x \in Conns \X Workers /\ y \in Conns \X Workers
    BY <2>1
  <2> QED  BY <2>1, <2>2
<1>3. x \notin Conns \X {"handler"} /\ y \notin Conns \X {"handler"}
  OBVIOUS
<1>4. \A p \in Conns \X {"handler"} : handler'[p[1]] \in UnderWay <=> handler[p[1]] \in UnderWay
  BY <1>1
<1>5. x \notin Working /\ y \notin Working
  BY <1>2, <1>3 DEF Working
<1>6. Working' = Working \cup {x, y}
  <2> HIDE DEF Workers, x, y
  <2> QED  BY <1>1, <1>2, <1>4 DEF Working
<1>9. IsFiniteSet(Working') /\ Cardinality(Working') = Cardinality(Working) + 2
  BY <1>2, <1>5, <1>6, TwoMore DEF CountInv
<1>10. drained' => closing' /\ Working' = {}
  BY <1>1 DEF CountInv
<1>11. workers' = Cardinality(Working') /\ workers' \in Nat
  <2>1. workers = Cardinality(Working)
    BY DEF CountInv
  <2>2. workers' = workers + 2
    BY <1>1
  <2> QED  BY <1>9, <2>1, <2>2, NatPlusTwo
<1> QED  BY <1>9, <1>10, <1>11 DEF CountInv

\* Every step keeps the count; a registration needs its connection to be new.
LEMMA CountKept ==
  ASSUME Shapes, workers \in Nat, CountInv, [Next]_vars,
         \A c \in Conns : handler[c] = "accepted" => \A t \in Threads : at[c, t] = "none",
         \A c \in Conns : at[c, "writer"] \notin {"close", "shake"} /\ at[c, "closer"] # "leave"
  PROVE  CountInv' /\ workers' \in Nat
<1> DEFINE Kept == CountInv' /\ workers' \in Nat
<1> SUFFICES Kept
  OBVIOUS
<1> HIDE DEF Kept
<1>a. ASSUME Working' = Working, UNCHANGED <<workers, drained>>, UNCHANGED closing \/ closing'
      PROVE  Kept
  <2>1. closing => closing'
    BY <1>a
  <2> QED  BY <1>a, <2>1, CountStays DEF Kept
<1>b. ASSUME NEW x \in Working, Working' = Working \ {x}, workers' = workers - 1, UNCHANGED <<closing, drained>>
      PROVE  Kept
  BY <1>b, CountLeaves DEF Kept
<1>c. ASSUME UNCHANGED <<handler, at>>  PROVE  Working' = Working
  BY <1>c DEF Working
<1> USE DEF HandlerPCs, ThreadPCs
<1>r. ASSUME NEW c \in Conns, handler[c] \in UnderWay, Refused(c), at' = at, UNCHANGED <<closing, drained>>
      PROVE  Kept
  <2>1. <<c, "handler">> \in Working /\ Working' = Working \ {<<c, "handler">>}
    BY <1>r, HandlerCounts DEF Refused, UnderWay
  <2> QED  BY <1>r, <2>1, <1>b DEF Refused
<1>1. ASSUME NEW c \in Conns, BeginAdmission(c) PROVE Kept
  <2>1. at' = at /\ UNCHANGED <<closing, drained>>
    BY <1>1 DEF BeginAdmission, socketVars, endVars
  <2>2. CASE closing
    <3>1. HandlerAt(c, "returned") /\ UNCHANGED workers /\ handler[c] = "new"
      BY <1>1, <2>2 DEF BeginAdmission
    <3>2. Working' = Working
      BY <2>1, <3>1, HandlerCounts DEF UnderWay
    <3> QED  BY <2>1, <3>1, <3>2, <1>a
  <2>3. CASE ~closing
    <3>1. HandlerAt(c, "entered") /\ workers' = workers + 1 /\ handler[c] = "new"
      BY <1>1, <2>3 DEF BeginAdmission
    <3>2. <<c, "handler">> \notin Working /\ Working' = Working \cup {<<c, "handler">>}
      BY <2>1, <3>1, HandlerCounts DEF UnderWay
    <3> QED  BY <2>1, <2>3, <3>1, <3>2, CountEnters DEF Kept
  <2> QED  BY <2>2, <2>3
<1>2. ASSUME NEW c \in Conns, CheckRequest(c) PROVE Kept
  <2>1. at' = at /\ UNCHANGED <<closing, drained>> /\ handler[c] = "entered"
    BY <1>2 DEF CheckRequest, socketVars, endVars
  <2>2. CASE Refused(c)
    BY <2>1, <2>2, <1>r DEF UnderWay
  <2>3. CASE HandlerAt(c, "cleared") /\ UNCHANGED workers
    <3>1. Working' = Working
      BY <2>1, <2>3, HandlerCounts DEF UnderWay
    <3> QED  BY <2>1, <2>3, <3>1, <1>a
  <2> QED  BY <1>2, <2>2, <2>3 DEF CheckRequest
<1>3. ASSUME NEW c \in Conns, Upgrade(c) PROVE Kept
  <2>1. at' = at /\ UNCHANGED <<closing, drained>> /\ handler[c] = "cleared"
    BY <1>3 DEF Upgrade, socketVars, endVars
  <2>2. CASE Refused(c)
    BY <2>1, <2>2, <1>r DEF UnderWay
  <2>3. CASE HandlerAt(c, "accepted") /\ UNCHANGED workers
    <3>1. Working' = Working
      BY <2>1, <2>3, HandlerCounts DEF UnderWay
    <3> QED  BY <2>1, <2>3, <3>1, <1>a
  <2> QED  BY <1>3, <2>2, <2>3 DEF Upgrade
<1>4. ASSUME NEW c \in Conns, RegisterSocket(c) PROVE Kept
  <2>1. CASE closing
    BY <1>4, <2>1, <1>r DEF RegisterSocket, UnderWay, endVars
  <2>2. CASE ~closing
    BY <1>4, <2>2, CountRegisters DEF RegisterSocket, Kept
  <2> QED  BY <2>1, <2>2
<1>5. ASSUME NEW c \in Conns, HandlerReturns(c) PROVE Kept
  BY <1>5, <1>r DEF HandlerReturns, UnderWay, socketVars, endVars
<1>6. ASSUME NEW c \in Conns, CancelAdmission(c) PROVE Kept
  BY <1>6, <1>a, <1>c DEF CancelAdmission, socketVars, hubVars, endVars
<1>7. ASSUME NEW c \in Conns, PeerGoes(c) PROVE Kept
  BY <1>7, <1>a, <1>c DEF PeerGoes, requestVars, hubVars, endVars
<1>m. ASSUME NEW c \in Conns, NEW t \in Threads, NEW label \in ThreadPCs, Move(c, t, label),
             at[c, t] \notin {"none", "done"}, label \notin {"none", "done"} \/ t = "closer",
             UNCHANGED <<handler, workers, drained, closing>>
      PROVE  Kept
  <2>1. t \in Workers \/ t = "closer"
    BY DEF Threads, Workers
  <2>2. Working' = Working
    BY <1>m, <2>1, ThreadCounts
  <2> QED  BY <1>m, <2>2, <1>a
<1>8. ASSUME NEW c \in Conns, ProtocolViolation(c) PROVE Kept
  BY <1>8, <1>m DEF ProtocolViolation, Threads, requestVars, hubVars, endVars
<1>9. ASSUME NEW c \in Conns, NEW t \in Threads, Teardown(c, t) PROVE Kept
  BY <1>9, <1>m DEF Teardown, Ends, requestVars, endVars
<1>10. ASSUME NEW c \in Conns, NEW t \in Threads, BeginClose(c, t) PROVE Kept
  <2>1. t # "writer" /\ at[c, t] = "close" /\ AfterClose(t) \in {"teardown", "done"}
        /\ (t # "closer" => AfterClose(t) = "teardown")
    BY <1>10 DEF BeginClose, AfterClose, Threads
  <2>2. UNCHANGED <<handler, workers, drained, closing>>
    BY <1>10 DEF BeginClose, requestVars, endVars
  <2>3. CASE Move(c, t, "shake")
    BY <2>1, <2>2, <2>3, <1>m
  <2>4. CASE Move(c, t, AfterClose(t))
    BY <2>1, <2>2, <2>4, <1>m
  <2> QED  BY <1>10, <2>3, <2>4 DEF BeginClose
<1>11. ASSUME NEW c \in Conns, NEW t \in Threads, EndClose(c, t) PROVE Kept
  <2>1. t # "writer" /\ at[c, t] = "shake" /\ AfterClose(t) \in {"teardown", "done"}
        /\ (t # "closer" => AfterClose(t) = "teardown")
    BY <1>11 DEF EndClose, AfterClose, Threads
  <2>2. UNCHANGED <<handler, workers, drained, closing>> /\ Move(c, t, AfterClose(t))
    BY <1>11 DEF EndClose, requestVars, hubVars, endVars
  <2> QED  BY <2>1, <2>2, <1>m
<1>12. ASSUME NEW c \in Conns, NEW t \in Threads, WorkerLeaves(c, t) PROVE Kept
  <2>1. t \in Workers /\ at[c, t] = "leave" /\ Move(c, t, "done") /\ workers' = workers - 1
        /\ UNCHANGED <<handler, closing, drained>>
    BY <1>12 DEF WorkerLeaves, Workers, Threads, requestVars, endVars
  <2>2. <<c, t>> \in Working /\ Working' = Working \ {<<c, t>>}
    BY <2>1, ThreadCounts
  <2> QED  BY <2>1, <2>2, <1>b
<1>13. CASE TakePending
  <2>1. Working' = Working /\ UNCHANGED <<workers, drained, closing>>
    BY <1>13, <1>c DEF TakePending, requestVars, socketVars, endVars
  <2> QED  BY <2>1, <1>a
<1>14. CASE RunRequest
  <2>1. UNCHANGED <<handler, workers, drained, closing>>
    BY <1>14 DEF RunRequest, requestVars, hubVars, endVars
  <2>2. PICK c \in Conns : Attach(c) \/ Detach(c)
    BY <1>14, FirstRuns
  <2>3. Working' = Working
    <3>1. at' = at \/ Move(c, "closer", "close")
      BY <2>2 DEF Attach, Detach
    <3> QED  BY <2>1, <3>1, <1>c, ThreadCounts DEF Threads
  <2> QED  BY <2>1, <2>3, <1>a
<1>15. CASE Shutdown
  <2>1. Working' = Working /\ UNCHANGED <<workers, drained>> /\ closing'
    BY <1>15, <1>c DEF Shutdown, requestVars, socketVars
  <2> QED  BY <2>1, <1>a
<1>16. ASSUME NEW c \in Conns, DrainCloses(c) PROVE Kept
  BY <1>16, <1>a, <1>c DEF DrainCloses, requestVars, hubVars
<1>17. CASE DrainEnds
  <2>1. Working' = Working /\ Working = {}
    BY <1>17, <1>c, FS_EmptySet DEF DrainEnds, requestVars, socketVars, CountInv
  <2> QED  BY <1>17, <2>1 DEF DrainEnds, hubVars, CountInv, Kept
<1>18. CASE UNCHANGED vars
  <2>1. Working' = Working /\ UNCHANGED <<workers, drained, closing>>
    BY <1>18, <1>c DEF vars, requestVars, socketVars, hubVars, endVars
  <2> QED  BY <2>1, <1>a
<1> QED
  BY <1>1, <1>2, <1>3, <1>4, <1>5, <1>6, <1>7, <1>8, <1>9, <1>10, <1>11, <1>12, <1>13, <1>14,
     <1>15, <1>16, <1>17, <1>18
  DEF Next, HandlerStep, ThreadStep, SimStep

-----------------------------------------------------------------------------
\* The goroutines of a socket.

\* A goroutine that moves, but not the last worker out of a registered socket.
LEMMA SocketMoves ==
  ASSUME Shapes, SocketInv, NEW c \in Conns, NEW t \in Threads, NEW label \in ThreadPCs, Move(c, t, label),
         label # "none", t = "closer" \/ at[c, t] # "none",
         t = "writer" => label \notin {"close", "shake"},
         t = "closer" => label \notin {"run", "teardown", "leave"},
         sockets' \subseteq sockets,
         t = "closer" \/ label # "done" \/ c \notin sockets'
           \/ \E u \in Workers \ {t} : at[c, u] \notin {"none", "done"}
  PROVE  SocketInv'
<1>1. \A d \in Conns, u \in Threads : at'[d, u] = IF d = c /\ u = t THEN label ELSE at[d, u]
  BY DEF Shapes, Move
<1>2. \A d \in Conns : at'[d, "writer"] = "none" <=> at'[d, "reader"] = "none"
  BY <1>1 DEF SocketInv, Threads
<1>3. \A d \in Conns : at'[d, "writer"] \notin {"close", "shake"}
  BY <1>1 DEF SocketInv, Threads
<1>4. \A d \in Conns : at'[d, "closer"] \notin {"run", "teardown", "leave"}
  BY <1>1 DEF SocketInv, Threads
<1>5. ASSUME NEW d \in sockets' PROVE \E u \in Workers : at'[d, u] \notin {"none", "done"}
  <2>1. d \in Conns /\ d \in sockets /\ Workers \subseteq Threads /\ "closer" \notin Workers
    BY <1>5 DEF Shapes, Workers, Threads
  <2>2. PICK u \in Workers : at[d, u] \notin {"none", "done"}
    BY <2>1 DEF SocketInv
  <2>3. CASE ~(d = c /\ u = t)
    BY <1>1, <2>1, <2>2, <2>3
  <2>4. CASE d = c /\ u = t /\ label # "done"
    BY <1>1, <2>1, <2>4
  <2>5. CASE d = c /\ u = t /\ label = "done"
    <3>1. PICK v \in Workers \ {t} : at[c, v] \notin {"none", "done"}
      BY <1>5, <2>1, <2>5
    <3> QED  BY <1>1, <2>1, <2>5, <3>1
  <2> QED  BY <2>3, <2>4, <2>5
<1> QED  BY <1>2, <1>3, <1>4, <1>5 DEF SocketInv

LEMMA SocketStays ==
  ASSUME SocketInv, UNCHANGED <<at, sockets>>
  PROVE  SocketInv'
BY DEF SocketInv, Workers

\* Every step keeps them.
LEMMA SocketKept ==
  ASSUME Shapes, SocketInv, [Next]_vars
  PROVE  SocketInv'
<1> DEFINE Kept == SocketInv'
<1> SUFFICES Kept
  OBVIOUS
<1> HIDE DEF Kept
<1>s. ASSUME UNCHANGED <<at, sockets>> PROVE Kept
  BY <1>s, SocketStays DEF Kept
<1>m. ASSUME NEW c \in Conns, NEW t \in Threads, NEW label \in ThreadPCs \ {"none", "done"}, Move(c, t, label),
             t = "closer" \/ at[c, t] # "none",
             t = "writer" => label \notin {"close", "shake"},
             t = "closer" => label \notin {"run", "teardown", "leave"}, sockets' = sockets
      PROVE  Kept
  BY <1>m, SocketMoves DEF Kept
<1>1. ASSUME NEW c \in Conns, BeginAdmission(c) PROVE Kept
  BY <1>1, <1>s DEF BeginAdmission, socketVars
<1>2. ASSUME NEW c \in Conns, CheckRequest(c) PROVE Kept
  BY <1>2, <1>s DEF CheckRequest, socketVars
<1>3. ASSUME NEW c \in Conns, Upgrade(c) PROVE Kept
  BY <1>3, <1>s DEF Upgrade, socketVars
<1>4. ASSUME NEW c \in Conns, RegisterSocket(c) PROVE Kept
  <2>1. CASE closing
    BY <1>4, <2>1, <1>s DEF RegisterSocket
  <2>2. CASE ~closing
    <3>1. /\ sockets' = sockets \cup {c} /\ sockets \subseteq Conns
          /\ \A d \in Conns, u \in Threads : at'[d, u] = IF d = c /\ u \in Workers THEN "run" ELSE at[d, u]
      BY <1>4, <2>2 DEF RegisterSocket, Shapes, Workers, Threads
    <3>2. \A d \in Conns : at'[d, "writer"] = "none" <=> at'[d, "reader"] = "none"
      BY <3>1 DEF SocketInv, Workers, Threads
    <3>3. \A d \in Conns : at'[d, "writer"] \notin {"close", "shake"}
      BY <3>1 DEF SocketInv, Workers, Threads
    <3>4. \A d \in Conns : at'[d, "closer"] \notin {"run", "teardown", "leave"}
      BY <3>1 DEF SocketInv, Workers, Threads
    <3>5. ASSUME NEW d \in sockets' PROVE \E u \in Workers : at'[d, u] \notin {"none", "done"}
      <4>1. CASE d = c
        BY <3>1, <4>1 DEF Workers, Threads
      <4>2. CASE d # c
        BY <3>1, <3>5, <4>2 DEF SocketInv, Workers, Threads
      <4> QED  BY <4>1, <4>2
    <3> QED  BY <3>2, <3>3, <3>4, <3>5 DEF SocketInv, Kept
  <2> QED  BY <2>1, <2>2
<1>5. ASSUME NEW c \in Conns, HandlerReturns(c) PROVE Kept
  BY <1>5, <1>s DEF HandlerReturns, socketVars
<1>6. ASSUME NEW c \in Conns, CancelAdmission(c) PROVE Kept
  BY <1>6, <1>s DEF CancelAdmission, socketVars, hubVars
<1>7. ASSUME NEW c \in Conns, PeerGoes(c) PROVE Kept
  BY <1>7, <1>s DEF PeerGoes, hubVars
<1>8. ASSUME NEW c \in Conns, ProtocolViolation(c) PROVE Kept
  BY <1>8, <1>m DEF ProtocolViolation, Threads, ThreadPCs, hubVars
<1>9. ASSUME NEW c \in Conns, NEW t \in Threads, Teardown(c, t) PROVE Kept
  <2>1. t # "closer" /\ at[c, t] # "none" /\ Move(c, t, "leave") /\ sockets' = sockets
    BY <1>9 DEF Teardown, Ends, SocketInv
  <2> QED  BY <2>1, <1>m DEF ThreadPCs
<1>c. ASSUME NEW c \in Conns, NEW t \in Threads, at[c, t] \in {"close", "shake"}, Move(c, t, AfterClose(t)),
             sockets' = sockets
      PROVE  Kept
  <2>1. CASE t = "reader"
    BY <1>c, <2>1, <1>m DEF AfterClose, ThreadPCs
  <2>2. CASE t = "closer"
    BY <1>c, <2>2, SocketMoves DEF AfterClose, ThreadPCs, Kept
  <2> QED  BY <1>c, <2>1, <2>2 DEF SocketInv, Threads
<1>10. ASSUME NEW c \in Conns, NEW t \in Threads, BeginClose(c, t) PROVE Kept
  <2>1. at[c, t] = "close" /\ sockets' = sockets
    BY <1>10 DEF BeginClose
  <2>2. CASE Move(c, t, "shake")
    BY <2>1, <2>2, <1>m DEF ThreadPCs, SocketInv
  <2>3. CASE Move(c, t, AfterClose(t))
    BY <2>1, <2>3, <1>c
  <2> QED  BY <1>10, <2>2, <2>3 DEF BeginClose
<1>11. ASSUME NEW c \in Conns, NEW t \in Threads, EndClose(c, t) PROVE Kept
  BY <1>11, <1>c DEF EndClose, hubVars
<1>12. ASSUME NEW c \in Conns, NEW t \in Threads, WorkerLeaves(c, t) PROVE Kept
  <2>1. t \in Workers /\ at[c, t] = "leave" /\ Move(c, t, "done") /\ sockets' \subseteq sockets
    BY <1>12 DEF WorkerLeaves, SocketInv, Workers, Threads
  <2> DEFINE u == IF t = "writer" THEN "reader" ELSE "writer"
  <2>2. u \in Workers \ {t} /\ \A v \in Workers : v = t \/ v = u
    BY <2>1 DEF Workers
  <2>3. at[c, u] # "none"
    BY <2>1, <2>2 DEF SocketInv, Workers
  <2>4. c \notin sockets' \/ at[c, u] # "done"
    BY <1>12, <2>2 DEF WorkerLeaves, Workers
  <2> QED  BY <2>1, <2>3, <2>4, SocketMoves DEF ThreadPCs, Kept, Workers
<1>13. CASE TakePending
  BY <1>13, <1>s DEF TakePending, socketVars
<1>14. CASE RunRequest
  <2>1. sockets' = sockets
    BY <1>14 DEF RunRequest, hubVars
  <2>2. PICK c \in Conns : Attach(c) \/ Detach(c)
    BY <1>14, FirstRuns
  <2>3. CASE at' = at
    BY <2>1, <2>3, <1>s
  <2>4. CASE Move(c, "closer", "close")
    BY <2>1, <2>4, <1>m DEF Threads, ThreadPCs
  <2> QED  BY <2>2, <2>3, <2>4 DEF Attach, Detach
<1>15. CASE Shutdown
  BY <1>15, <1>s DEF Shutdown, socketVars
<1>16. ASSUME NEW c \in Conns, DrainCloses(c) PROVE Kept
  BY <1>16, <1>s DEF DrainCloses, hubVars
<1>17. CASE DrainEnds
  BY <1>17, <1>s DEF DrainEnds, socketVars, hubVars
<1>18. CASE UNCHANGED vars
  BY <1>18, <1>s DEF vars, socketVars, hubVars
<1> QED
  BY <1>1, <1>2, <1>3, <1>4, <1>5, <1>6, <1>7, <1>8, <1>9, <1>10, <1>11, <1>12, <1>13, <1>14,
     <1>15, <1>16, <1>17, <1>18
  DEF Next, HandlerStep, ThreadStep, SimStep

-----------------------------------------------------------------------------
\* The queue of the simulation goroutine.

LEMMA QueueTyped ==
  ASSUME Shapes
  PROVE  Queue \in Seq(Requests)
BY DEF Shapes, Queue

\* Two sequences one after the other.
LEMMA Joined ==
  ASSUME NEW S, NEW a \in Seq(S), NEW b \in Seq(S)
  PROVE  /\ Len(a \o b) = Len(a) + Len(b)
         /\ \A i \in 1 .. Len(a) : (a \o b)[i] = a[i]
         /\ \A i \in 1 .. Len(b) : (a \o b)[Len(a) + i] = b[i]
         /\ \A i \in 1 .. Len(a \o b) : i \in 1 .. Len(a) \/ (i - Len(a)) \in 1 .. Len(b)
OBVIOUS

LEMMA NothingQueued == 1 .. Len(<<>>) = {}
OBVIOUS

\* What is queued is in the one queue.
LEMMA HasQueued ==
  ASSUME Shapes, NEW op, NEW c
  PROVE  Has(op, c) <=> Queued(op, c)
<1> DEFINE r == Request(op, c)
<1>1. batch \in Seq(Requests) /\ pending \in Seq(Requests)
  BY DEF Shapes
<1> HIDE DEF r
<1>2. ASSUME NEW i \in 1 .. Len(batch \o pending), (batch \o pending)[i] = r
      PROVE  \/ \E k \in 1 .. Len(batch) : batch[k] = r
             \/ \E k \in 1 .. Len(pending) : pending[k] = r
  <2>1. CASE i \in 1 .. Len(batch)
    BY <1>1, <1>2, <2>1, Joined
  <2>2. CASE (i - Len(batch)) \in 1 .. Len(pending)
    <3>1. Len(batch) + (i - Len(batch)) = i
      BY <1>1
    <3>2. pending[i - Len(batch)] = r
      BY <1>1, <1>2, <2>2, <3>1, Joined
    <3> QED  BY <2>2, <3>2
  <2> QED  BY <1>1, <2>1, <2>2, Joined
<1>3. ASSUME NEW k \in 1 .. Len(batch), batch[k] = r
      PROVE  \E i \in 1 .. Len(batch \o pending) : (batch \o pending)[i] = r
  <2>1. k \in 1 .. Len(batch \o pending) /\ (batch \o pending)[k] = r
    BY <1>1, <1>3, Joined
  <2> QED  BY <2>1
<1>4. ASSUME NEW k \in 1 .. Len(pending), pending[k] = r
      PROVE  \E i \in 1 .. Len(batch \o pending) : (batch \o pending)[i] = r
  <2>1. Len(batch) + k \in 1 .. Len(batch \o pending) /\ (batch \o pending)[Len(batch) + k] = r
    BY <1>1, <1>4, Joined
  <2> QED  BY <2>1
<1>5. DOMAIN batch = 1 .. Len(batch) /\ DOMAIN pending = 1 .. Len(pending)
  BY <1>1
<1> QED  BY <1>2, <1>3, <1>4, <1>5 DEF Has, Queue, Queued, r

\* What scheduling and running do to it.
LEMMA QueueGrows ==
  ASSUME Shapes, NEW op, NEW c, ~closing, Enqueue(op, c), batch' = batch
  PROVE  Queue' = Append(Queue, Request(op, c))
<1> DEFINE r == Request(op, c)
<1>1. batch \in Seq(Requests) /\ pending \in Seq(Requests) /\ pending' = Append(pending, r)
  BY DEF Shapes, Enqueue
<1> HIDE DEF r
<1>2. \A S, T, x : S \in Seq(Requests) /\ T \in Seq(Requests) => S \o Append(T, x) = Append(S \o T, x)
  OBVIOUS
<1> QED  BY <1>1, <1>2 DEF Queue, r

LEMMA QueueShrinks ==
  ASSUME Shapes, batch # <<>>, batch' = Tail(batch), pending' = pending
  PROVE  Queue # <<>> /\ Queue' = Tail(Queue) /\ Head(Queue) = Head(batch)
<1>1. batch \in Seq(Requests) /\ pending \in Seq(Requests)
  BY DEF Shapes
<1>2. \A S, T : S \in Seq(Requests) /\ T \in Seq(Requests) /\ S # <<>>
        => S \o T # <<>> /\ Tail(S) \o T = Tail(S \o T) /\ Head(S) = Head(S \o T)
  OBVIOUS
<1> QED  BY <1>1, <1>2 DEF Queue

\* What is in a queue that grew.
LEMMA GrownQueue ==
  ASSUME NEW q \in Seq(Requests), NEW r
  PROVE  /\ Len(Append(q, r)) = Len(q) + 1
         /\ \A i \in 1 .. Len(q) : Append(q, r)[i] = q[i]
         /\ Append(q, r)[Len(q) + 1] = r
OBVIOUS

LEMMA HasGrows ==
  ASSUME Queue \in Seq(Requests), NEW op, NEW c, Queue' = Append(Queue, Request(op, c))
  PROVE  \A o, d : Has(o, d)' <=> Has(o, d) \/ (o = op /\ d = c)
<1> DEFINE r == Request(op, c)
<1>1. \A o, d : Request(o, d) = r <=> o = op /\ d = c
  BY DEF Request
<1> HIDE DEF r
<1>2. /\ Len(Queue') = Len(Queue) + 1 /\ Len(Queue) \in Nat
      /\ \A i \in 1 .. Len(Queue) : Queue'[i] = Queue[i]
      /\ Queue'[Len(Queue) + 1] = r
  BY GrownQueue DEF r
<1>3. \A x : (\E i \in 1 .. Len(Queue') : Queue'[i] = x) <=> (\E i \in 1 .. Len(Queue) : Queue[i] = x) \/ x = r
  BY <1>2
<1>4. \A o, d : Has(o, d)' <=> \E i \in 1 .. Len(Queue') : Queue'[i] = Request(o, d)
  BY DEF Has
<1> QED  BY <1>1, <1>3, <1>4 DEF Has

LEMMA OrderedGrows ==
  ASSUME Queue \in Seq(Requests), Ordered, NEW op, NEW c, Queue' = Append(Queue, Request(op, c)),
         op = "detach" \/ ~Has("detach", c)
  PROVE  Ordered'
<1>1. /\ Len(Queue') = Len(Queue) + 1 /\ Len(Queue) \in Nat
      /\ \A i \in 1 .. Len(Queue) : Queue'[i] = Queue[i]
      /\ Queue'[Len(Queue) + 1] = Request(op, c)
  BY GrownQueue
<1>2. ASSUME NEW d \in Conns, NEW i \in 1 .. Len(Queue'), NEW j \in 1 .. Len(Queue'), i < j,
             Queue'[i] = Request("detach", d)
      PROVE  Queue'[j] # Request("attach", d)
  <2>1. i \in 1 .. Len(Queue) /\ Queue[i] = Request("detach", d)
    BY <1>1, <1>2
  <2>2. CASE j \in 1 .. Len(Queue)
    BY <1>1, <1>2, <2>1, <2>2 DEF Ordered
  <2>3. CASE j = Len(Queue) + 1
    <3>1. Has("detach", d)
      BY <2>1 DEF Has
    <3>2. Request(op, c) # Request("attach", d)
      BY <3>1 DEF Request
    <3> QED  BY <1>1, <2>3, <3>2
  <2> QED  BY <1>1, <2>2, <2>3
<1> QED  BY <1>2 DEF Ordered

\* What is in a queue whose first request runs.
LEMMA HasShrinks ==
  ASSUME Queue \in Seq(Requests), Queue # <<>>, Queue' = Tail(Queue)
  PROVE  \A o, d : /\ Has(o, d)' => Has(o, d)
                   /\ Has(o, d) => Has(o, d)' \/ Head(Queue) = Request(o, d)
                   /\ Head(Queue) = Request(o, d) => Has(o, d)
<1>1. /\ Len(Queue') = Len(Queue) - 1 /\ Len(Queue) \in Nat \ {0} /\ Head(Queue) = Queue[1]
      /\ \A i \in 1 .. Len(Queue') : Queue'[i] = Queue[i + 1]
  OBVIOUS
<1>2. \A x : (\E i \in 1 .. Len(Queue') : Queue'[i] = x) => \E i \in 1 .. Len(Queue) : Queue[i] = x
  BY <1>1
<1>3. ASSUME NEW x, NEW i \in 1 .. Len(Queue), Queue[i] = x, Head(Queue) # x
      PROVE  \E k \in 1 .. Len(Queue') : Queue'[k] = x
  <2>1. i - 1 \in 1 .. Len(Queue') /\ (i - 1) + 1 = i
    BY <1>1, <1>3
  <2> QED  BY <1>1, <1>3, <2>1
<1>4. \A o, d : Has(o, d)' <=> \E i \in 1 .. Len(Queue') : Queue'[i] = Request(o, d)
  BY DEF Has
<1>5. 1 \in 1 .. Len(Queue)
  BY <1>1
<1> QED  BY <1>1, <1>2, <1>3, <1>4, <1>5 DEF Has

LEMMA OrderedShrinks ==
  ASSUME Queue \in Seq(Requests), Queue # <<>>, Ordered, Queue' = Tail(Queue)
  PROVE  /\ Ordered'
         /\ \A c \in Conns : Head(Queue) = Request("detach", c) => ~Has("attach", c)'
<1>1. /\ Len(Queue') = Len(Queue) - 1 /\ Len(Queue) \in Nat \ {0} /\ Head(Queue) = Queue[1]
      /\ \A i \in 1 .. Len(Queue') : Queue'[i] = Queue[i + 1] /\ i + 1 \in 1 .. Len(Queue) /\ 1 < i + 1
  OBVIOUS
<1>2. ASSUME NEW d \in Conns, NEW i \in 1 .. Len(Queue'), NEW j \in 1 .. Len(Queue'), i < j,
             Queue'[i] = Request("detach", d)
      PROVE  Queue'[j] # Request("attach", d)
  BY <1>1, <1>2 DEF Ordered
<1>3. ASSUME NEW c \in Conns, Head(Queue) = Request("detach", c)
      PROVE  \A i \in 1 .. Len(Queue') : Queue'[i] # Request("attach", c)
  BY <1>1, <1>3 DEF Ordered
<1> QED  BY <1>2, <1>3 DEF Ordered, Has

-----------------------------------------------------------------------------
\* Attachments and releases.

\* A step that schedules nothing and attaches nobody: handlers and goroutines of
\* registered sockets move, and a socket is ended once it has nothing to let go.
LEMMA AttachMoves ==
  ASSUME Shapes, AttachInv, Queue' = Queue, UNCHANGED <<conns, closing>>,
         \A d \in Conns : \/ Registered(d)'
                          \/ ~Registered(d) /\ once'[d] = once[d] /\ \A t \in Threads : at'[d, t] = at[d, t],
         \A d \in Conns : once[d] # "free" => once'[d] # "free",
         \A d \in Conns : once'[d] # once[d] => once[d] # "free" \/ closing,
         \A d \in Conns, t \in Threads : at'[d, t] = "shake" => at[d, t] = "shake" \/ once'[d] # "free"
  PROVE  AttachInv'
<1>1. Queue' = Queue /\ Ordered' /\ \A o, d : Has(o, d)' <=> Has(o, d)
  <2>2. Ordered'
    BY DEF Ordered, AttachInv
  <2>3. \A o, d : Has(o, d)' <=> Has(o, d)
    BY DEF Has
  <2> QED  BY <2>2, <2>3
<1>2. \A d \in Conns : Holds(d)' <=> Holds(d)
  BY <1>1 DEF Holds
<1>3. closing => \A d \in Conns : ~Holds(d)
  <2>1. ASSUME closing, NEW d \in Conns PROVE ~Has("attach", d)
    <3>1. Queue = <<>>
      BY <2>1 DEF AttachInv
    <3>2. 1 .. Len(Queue) = {}
      BY <3>1, NothingQueued
    <3> QED  BY <3>2 DEF Has
  <2>2. ASSUME closing, NEW d \in Conns, NEW o \in Observers PROVE conns[o] # d
    BY <2>2, NoneIsNoConn DEF AttachInv
  <2> QED  BY <2>1, <2>2 DEF Holds
<1>4. Releasable'
  BY <1>1, <1>2, <1>3 DEF AttachInv, Releasable
<1>5. ASSUME NEW d \in Conns, ~Registered(d)' PROVE Unregistered(d)'
  <2>1. ~Registered(d) /\ once'[d] = once[d] /\ \A t \in Threads : at'[d, t] = at[d, t]
    BY <1>5
  <2>2. Unregistered(d)
    BY <2>1 DEF AttachInv
  <2> QED  BY <1>1, <2>1, <2>2 DEF Unregistered
<1>6. \A d \in Conns : Has("detach", d)' => once'[d] # "free"
  BY <1>1 DEF AttachInv
<1>7. \A d \in Conns, t \in Threads : at'[d, t] = "shake" => once'[d] # "free"
  BY DEF AttachInv
<1>8. \A o \in Observers : conns'[o] # None => ObserverOf[conns'[o]] = o
  BY DEF AttachInv
<1>9. closing' => Queue' = <<>> /\ \A o \in Observers : conns'[o] = None
  BY <1>1 DEF AttachInv
<1> QED  BY <1>1, <1>4, <1>5, <1>6, <1>7, <1>8, <1>9 DEF AttachInv

\* A socket that ends, in a hub that goes on, schedules its release.
LEMMA AttachEnds ==
  ASSUME Shapes, AttachInv, ~closing, NEW c \in Conns, Registered(c), Enqueue("detach", c),
         UNCHANGED <<handler, batch, conns, closing>>,
         \A d \in Conns : IF d = c THEN once'[d] # "free" ELSE once'[d] = once[d],
         \A d \in Conns, t \in Threads : at'[d, t] = at[d, t] \/ d = c
  PROVE  AttachInv'
<1>1. Queue \in Seq(Requests) /\ Queue' = Append(Queue, Request("detach", c))
  BY QueueTyped, QueueGrows
<1>2. \A o, d : Has(o, d)' <=> Has(o, d) \/ (o = "detach" /\ d = c)
  BY <1>1, HasGrows
<1>3. Ordered'
  BY <1>1, OrderedGrows DEF AttachInv
<1>4. \A d \in Conns : Holds(d)' <=> Holds(d)
  BY <1>2 DEF Holds
<1>5. Releasable'
  BY <1>2, <1>4 DEF AttachInv, Releasable
<1>6. ASSUME NEW d \in Conns, ~Registered(d)' PROVE Unregistered(d)'
  <2>1. d # c /\ once'[d] = once[d] /\ \A t \in Threads : at'[d, t] = at[d, t]
    BY <1>6 DEF Registered
  <2>2. Unregistered(d)
    BY <1>6 DEF AttachInv, Registered
  <2> QED  BY <1>2, <2>1, <2>2 DEF Unregistered
<1>7. \A d \in Conns : Has("detach", d)' => once'[d] # "free"
  BY <1>2 DEF AttachInv
<1>8. \A d \in Conns, t \in Threads : at'[d, t] = "shake" => once'[d] # "free"
  BY DEF AttachInv
<1> QED  BY <1>3, <1>5, <1>6, <1>7, <1>8 DEF AttachInv

\* A registered socket waits for its observer, with nothing of it ended.
LEMMA AttachRegisters ==
  ASSUME Shapes, AttachInv, ~closing, NEW c \in Conns, ~Registered(c), RegisterSocket(c)
  PROVE  AttachInv'
<1>0. Unregistered(c)
  BY DEF AttachInv
<1>1. /\ UNCHANGED <<once, batch, conns, closing>> /\ Enqueue("attach", c)
      /\ \A d \in Conns : d # c => handler'[d] = handler[d]
      /\ \A d \in Conns, t \in Threads : at'[d, t] = at[d, t] \/ (d = c /\ at'[d, t] = "run")
      /\ Registered(c)'
  BY DEF RegisterSocket, HandlerAt, Shapes, Threads, Registered, worldVars, endVars
<1>2. Queue \in Seq(Requests) /\ Queue' = Append(Queue, Request("attach", c))
  BY <1>1, QueueTyped, QueueGrows
<1>3. \A o, d : Has(o, d)' <=> Has(o, d) \/ (o = "attach" /\ d = c)
  BY <1>2, HasGrows
<1>4. Ordered'
  BY <1>0, <1>2, OrderedGrows DEF AttachInv, Unregistered
<1>5. \A d \in Conns : Holds(d)' <=> Holds(d) \/ d = c
  BY <1>1, <1>3 DEF Holds
<1>6. Releasable'
  BY <1>0, <1>1, <1>3, <1>5 DEF AttachInv, Releasable, Unregistered
<1>7. ASSUME NEW d \in Conns, ~Registered(d)' PROVE Unregistered(d)'
  <2>1. d # c /\ once'[d] = once[d] /\ \A t \in Threads : at'[d, t] = at[d, t]
    BY <1>1, <1>7
  <2>2. Unregistered(d)
    BY <1>1, <1>7, <2>1 DEF AttachInv, Registered
  <2> QED  BY <1>1, <1>3, <2>1, <2>2 DEF Unregistered
<1>8. \A d \in Conns : Has("detach", d)' => once'[d] # "free"
  BY <1>1, <1>3 DEF AttachInv
<1>9. \A d \in Conns, t \in Threads : at'[d, t] = "shake" => once'[d] # "free"
  BY <1>1 DEF AttachInv
<1> QED  BY <1>1, <1>4, <1>6, <1>7, <1>8, <1>9 DEF AttachInv

\* The simulation goroutine attaches or refuses a connection, or releases one.
LEMMA AttachRuns ==
  ASSUME Shapes, AttachInv, RunRequest
  PROVE  AttachInv'
<1>1. /\ ~closing /\ batch # <<>> /\ batch' = Tail(batch)
      /\ UNCHANGED <<pending, handler, once, closing>>
  BY DEF RunRequest, requestVars, hubVars, endVars
<1>3. PICK c \in Conns : \/ Head(batch) = Request("attach", c) /\ Attach(c)
                         \/ Head(batch) = Request("detach", c) /\ Detach(c)
  BY FirstRuns
<1>4. Queue \in Seq(Requests) /\ Queue # <<>> /\ Queue' = Tail(Queue) /\ Head(Queue) = Head(batch)
  BY <1>1, QueueTyped, QueueShrinks
<1>5. \A o, d : /\ Has(o, d)' => Has(o, d)
                /\ Has(o, d) => Has(o, d)' \/ Head(batch) = Request(o, d)
                /\ Head(batch) = Request(o, d) => Has(o, d)
  BY <1>4, HasShrinks
<1>6. Ordered'
  BY <1>4, OrderedShrinks DEF AttachInv
<1>7. Registered(c) /\ \A d \in Conns : Registered(d)' <=> Registered(d)
  BY <1>1, <1>3, <1>5 DEF AttachInv, Unregistered, Registered
<1>8. \A d \in Conns : Has("detach", d)' => once'[d] # "free"
  BY <1>1, <1>5 DEF AttachInv
<1>9. \A d \in Conns, t \in Threads : at'[d, t] = at[d, t] \/ (d = c /\ at'[d, t] = "close")
  BY <1>3 DEF Attach, Detach, Move, Shapes, Threads
<1>10. \A d \in Conns, t \in Threads : at'[d, t] = "shake" => once'[d] # "free"
  BY <1>1, <1>9 DEF AttachInv
<1>11. \A o \in Observers : conns'[o] = conns[o] \/ (o = ObserverOf[c] /\ conns'[o] \in {c, None})
  BY <1>3 DEF Attach, Detach, Vacant, Shapes
<1>12. \A o \in Observers : conns'[o] # None => ObserverOf[conns'[o]] = o
  BY <1>11 DEF AttachInv
<1>13. \A d \in Conns : Registered(d)' \/ Unregistered(d)'
  <2>1. ASSUME NEW d \in Conns, ~Registered(d) PROVE Unregistered(d)'
    <3>1. d # c /\ Unregistered(d)
      BY <1>7, <2>1 DEF AttachInv
    <3> QED  BY <1>1, <1>5, <1>9, <1>11, <3>1, NoneIsNoConn DEF Unregistered
  <2> QED  BY <1>7, <2>1
<1>14. Releasable'
  <2>1. ASSUME NEW d \in Conns, Holds(d)' PROVE once'[d] = "free" \/ Has("detach", d)'
    <3>1. Holds(d)
      <4>1. CASE Has("attach", d)'
        BY <1>5, <4>1 DEF Holds
      <4>2. ASSUME NEW o \in Observers, conns'[o] = d PROVE Holds(d)
        <5>1. CASE conns[o] = d
          BY <5>1 DEF Holds
        <5>2. CASE conns[o] # d
          <6>1. d = c /\ Head(batch) = Request("attach", c)
            BY <1>3, <1>11, <4>2, <5>2, NoneIsNoConn DEF Detach, Shapes
          <6> QED  BY <1>5, <6>1 DEF Holds
        <5> QED  BY <5>1, <5>2
      <4> QED  BY <2>1, <4>1, <4>2 DEF Holds
    <3>2. CASE Head(batch) # Request("detach", d)
      BY <1>1, <1>5, <3>1, <3>2 DEF AttachInv, Releasable
    <3>3. CASE Head(batch) = Request("detach", d)
      <4>1. d = c /\ Detach(c) /\ ~Has("attach", c)'
        <5>1. d = c /\ Detach(c)
          BY <1>3, <3>3 DEF Request
        <5>2. Head(Queue) = Request("detach", c) /\ Ordered
          BY <1>4, <3>3, <5>1 DEF AttachInv
        <5> QED  BY <1>4, <5>1, <5>2, OrderedShrinks
      <4>2. ASSUME NEW o \in Observers PROVE conns'[o] # c
        <5>1. CASE conns[o] = c
          BY <4>1, <5>1, NoneIsNoConn DEF Detach, AttachInv, Shapes
        <5>2. CASE conns[o] # c
          BY <4>1, <5>2, NoneIsNoConn DEF Detach, Shapes
        <5> QED  BY <5>1, <5>2
      <4> QED  BY <2>1, <4>1, <4>2 DEF Holds
    <3> QED  BY <3>2, <3>3
  <2> QED  BY <2>1 DEF Releasable
<1> QED  BY <1>1, <1>6, <1>8, <1>10, <1>12, <1>13, <1>14 DEF AttachInv

\* Shutdown leaves nothing scheduled and nobody attached.
LEMMA AttachShuts ==
  ASSUME Shapes, AttachInv, Shutdown
  PROVE  AttachInv'
<1>1. /\ UNCHANGED <<handler, once, at>>
      /\ \A o \in Observers : conns'[o] = None
      /\ batch' = <<>> /\ pending' = <<>>
  BY DEF Shutdown, requestVars, socketVars
<1>2. Queue' = <<>>
  BY <1>1 DEF Queue
<1>3. 1 .. Len(Queue') = {} /\ \A o, d : ~Has(o, d)'
  BY <1>2, NothingQueued DEF Has
<1>4. Ordered'
  BY <1>3 DEF Ordered
<1>5. \A d \in Conns : ~Holds(d)'
  BY <1>1, <1>3, NoneIsNoConn DEF Holds
<1>6. ASSUME NEW d \in Conns, ~Registered(d)' PROVE Unregistered(d)'
  BY <1>1, <1>3, <1>6, NoneIsNoConn DEF Unregistered, Registered, AttachInv
<1>7. \A d \in Conns, t \in Threads : at'[d, t] = "shake" => once'[d] # "free"
  BY <1>1 DEF AttachInv
<1> QED  BY <1>1, <1>2, <1>3, <1>4, <1>5, <1>6, <1>7 DEF AttachInv, Releasable

LEMMA AttachKept ==
  ASSUME Shapes, AttachInv, [Next]_vars
  PROVE  AttachInv'
<1> DEFINE Kept == AttachInv'
<1> SUFFICES Kept
  OBVIOUS
<1> HIDE DEF Kept
\* A handler that has not registered its socket moves.
<1>h. ASSUME NEW c \in Conns, NEW label \in HandlerPCs, HandlerAt(c, label),
             (~Registered(c) /\ label # "serving") \/ label = "returned",
             UNCHANGED <<at, once, batch, pending, conns, closing>>
      PROVE  Kept
  <2>1. \A d \in Conns : handler'[d] = IF d = c THEN label ELSE handler[d]
    BY <1>h DEF HandlerAt, Shapes
  <2>2. \A d \in Conns : Registered(d)' \/ ~Registered(d)
    BY <1>h, <2>1 DEF Registered
  <2>3. Queue' = Queue
    BY <1>h DEF Queue
  <2> QED  BY <1>h, <2>2, <2>3, AttachMoves DEF Kept
\* Nothing of it moves.
<1>s. ASSUME UNCHANGED <<handler, at, once, batch, pending, conns, closing>> PROVE Kept
  <2>1. \A d \in Conns : Registered(d)' <=> Registered(d)
    BY <1>s DEF Registered
  <2>2. Queue' = Queue
    BY <1>s DEF Queue
  <2> QED  BY <1>s, <2>1, <2>2, AttachMoves DEF Kept
\* A goroutine of a socket moves, and the socket may have ended already.
<1>m. ASSUME NEW c \in Conns, NEW t \in Threads, at[c, t] # "none", NEW label, Move(c, t, label),
             UNCHANGED <<handler, batch, pending, conns, closing>>,
             \A d \in Conns : once'[d] = once[d] \/ (d = c /\ once'[d] # "free" /\ (once[c] # "free" \/ closing)),
             label = "shake" => once'[c] # "free"
      PROVE  Kept
  <2>1. \A d \in Conns, u \in Threads : at'[d, u] = IF d = c /\ u = t THEN label ELSE at[d, u]
    BY <1>m DEF Move, Shapes
  <2>2. Registered(c) /\ \A d \in Conns : Registered(d)' <=> Registered(d)
    BY <1>m DEF AttachInv, Unregistered, Registered
  <2>3. Queue' = Queue
    BY <1>m DEF Queue
  <2> QED  BY <1>m, <2>1, <2>2, <2>3, AttachMoves DEF Kept
\* A goroutine ends its socket and schedules its release.
<1>e. ASSUME NEW c \in Conns, NEW t \in Threads, at[c, t] # "none", NEW label, Move(c, t, label),
             once[c] = "free", NEW held \in {"busy", "spent"}, once' = [once EXCEPT ![c] = held],
             Enqueue("detach", c), UNCHANGED <<handler, batch, conns, closing>>
      PROVE  Kept
  <2>1. \A d \in Conns, u \in Threads : at'[d, u] = at[d, u] \/ d = c
    BY <1>e DEF Move, Shapes
  <2>2. \A d \in Conns : once'[d] = IF d = c THEN held ELSE once[d]
    BY <1>e DEF Shapes
  <2>3. CASE closing
    <3>1. pending' = pending
      BY <1>e, <2>3 DEF Enqueue
    <3> QED  BY <1>e, <2>2, <2>3, <3>1, <1>m
  <2>4. CASE ~closing
    <3>1. Registered(c)
      BY <1>e DEF AttachInv, Unregistered
    <3>2. \A d \in Conns : IF d = c THEN once'[d] # "free" ELSE once'[d] = once[d]
      BY <1>e, <2>2
    <3> QED  BY <1>e, <2>1, <2>4, <3>1, <3>2, AttachEnds DEF Kept
  <2> QED  BY <2>3, <2>4
<1>1. ASSUME NEW c \in Conns, BeginAdmission(c) PROVE Kept
  BY <1>1, <1>h DEF BeginAdmission, Registered, HandlerPCs, socketVars, worldVars, endVars
<1>2. ASSUME NEW c \in Conns, CheckRequest(c) PROVE Kept
  BY <1>2, <1>h DEF CheckRequest, Refused, Registered, HandlerPCs, socketVars, worldVars, endVars
<1>3. ASSUME NEW c \in Conns, Upgrade(c) PROVE Kept
  BY <1>3, <1>h DEF Upgrade, Refused, Registered, HandlerPCs, socketVars, worldVars, endVars
<1>4. ASSUME NEW c \in Conns, RegisterSocket(c) PROVE Kept
  <2>1. CASE closing
    BY <1>4, <2>1, <1>h DEF RegisterSocket, Refused, HandlerPCs, worldVars, endVars
  <2>2. CASE ~closing
    BY <1>4, <2>2, AttachRegisters DEF RegisterSocket, Registered, Kept
  <2> QED  BY <2>1, <2>2
<1>5. ASSUME NEW c \in Conns, HandlerReturns(c) PROVE Kept
  BY <1>5, <1>h DEF HandlerReturns, Refused, HandlerPCs, socketVars, worldVars, endVars
<1>6. ASSUME NEW c \in Conns, CancelAdmission(c) PROVE Kept
  BY <1>6, <1>s DEF CancelAdmission, socketVars, worldVars, hubVars, endVars
<1>7. ASSUME NEW c \in Conns, PeerGoes(c) PROVE Kept
  BY <1>7, <1>s DEF PeerGoes, requestVars, worldVars, hubVars, endVars
<1>8. ASSUME NEW c \in Conns, ProtocolViolation(c) PROVE Kept
  BY <1>8, <1>m DEF ProtocolViolation, Threads, requestVars, worldVars, hubVars, endVars
<1>9. ASSUME NEW c \in Conns, NEW t \in Threads, Teardown(c, t) PROVE Kept
  <2>1. /\ at[c, t] # "none" /\ Move(c, t, "leave")
        /\ UNCHANGED <<handler, batch, conns, closing>>
    BY <1>9 DEF Teardown, Ends, requestVars, worldVars, endVars
  <2>2. CASE once[c] = "free"
    BY <1>9, <2>1, <2>2, <1>e DEF Teardown
  <2>3. CASE once[c] # "free"
    BY <1>9, <2>1, <2>3, <1>m DEF Teardown
  <2> QED  BY <2>2, <2>3
<1>10. ASSUME NEW c \in Conns, NEW t \in Threads, BeginClose(c, t) PROVE Kept
  <2>1. at[c, t] = "close" /\ UNCHANGED <<handler, batch, conns, closing>>
    BY <1>10 DEF BeginClose, requestVars, worldVars, endVars
  <2>2. CASE once[c] = "free"
    BY <1>10, <2>1, <2>2, <1>e DEF BeginClose
  <2>3. CASE once[c] # "free"
    BY <1>10, <2>1, <2>3, <1>m DEF BeginClose, AfterClose
  <2> QED  BY <2>2, <2>3
<1>11. ASSUME NEW c \in Conns, NEW t \in Threads, EndClose(c, t) PROVE Kept
  <2>1. at[c, t] = "shake" /\ Move(c, t, AfterClose(t)) /\ AfterClose(t) # "shake"
        /\ UNCHANGED <<handler, batch, pending, conns, closing>>
    BY <1>11 DEF EndClose, AfterClose, requestVars, worldVars, hubVars, endVars
  <2>2. once[c] # "free" /\ \A d \in Conns : once'[d] = IF d = c THEN "spent" ELSE once[d]
    BY <1>11, <2>1 DEF EndClose, AttachInv, Shapes
  <2> QED  BY <2>1, <2>2, <1>m
<1>12. ASSUME NEW c \in Conns, NEW t \in Threads, WorkerLeaves(c, t) PROVE Kept
  BY <1>12, <1>m DEF WorkerLeaves, requestVars, worldVars, endVars
<1>13. CASE TakePending
  <2>1. pending \in Seq(Requests)
    BY DEF Shapes
  <2>2. \A S : S \in Seq(Requests) => <<>> \o S = S /\ S \o <<>> = S
    OBVIOUS
  <2>3. Queue' = Queue
    BY <1>13, <2>1, <2>2 DEF TakePending, Queue
  <2>4. UNCHANGED <<handler, at, once, conns, closing>>
    BY <1>13 DEF TakePending, requestVars, socketVars, endVars
  <2>5. \A d \in Conns : Registered(d)' <=> Registered(d)
    BY <2>4 DEF Registered
  <2> QED  BY <2>3, <2>4, <2>5, AttachMoves DEF Kept
<1>14. CASE RunRequest
  BY <1>14, AttachRuns DEF Kept
<1>15. CASE Shutdown
  BY <1>15, AttachShuts DEF Kept
<1>16. ASSUME NEW c \in Conns, DrainCloses(c) PROVE Kept
  BY <1>16, <1>s DEF DrainCloses, requestVars, worldVars, hubVars
<1>17. CASE DrainEnds
  BY <1>17, <1>s DEF DrainEnds, requestVars, socketVars, worldVars, hubVars
<1>18. CASE UNCHANGED vars
  BY <1>18, <1>s DEF vars, requestVars, socketVars, worldVars, hubVars, endVars
<1> QED
  BY <1>1, <1>2, <1>3, <1>4, <1>5, <1>6, <1>7, <1>8, <1>9, <1>10, <1>11, <1>12, <1>13, <1>14,
     <1>15, <1>16, <1>17, <1>18
  DEF Next, HandlerStep, ThreadStep, SimStep

-----------------------------------------------------------------------------
\* Who is attached, and what is counted of it.
Attached == {o \in Observers : conns[o] # None}

LEMMA InterestKept ==
  ASSUME Shapes, InterestInv, [Next]_vars
  PROVE  InterestInv'
<1>1. interest = Attached /\ connected = Cardinality(interest) /\ IsFiniteSet(interest)
  BY DEF InterestInv, AttachedIsCounted, Attached
<1>2. CASE UNCHANGED <<conns, interest, connected>>
  <2>1. Attached' = Attached
    BY <1>2 DEF Attached
  <2> QED  BY <1>1, <1>2, <2>1 DEF InterestInv, AttachedIsCounted, Attached
<1>3. CASE Shutdown
  <2>1. interest' = {} /\ Attached' = {} /\ connected' = Cardinality(interest) - Cardinality(interest)
    BY <1>1, <1>3 DEF Shutdown, Attached
  <2>2. connected' = 0 /\ IsFiniteSet({}) /\ Cardinality({}) = 0
    BY <1>1, <2>1, FS_CardinalityType, FS_EmptySet
  <2> QED  BY <2>1, <2>2 DEF InterestInv, AttachedIsCounted, Attached
<1>4. CASE RunRequest
  <2>1. PICK c \in Conns : Attach(c) \/ Detach(c)
    BY <1>4, FirstRuns
  <2> DEFINE o == ObserverOf[c]
  <2>2. CASE Attach(c) /\ Vacant(o)
    <3>1. /\ o \in Observers /\ conns[o] = None
          /\ conns' = [conns EXCEPT ![o] = c] /\ interest' = interest \cup {o} /\ connected' = connected + 1
      BY <2>2 DEF Attach, Vacant
    <3>2. o \notin interest /\ Attached' = interest \cup {o}
      BY <1>1, <3>1, NoneIsNoConn DEF Attached, Shapes
    <3>3. IsFiniteSet(interest') /\ Cardinality(interest') = Cardinality(interest) + 1
      BY <1>1, <3>1, <3>2, FS_AddElement
    <3> QED  BY <1>1, <3>1, <3>2, <3>3 DEF InterestInv, AttachedIsCounted, Attached
  <2>3. CASE Detach(c) /\ o \in Observers /\ conns[o] = c
    <3>1. conns' = [conns EXCEPT ![o] = None] /\ interest' = interest \ {o} /\ connected' = connected - 1
      BY <2>3 DEF Detach
    <3>2. o \in interest /\ Attached' = interest \ {o}
      BY <1>1, <2>3, <3>1, NoneIsNoConn DEF Attached, Shapes
    <3>3. IsFiniteSet(interest') /\ Cardinality(interest') = Cardinality(interest) - 1
      BY <1>1, <3>1, <3>2, FS_RemoveElement
    <3> QED  BY <1>1, <3>1, <3>2, <3>3 DEF InterestInv, AttachedIsCounted, Attached
  <2>4. UNCHANGED <<conns, interest, connected>> \/ (Attach(c) /\ Vacant(o))
        \/ (Detach(c) /\ o \in Observers /\ conns[o] = c)
    BY <2>1 DEF Attach, Detach
  <2> QED  BY <1>2, <2>2, <2>3, <2>4
<1>5. ASSUME ~Shutdown, ~RunRequest PROVE UNCHANGED <<conns, interest, connected>>
  BY <1>5, OthersKeep
<1> QED  BY <1>2, <1>3, <1>4, <1>5

-----------------------------------------------------------------------------
\* The invariant, and what it says.

LEMMA HubInit == Init => HubInv
<1> SUFFICES ASSUME Init PROVE HubInv
  OBVIOUS
<1>1. Shapes /\ workers \in Nat /\ connected \in Nat
  <2>1. <<>> \in Seq(Requests)
    OBVIOUS
  <2> QED  BY <2>1 DEF Init, Shapes, HandlerPCs, ThreadPCs
<1>2. \A c \in Conns, t \in Threads : at[c, t] = "none"
  BY DEF Init
<1>3. Working = {}
  <2>1. \A p \in Conns \X Workers : at[p] = "none"
    BY DEF Init, Workers, Threads
  <2>2. \A p \in Conns \X {"handler"} : handler[p[1]] = "new"
    BY DEF Init
  <2> QED  BY <2>1, <2>2 DEF Working, UnderWay
<1>4. CountInv
  BY <1>3, FS_EmptySet DEF CountInv, Init
<1>5. SocketInv
  BY <1>2 DEF SocketInv, Init, Threads
<1>6. Queue = <<>>
  BY DEF Queue, Init
<1>7. 1 .. Len(Queue) = {} /\ \A o, d : ~Has(o, d)
  BY <1>6, NothingQueued DEF Has
<1>8. Ordered
  BY <1>7 DEF Ordered
<1>9. \A d \in Conns : ~Holds(d) /\ Unregistered(d)
  BY <1>2, <1>7, NoneIsNoConn DEF Holds, Unregistered, Init
<1>10. AttachInv
  BY <1>2, <1>7, <1>8, <1>9 DEF AttachInv, Releasable, Init
<1>11. InterestInv
  BY FS_EmptySet DEF InterestInv, AttachedIsCounted, Init
<1> QED  BY <1>1, <1>4, <1>5, <1>10, <1>11, TypeParts DEF HubInv

LEMMA HubStep == HubInv /\ [Next]_vars => HubInv'
<1> SUFFICES ASSUME HubInv, [Next]_vars PROVE HubInv'
  OBVIOUS
<1>1. Shapes /\ workers \in Nat /\ CountInv /\ SocketInv /\ AttachInv /\ InterestInv
  BY TypeParts DEF HubInv
<1>2. Shapes'
  BY <1>1, ShapesKept
<1>3. AttachInv' /\ SocketInv' /\ InterestInv'
  BY <1>1, AttachKept, SocketKept, InterestKept
<1>4. \A c \in Conns : handler[c] = "accepted" => \A t \in Threads : at[c, t] = "none"
  BY <1>1 DEF AttachInv, Registered, Unregistered
<1>5. CountInv' /\ workers' \in Nat
  BY <1>1, <1>4, CountKept DEF SocketInv
<1>6. connected' \in Nat
  BY <1>3, FS_CardinalityType DEF InterestInv, AttachedIsCounted
<1>7. TypeOK' <=> Shapes' /\ workers' \in Nat /\ connected' \in Nat
  BY DEF TypeOK, Shapes
<1> QED  BY <1>2, <1>3, <1>5, <1>6, <1>7 DEF HubInv

THEOREM HubInvariant == Spec => []HubInv
BY HubInit, HubStep, PTL DEF Spec

\* Whoever holds an observer, or waits for one, can let it go: its socket has not
\* ended, or its release is on the way; and what the world and the metrics see of
\* the attachments is what they are.
THEOREM AttachmentsHold == Spec => []AttachmentsAgree
<1>1. HubInv => AttachmentsAgree
  <2> SUFFICES ASSUME HubInv PROVE AttachmentsAgree
    OBVIOUS
  <2>1. Shapes /\ TypeOK /\ AttachInv /\ AttachedIsCounted
    BY TypeParts DEF HubInv, InterestInv
  <2>2. ASSUME NEW c \in Conns, Wanted(c) PROVE once[c] = "free" \/ Queued("detach", c)
    <3>1. Has("attach", c) <=> Queued("attach", c)
      BY <2>1, HasQueued
    <3>2. Has("detach", c) <=> Queued("detach", c)
      BY <2>1, HasQueued
    <3> QED  BY <2>1, <2>2, <3>1, <3>2 DEF AttachInv, Releasable, Holds, Wanted
  <2> QED  BY <2>1, <2>2 DEF AttachmentsAgree, HeldIsReleasable
<1> QED  BY HubInvariant, <1>1, PTL

\* Hub.drained is closed only when every admitted handler has returned and every
\* goroutine of a socket is gone, and nothing starts afterwards.
THEOREM DrainIsQuiet == Spec => []DrainedIsQuiet
<1>1. HubInv => DrainedIsQuiet
  <2> SUFFICES ASSUME HubInv, drained PROVE /\ \A c \in Conns : handler[c] \in {"new", "returned"}
                                            /\ \A c \in Conns, t \in Workers : at[c, t] \in {"none", "done"}
                                            /\ sockets = {}
    BY DEF DrainedIsQuiet, Workers
  <2>1. Working = {} /\ Shapes /\ SocketInv
    BY TypeParts DEF HubInv, CountInv
  <2>2. ASSUME NEW c \in Conns PROVE handler[c] \in {"new", "returned"}
    <3>1. <<c, "handler">> \in Conns \X {"handler"} /\ <<c, "handler">>[1] = c
      OBVIOUS
    <3>2. handler[c] \notin UnderWay
      BY <2>1, <3>1 DEF Working
    <3> QED  BY <2>1, <3>2 DEF Shapes, HandlerPCs, UnderWay
  <2>3. ASSUME NEW c \in Conns, NEW t \in Workers PROVE at[c, t] \in {"none", "done"}
    <3>1. <<c, t>> \in Conns \X Workers
      OBVIOUS
    <3> QED  BY <2>1, <3>1 DEF Working
  <2>4. sockets = {}
    BY <2>1, <2>3 DEF SocketInv, Shapes
  <2> QED  BY <2>2, <2>3, <2>4
<1> QED  BY HubInvariant, <1>1, PTL

\* A connection loses its observer only by its own end or by shutdown: neither a
\* refused duplicate nor its teardown takes the observer from the live one.
THEOREM LiveConnectionHolds == Spec => LiveConnectionKept
<1>1. HubInv /\ [Next]_vars => [ConnectionKept]_conns
  <2> SUFFICES ASSUME HubInv, [Next]_vars, NEW o \in Observers, conns[o] # None, conns'[o] # conns[o]
               PROVE  once[conns[o]] # "free" \/ closing'
    BY DEF ConnectionKept
  <2>1. Shapes /\ AttachInv
    BY TypeParts DEF HubInv
  <2>2. CASE RunRequest
    <3>1. batch # <<>> /\ batch' = Tail(batch) /\ pending' = pending
      BY <2>2 DEF RunRequest, hubVars
    <3>3. PICK c \in Conns : \/ Head(batch) = Request("attach", c) /\ Attach(c)
                             \/ Head(batch) = Request("detach", c) /\ Detach(c)
      BY <2>1, <2>2, FirstRuns
    <3>4. Head(batch) = Request("detach", c) /\ conns[o] = c
      BY <2>1, <3>3 DEF Attach, Detach, Vacant, Shapes
    <3>5. Has("detach", c)
      <4>1. Queue \in Seq(Requests) /\ Queue # <<>> /\ Queue' = Tail(Queue) /\ Head(Queue) = Request("detach", c)
        BY <2>1, <3>1, <3>4, QueueTyped, QueueShrinks
      <4> QED  BY <4>1, HasShrinks
    <3> QED  BY <2>1, <3>4, <3>5 DEF AttachInv
  <2>3. CASE Shutdown
    BY <2>3 DEF Shutdown
  <2>4. ASSUME ~Shutdown, ~RunRequest PROVE conns' = conns
    BY <2>4, OthersKeep
  <2> QED  BY <2>2, <2>3, <2>4
<1> QED  BY HubInvariant, <1>1, PTL DEF Spec, LiveConnectionKept
=============================================================================
