--------------------------- MODULE AllocatorPeer ----------------------------
(***************************************************************************)
(* A reservation through one pinned allocator (server/allocatorpeer) that  *)
(* is found by reading Pods and EndpointSlices page by page                *)
(* (server/allocatordiscovery): the generation and the cluster are read    *)
(* before the connection and again once it is ready, and what was asked of *)
(* the peer is never taken back.                                           *)
(*                                                                         *)
(* A Pod's UID stands for its identity and its TLS key, an address for an  *)
(* address and port.  One EndpointSlice holds every endpoint.  Labels,     *)
(* ports, owners and names that do not fit make a list invalid, as any     *)
(* backend error does.                                                     *)
(***************************************************************************)
EXTENDS Integers, FiniteSets, Sequences, Functions

CONSTANTS Members,     \* Pod UIDs of the pinned generation
          Actor,       \* the one whose allocator is asked
          Strangers,   \* UIDs a Pod that replaces a member may have
          Addresses,
          Rank,        \* Rank[u]: where the API server lists the Pod u
          MaxPages,    \* pages a collection may take (100)
          Budget,      \* response bytes of one discovery (4 MiB); a page costs 1
          MaxVersion,  \* bound of the model on changes of the cluster
          None

VARIABLES pods,         \* the API server's Pods: [uid -> [ip, ready]]
          version,      \* its resource version
          podsAt,       \* podsAt[v]: the Pods at version v (history)
          slice,        \* the EndpointSlice: the endpoints its controller last saw
          generation,   \* "pinned", or what became of the record
          pc,
          list, listed, pages, left,  \* the collection: what is to come and came, its version, pages, budget
          observed,     \* observed[k]: the binding of the k-th observation
          peer,         \* whom the connection authenticated, or None
          late,         \* the record changed before the connection was ready (history)
          native,       \* the allocator's write: "none", "possible", "done"
          result        \* "none", "allocated", "refused", "uncertain"

clusterVars == <<pods, version, podsAt, slice, generation>>
listVars    == <<list, listed, pages, left>>
vars == <<clusterVars, pc, listVars, observed, peer, late, native, result>>

UIDs == Members \cup Strangers
Alive(p) == {u \in UIDs : p[u] # None}
Pod(ip, ready) == [ip |-> ip, ready |-> ready]
\* What the API server has to list after u, and what it lists first of that.
After(p, u) ==
  {[uid |-> v, pod |-> p[v]] : v \in {w \in Alive(p) : u = None \/ Rank[w] > Rank[u]}}
First(all) == {e \in all : \A f \in all : Rank[e.uid] <= Rank[f.uid]}
EndpointsOf(p) == {[uid |-> u, ip |-> p[u].ip, ready |-> p[u].ready] : u \in Alive(p)}

Init ==
  /\ \E place \in [Members -> Addresses] :
       /\ IsInjective(place)
       /\ pods = [u \in UIDs |-> IF u \in Members THEN Pod(place[u], TRUE) ELSE None]
  /\ version = 1 /\ podsAt = <<pods>> /\ slice = EndpointsOf(pods) /\ generation = "pinned"
  /\ pc = "generation" /\ list = {} /\ listed = <<>> /\ pages = 0 /\ left = Budget
  /\ observed = <<>> /\ peer = None /\ late = FALSE
  /\ native = "none" /\ result = "none"

-----------------------------------------------------------------------------
\* The cluster.  An address is free again when its Pod is gone.
Change(p) ==
  /\ version < MaxVersion /\ pods' = p /\ version' = version + 1 /\ podsAt' = Append(podsAt, p)
  /\ UNCHANGED <<slice, generation, pc, listVars, observed, peer, late, native, result>>
PodGoes(u)   == pods[u] # None /\ Change([pods EXCEPT ![u] = None])
PodReady(u)  == pods[u] # None /\ Change([pods EXCEPT ![u].ready = ~@])
PodComes(u, ip) ==
  /\ u \in Strangers /\ pods[u] = None /\ \A v \in Alive(pods) : pods[v].ip # ip
  /\ Change([pods EXCEPT ![u] = Pod(ip, TRUE)])
\* A Pod whose sandbox is recreated keeps its identity and gets another address.
PodMoves(u, ip) ==
  /\ pods[u] # None /\ \A v \in Alive(pods) : pods[v].ip # ip
  /\ Change([pods EXCEPT ![u].ip = ip])
\* The EndpointSlice controller catches up.
SyncSlice ==
  /\ slice # EndpointsOf(pods) /\ slice' = EndpointsOf(pods)
  /\ UNCHANGED <<pods, version, podsAt, generation, pc, listVars, observed, peer, late, native, result>>
GenerationChanges ==
  /\ generation = "pinned" /\ generation' = "changed" /\ late' = (late \/ peer = None)
  /\ UNCHANGED <<pods, version, podsAt, slice, pc, listVars, observed, peer, native, result>>

-----------------------------------------------------------------------------
\* Mutant of Answer: what the allocator's client reports is passed on.
AnswerPlain(why) == why
\* Reserve: once the RPC was entered no failure is certain, not even an empty pool.
Answer(why) == IF native = "none" THEN why ELSE "uncertain"
Fail(why) ==
  /\ pc' = "done" /\ result' = Answer(why)
  /\ UNCHANGED <<clusterVars, listVars, observed, peer, late, native>>
\* The operation's context ends: its timeout, or its caller.
Cancelled == pc \notin {"done"} /\ Fail("refused")

\* checkGeneration, at the start and around each discovery.
CheckGeneration ==
  /\ pc \in {"generation", "before", "after"}
  /\ \/ /\ generation = "pinned"
        /\ CASE pc = "generation" -> pc' = "before" /\ UNCHANGED listVars
             [] pc = "before" -> /\ pc' = "pods" /\ list' = {} /\ listed' = <<>>
                                 /\ pages' = 0 /\ left' = Budget
             [] pc = "after"  -> /\ pc' = IF Len(observed) = 1 THEN "connect" ELSE "compare"
                                 /\ UNCHANGED listVars
        /\ UNCHANGED <<clusterVars, observed, peer, late, native, result>>
     \/ generation # "pinned" /\ Fail("refused")

\* Mutant of SameVersion: a page of another version is taken in.
AnyVersion(v) == TRUE
SameVersion(v) == \A k \in DOMAIN listed : listed[k].version = v

\* collect: a page of Pods.  The first fixes what a list continues with; a server
\* that compacted it goes on with its present state and says so in the version.
PageOfPods ==
  /\ pc = "pods" /\ pages < MaxPages /\ left > 0
  /\ \E expired \in {e \in BOOLEAN : e => pages > 0} :
       LET fresh == pages = 0 \/ expired
           last  == IF listed = <<>> THEN None ELSE (CHOOSE e \in listed[Len(listed)].item : TRUE).uid
           all   == IF fresh THEN After(pods, last) ELSE list
           v     == IF fresh THEN version ELSE listed[1].version
       IN  /\ SameVersion(v)
           /\ listed' = Append(listed, [version |-> v, item |-> First(all)])
           /\ list' = all \ First(all)
           /\ pc' = IF list' = {} THEN "slices" ELSE "pods"
  /\ pages' = pages + 1 /\ left' = left - 1
  /\ UNCHANGED <<clusterVars, observed, peer, late, native, result>>
\* What ends a collection without a result: an error, an expired list, another
\* version, no page or no budget left.
ListFails == pc \in {"pods", "slices"} /\ Fail("refused")

OwnsAddress(entry, e) == entry.pod.ip = e.ip

\* join and selectBinding: every endpoint is a listed Pod's at an address of it, no
\* socket has two owners, the Pods are the generation's, and the actor has an
\* eligible endpoint.
Found == UNION {listed[k].item : k \in DOMAIN listed}
Joined(eps) == \A e \in eps : \E entry \in Found : entry.uid = e.uid /\ OwnsAddress(entry, e)
Unambiguous(eps) == \A e, f \in eps : e.ip = f.ip => e = f
Complete == {entry.uid : entry \in Found} = Members /\ Cardinality(Found) = Cardinality(Members)
Eligible(eps) == {e \in eps : e.uid = Actor /\ e.ready /\ \E entry \in Found : entry.uid = Actor /\ entry.pod.ready}

ReadSlices ==
  /\ pc = "slices" /\ left > 0 /\ left' = left - 1
  /\ Joined(slice) /\ Unambiguous(slice) /\ Complete /\ Eligible(slice) # {}
  /\ observed' = Append(observed, [ip |-> (CHOOSE e \in Eligible(slice) : TRUE).ip, podVersion |-> listed[1].version, slice |-> slice])
  /\ pc' = "after"
  /\ UNCHANGED <<clusterVars, list, listed, pages, peer, late, native, result>>

\* Mutant of AfterHandshake: what was observed before the handshake stands.
AfterHandshakeOld == "dispatch"
AfterHandshake == "before"

\* The TLS handshake with whoever is at the address; verifyPeer pins the actor's key.
Connect ==
  /\ pc = "connect"
  /\ \E u \in Alive(pods) : pods[u].ip = observed[1].ip /\ u = Actor /\ peer' = u
  /\ pc' = AfterHandshake
  /\ UNCHANGED <<clusterVars, listVars, observed, late, native, result>>

\* A slow handshake must not authorise what was observed before it.
Compare ==
  /\ pc = "compare"
  /\ \/ /\ observed[Len(observed)] = observed[1]
        /\ pc' = "dispatch" /\ UNCHANGED <<clusterVars, listVars, observed, peer, late, native, result>>
     \/ observed[Len(observed)] # observed[1] /\ Fail("refused")

\* allocationCall.Allocate: from here the allocator may write, now or later.
Dispatch ==
  /\ pc = "dispatch" /\ native' = "possible" /\ pc' = "answer"
  /\ UNCHANGED <<clusterVars, listVars, observed, peer, late, result>>
NativeWrite ==
  /\ native = "possible" /\ native' = "done"
  /\ UNCHANGED <<clusterVars, pc, listVars, observed, peer, late, result>>
Receive ==
  /\ pc = "answer"
  /\ \/ native = "done" /\ pc' = "done" /\ result' = "allocated"
        /\ UNCHANGED <<clusterVars, listVars, observed, peer, late, native>>
     \/ Fail("refused")   \* an error, an empty pool, a lost or an invalid answer

ReserveStep ==
  \/ CheckGeneration \/ PageOfPods \/ ListFails \/ ReadSlices \/ Connect \/ Compare
  \/ Dispatch \/ Receive \/ Cancelled
ClusterStep ==
  \/ \E u \in UIDs : PodGoes(u) \/ PodReady(u) \/ \E ip \in Addresses : PodComes(u, ip) \/ PodMoves(u, ip)
  \/ SyncSlice \/ GenerationChanges \/ NativeWrite
Next == ReserveStep \/ ClusterStep
Spec == Init /\ [][Next]_vars

-----------------------------------------------------------------------------
\* An observation tells of one moment: all of the generation's Pods were there at
\* the version it names, the actor ready, at the address it gives, although pages,
\* Pods and endpoints were read one after the other (collect, join).
ObservationTrue ==
  \A k \in DOMAIN observed :
    LET then == podsAt[observed[k].podVersion]
    IN  Alive(then) = Members /\ then[Actor] = Pod(observed[k].ip, TRUE)

\* Nothing is asked of the peer under a generation that changed before the
\* connection was ready, nor of any Pod but the actor's.
DispatchedUnderGeneration == native # "none" => ~late /\ peer = Actor

\* A reservation that is refused is free to be tried elsewhere: the allocator has
\* not written for it and never will.
RefusalIsFinal == result = "refused" => native = "none"
=============================================================================
