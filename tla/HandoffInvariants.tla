------------------------- MODULE HandoffInvariants --------------------------
(***************************************************************************)
(* The inductive invariants behind the handoff's safety, one upon another. *)
(*                                                                         *)
(* DispatchInv: an allocation request leaves only under its call's own     *)
(* dispatch.  Attempt IDs are fresh: until a call has sent its request, no *)
(* object carries its attempt and no allocator holds it, so no other call  *)
(* can have found an object that would entitle it to publish or to fence   *)
(* the attempt; and a call at the end of a cleanup of an attempt still     *)
(* meets it fenced, because nobody stages it a second time.                *)
(*                                                                         *)
(* DiscardInv: whatever a cleanup still has to delete belongs to an        *)
(* attempt that is over for good, so no live lease loses its object.       *)
(*                                                                         *)
(* RecordInv: every object is on record, and whoever is about to forget or *)
(* to replace a lease has none of its objects left.                        *)
(*                                                                         *)
(* AnswerInv: an attempt that was answered, or is about to be, keeps the   *)
(* object it was answered with, and no other answer names another.         *)
(*                                                                         *)
(* SpareInv: as long as no step has failed, a call or a sweep cleans up or *)
(* takes over spent attempts only: fenced, claimed or past their deadline. *)
(***************************************************************************)
EXTENDS Handoff

\* Each call draws an attempt ID of its own (secureAttemptID in CreateHandoff).
FreshAttempts == \A c, d \in Callers : AttemptOf[c] = AttemptOf[d] => c = d

Staging(c) ==
  \/ pc[c] \in {"load", "steal", "stage"}
  \/ pc[c] \in {"list", "delete"} /\ after[c] = "stage"

\* Nobody has met the attempt of a call that has not staged it.
AttemptFresh(c) ==
  Staging(c) =>
    /\ ~HoldsAttempt(AttemptOf[c])
    /\ \A d \in Callers \ {c} : req[d] # AttemptOf[c]

\* Until its request is sent, a call works for its own attempt, which no object
\* carries and no allocator holds.
AttemptUnsent(c) ==
  Staging(c) \/ pc[c] \in {"dispatch", "provision", "rpc"} =>
    /\ req[c] = AttemptOf[c]
    /\ AttemptOf[c] \notin inflight
    /\ \A s \in Servers : server[s].attempt # AttemptOf[c]

\* Only the call that sent a request waits for it and gives it up; once refused
\* the request is with nobody, unless it may still land late.
RequestOwned(c) ==
  /\ pc[c] \in {"wait", "unallocated", "reload"} => req[c] = AttemptOf[c]
  /\ pc[c] \in {"unallocated", "reload"} /\ "late" \notin Anomalies => req[c] \notin inflight

\* The lease a call works with is that of the attempt it works for.
LeaseInHand(c) ==
  /\ pc[c] \in {"dispatch", "provision", "observe", "rpc", "wait", "await", "adopt", "finalize"} =>
       obs[c] # None /\ obs[c].attempt = req[c] /\ ~obs[c].releasing
  /\ pc[c] \in {"dispatch", "steal"} => obs[c].dispatch = None
  /\ pc[c] \in {"unallocated", "fence"} => obs[c].attempt = req[c]
  /\ pc[c] = "fence" => target[c] # None \/ ~Quarantined(obs[c])

\* The object a call has in hand carries the attempt it works for.
ObjectInHand(c) ==
  /\ target[c] # None => server[target[c]].attempt = req[c]
  /\ pc[c] = "load" => target[c] = None

\* A call that is about to forget its attempt finds it fenced or gone.
Removing(c) ==
  \/ pc[c] = "remove"
  \/ pc[c] \in {"list", "delete"} /\ after[c] = "remove"
RemovedFenced(c) == Removing(c) /\ HoldsAttempt(req[c]) => lease.releasing

CallInv(c) ==
  /\ AttemptFresh(c) /\ AttemptUnsent(c) /\ RequestOwned(c)
  /\ LeaseInHand(c) /\ ObjectInHand(c) /\ RemovedFenced(c)
  /\ pc[c] \in {"provision", "rpc"} => OwnDispatch(c)

\* An object nobody acquired carries no attempt.
ReadyUnlabelled == \A s \in Servers : server[s].state = "ready" => server[s].attempt = None

\* A sweep fences no dispatch whose outcome is unknown.
SweepsSpareDispatch == \A w \in Sweepers : swPc[w] = "fence" => ~Quarantined(swObs[w])

DispatchInv == (\A c \in Callers : CallInv(c)) /\ ReadyUnlabelled /\ SweepsSpareDispatch
-----------------------------------------------------------------------------
\* Attempt a is over: nobody will stage it, and if it is stored it is fenced.
\* No step takes this back.
Over(a) ==
  /\ \A c \in Callers : Staging(c) => AttemptOf[c] # a
  /\ HoldsAttempt(a) => lease.releasing

\* An object that may be deleted.
Discardable(s) == server[s].attempt # None /\ Over(server[s].attempt)

\* An object somebody acquired carries an attempt, and no two the same; an
\* allocator that holds a request has acquired nothing for it.
PresentLabelled == \A s \in Servers : Present(s) => server[s].attempt # None
OneObject ==
  \A s, t \in Servers : server[s].attempt # None /\ server[s].attempt = server[t].attempt => s = t
InflightUnmet == \A s \in Servers : server[s].attempt \notin inflight

\* A published lease names an object of its attempt, present while it is live.
PublishedNamesObject ==
  lease # None /\ ~lease.staging =>
    /\ server[lease.server].attempt = lease.attempt
    /\ ~lease.releasing => Present(lease.server)

\* What call c deletes may be deleted.  On its way to a new staging intent it
\* has fenced the lease it replaces; on its way to publishing it holds a
\* dispatch, and an object that stays there as long as the dispatch is live.
CallDiscards(c) ==
  /\ \A s \in doomed[c] : Discardable(s)
  /\ pc[c] = "list" => Over(obs[c].attempt)
  /\ pc[c] = "load" => obs[c] = None
  /\ pc[c] \in {"list", "delete"} /\ after[c] = "stage" => obs[c] # None /\ obs[c].releasing
  /\ pc[c] = "stage" /\ obs[c] # None => obs[c].releasing
  /\ pc[c] \in {"provision", "observe", "rpc", "wait", "await", "adopt", "finalize"} =>
       Quarantined(obs[c])
  /\ pc[c] = "finalize" /\ ~Over(req[c]) => Present(target[c])

SweepDiscards(w) ==
  /\ \A s \in swDoomed[w] : Discardable(s)
  /\ swPc[w] = "list" => Over(swObs[w].attempt)

ReaperDiscards(r) ==
  /\ \A s \in rFound[r] : IF rPc[r] = "leases" THEN server[s].attempt # None ELSE Discardable(s)
  /\ rAim[r] # None => Discardable(rAim[r])

SessionDiscards(z) ==
  /\ sPc[z] \notin {"idle", "over"} => server[sObs[z].server].attempt = sObs[z].attempt
  /\ sPc[z] = "delete" => Over(sObs[z].attempt)

DiscardInv ==
  /\ PresentLabelled /\ OneObject /\ InflightUnmet /\ PublishedNamesObject
  /\ \A c \in Callers : CallDiscards(c)
  /\ \A w \in Sweepers : SweepDiscards(w)
  /\ \A r \in Reapers : ReaperDiscards(r)
  /\ \A z \in Sessions : SessionDiscards(z)

\* A lease serves one session at a time: the zone it names admits one lifetime.
ServedAlone ==
  \A y, z \in Sessions :
    y # z /\ sPc[y] = "admitted" /\ sPc[z] \in {"admitted", "ended"} => sObs[y] # sObs[z]

-----------------------------------------------------------------------------
\* Every object there is is on record, and a request the allocator holds is the
\* stored, unfenced dispatch's.
ObjectsOnRecord == \A s \in Servers : Present(s) => HoldsAttempt(server[s].attempt)
InflightQuarantined == \A a \in inflight : HoldsAttempt(a) /\ Quarantined(lease)

\* Attempt a is over, and of its objects at most the given ones are left.
Purged(a, left) ==
  Over(a) /\ \A s \in Servers : Present(s) /\ server[s].attempt = a => s \in left

\* A cleanup that goes on to forget or to replace the lease leaves nothing.
CallPurges(c) ==
  /\ pc[c] = "delete" /\ after[c] \in {"stage", "remove"} => Purged(obs[c].attempt, doomed[c])
  /\ pc[c] = "remove" \/ (pc[c] = "stage" /\ obs[c] # None) => Purged(obs[c].attempt, {})
  /\ Removing(c) => obs[c] # None /\ obs[c].attempt = req[c]

SweepPurges(w) ==
  /\ swPc[w] = "delete" /\ swObs[w] # None => Purged(swObs[w].attempt, swDoomed[w])
  /\ swPc[w] = "remove" => Purged(swObs[w].attempt, {})

SessionPurges(z) == sPc[z] = "remove" => Purged(sObs[z].attempt, {})

RecordInv ==
  /\ ObjectsOnRecord /\ InflightQuarantined
  /\ \A c \in Callers : CallPurges(c)
  /\ \A w \in Sweepers : SweepPurges(w)
  /\ \A z \in Sessions : SessionPurges(z)
-----------------------------------------------------------------------------
\* A call that observes, allocates or publishes works under a dispatch.
Working == {"provision", "observe", "rpc", "wait", "await", "adopt", "finalize"}
UnderDispatch(c) == pc[c] \in Working => Quarantined(obs[c])

\* A call is about to hand the lease in hand out, if its object is still there.
Answering(c) == pc[c] \in {"resolve", "winner", "return"}

\* What a published lease hands out; what was handed out, or may be next.
AnswerOf(l) == [attempt |-> l.attempt, server |-> l.server]
Answers == handed \cup {AnswerOf(obs[c]) : c \in {d \in Callers : Answering(d)}}

\* Attempt a has object s for good: nobody will stage it, and if it is stored it
\* is published with s.
Settled(a, s) ==
  /\ \A c \in Callers : Staging(c) => AttemptOf[c] # a
  /\ HoldsAttempt(a) => ~lease.staging /\ lease.server = s

AnswerInv ==
  /\ \A c \in Callers : UnderDispatch(c)
  /\ \A h \in Answers : Settled(h.attempt, h.server)
  /\ \A h, k \in Answers : h.attempt = k.attempt => h.server = k.server
-----------------------------------------------------------------------------
\* Attempt a is spent: nobody will stage it, and if it is stored it is fenced,
\* claimed or past its deadline.
Spent(a) ==
  /\ \A c \in Callers : Staging(c) => AttemptOf[c] # a
  /\ HoldsAttempt(a) => lease.releasing \/ lease.claimed \/ a \in expired

\* A call that cleans an attempt up.
Cleaning(c) ==
  \/ pc[c] \in {"reconcile", "fence", "remove"}
  \/ pc[c] \in {"list", "delete"} /\ after[c] \in {"leave", "remove"}

\* Without a failed step, a call cleans up or takes over spent attempts only: one
\* that lost a race finds the attempt published, which it answers with, or fenced.
CallSpares(c) ==
  /\ Cleaning(c) \/ (pc[c] = "progress" /\ target[c] # None) => Spent(req[c])
  /\ pc[c] = "resolve" \/ req[c] # AttemptOf[c] => Spent(AttemptOf[c])
  /\ pc[c] = "steal" => obs[c].staging \/ obs[c].releasing \/ Spent(obs[c].attempt)
  /\ pc[c] = "unallocated" => obs[c].staging
  /\ HoldsAttempt(req[c]) /\ lease # obs[c] =>
       /\ pc[c] = "dispatch" => lease.releasing
       /\ pc[c] \in Working => lease.releasing \/ ~lease.staging
  /\ pc[c] \notin {"await", "adopt", "finalize", "progress", "winner", "reconcile", "fence",
                   "list", "delete", "remove"} => target[c] = None
  /\ pc[c] \in {"list", "delete"} => after[c] \in {"stage", "leave", "remove"}
  /\ pc[c] \in {"list", "delete"} /\ after[c] = "stage" => target[c] = None

SweepSpares(w) == swPc[w] = "fence" => swObs[w].releasing \/ Spent(swObs[w].attempt)

Spares ==
  /\ \A c \in Callers : CallSpares(c)
  /\ \A w \in Sweepers : SweepSpares(w)

SpareInv == faults = MaxFaults => Spares
=============================================================================
