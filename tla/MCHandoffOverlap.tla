-------------------------- MODULE MCHandoffOverlap --------------------------
(***************************************************************************)
(* Overlapping calls for one reservation in three settings, each with      *)
(* constants of its own over the variables of Handoff; a behaviour stays   *)
(* in the setting it starts in.                                            *)
(*                                                                         *)
(* copies  two callers and a sweep; the allocator may leave two objects    *)
(*         with one attempt label                                          *)
(* late    two callers, a sweep and a reaper; an allocation may land after *)
(*         the allocator answered that it allocated nothing                *)
(* calm    three callers, without a failed step                            *)
(***************************************************************************)
EXTENDS Handoff, TLC

CONSTANTS c1, c2, c3, w1, r1, s1, s2

VARIABLE setting

Three == {c1, c2, c3}
Own(callers) == [c \in callers |-> c]
MCFresh == Own(Callers)

Late == INSTANCE Handoff WITH Reapers <- {r1}, Anomalies <- {"late"}
Calm == INSTANCE Handoff WITH
  Callers <- Three, Attempts <- Three, AttemptOf <- Own(Three),
  Sweepers <- {}, MaxFaults <- 0, Anomalies <- {}

OverlapInit ==
  \/ setting = "copies" /\ Init
  \/ setting = "late" /\ Late!Init
  \/ setting = "calm" /\ Calm!Init

OverlapNext ==
  /\ \/ setting = "copies" /\ Next
     \/ setting = "late" /\ Late!Next
     \/ setting = "calm" /\ Calm!Next
  /\ UNCHANGED setting

OverlapSpec == OverlapInit /\ [][OverlapNext]_<<setting, vars>>

\* Two callers are alike in every setting, and so are the objects.
Alike == Permutations({c1, c2}) \cup Permutations({s1, s2})
=============================================================================
