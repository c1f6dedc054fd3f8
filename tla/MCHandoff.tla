----------------------------- MODULE MCHandoff ------------------------------
EXTENDS Handoff, TLC
CONSTANTS c1, c2
MCFresh == [c \in Callers |-> c]
MCShared == [c \in Callers |-> c1]
Sym == Permutations(Callers) \cup Permutations(Servers) \cup Permutations(Sweepers) \cup Permutations(Sessions) \cup Permutations(Reapers)
=============================================================================
