---------------------------- MODULE MCShutdowns -----------------------------
(***************************************************************************)
(* The two servers that must shut down with their own work in flight.  A   *)
(* behaviour is of one of them, and the other stands still where it began. *)
(*                                                                         *)
(* hub     two connections of one observer on a zone that takes claims     *)
(* module  the handoff module in Nakama, with a request of each kind and   *)
(*         both sweeps, from every setting to the end of its hook          *)
(***************************************************************************)
EXTENDS ZoneHub

CONSTANTS k1, k2, o1

VARIABLES part, stage, setting, held, life, closed, listener, call, worker, hook, finished

MCDuplicate == [c \in Conns |-> o1]

\* A claims listener is given a chain that leads to its root, or one that does not.
Cert(key, signer, ca) == [key |-> key, signer |-> signer, ca |-> ca, valid |-> TRUE, clients |-> TRUE, serves |-> TRUE]
Root == Cert("root", "root", TRUE)
Leaf == Cert("leaf", "root", FALSE)
Stray == Cert("leaf", "mid", FALSE)
Materials == {[static |-> FALSE, roots |-> {Root}, chain |-> <<leaf, Root>>, allocator |-> {"agones"}] : leaf \in {Leaf, Stray}}
MCSettings == [enabled : {"", "true", "yes"}, complete : BOOLEAN, claims : {"false", "true", "no"},
               orphans : {"", "true", "no"}, material : Materials]
MCCalls == {"rpc", "claim"}
MCWorkers == {"expiry", "orphans"}

Module == INSTANCE RuntimeModule WITH
  Calls <- MCCalls, Claims <- {"claim"}, Workers <- MCWorkers, Settings <- MCSettings

-----------------------------------------------------------------------------
moduleVars == <<stage, setting, held, life, closed, listener, call, worker, hook, finished>>
allVars == <<part, vars, moduleVars>>

ServersInit ==
  /\ Init
  /\ \/ /\ part = "hub"
        /\ stage = None /\ setting = None /\ held = None /\ life = None /\ closed = None
        /\ listener = None /\ call = None /\ worker = None /\ hook = None /\ finished = None
     \/ part = "module" /\ Module!Init

InHub == part = "hub" /\ UNCHANGED <<part, moduleVars>>
InModule == part = "module" /\ UNCHANGED <<part, vars>>

ServersNext ==
  \/ InHub /\ Next
  \/ InModule /\ Module!Next

\* FairStep and GoesOn of the part that runs; a select does not prefer its ticker for
\* ever, so a worker whose context has ended sees it.
Fairness ==
  /\ WF_allVars((InHub /\ FairStep) \/ (InModule /\ Module!GoesOn))
  /\ \A w \in MCWorkers :
       WF_allVars(InModule /\ Module!Sweeps(w)) /\ SF_allVars(InModule /\ Module!Stop(w))

ServersSpec == ServersInit /\ [][ServersNext]_allVars /\ Fairness

-----------------------------------------------------------------------------
\* The hub drains once it is closing, whatever blocked close handshake, claim or upgrade
\* it races, and a peer that stopped answering is neither attached nor waits to be, for
\* good (the two connections are alike).
HubLetsGo ==
  /\ (part = "hub" /\ closing) ~> (part = "hub" => drained)
  /\ (part = "hub" /\ peer[k1] = "gone") ~> (part = "hub" => ~Wanted(k1))

\* A shutdown retires the module, even one whose hook had to return before the last
\* handler did.
ShutdownRetires == (part = "module" /\ hook # "none") ~> (part = "module" => held = {})
=============================================================================
