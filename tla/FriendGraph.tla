----------------------------- MODULE FriendGraph -----------------------------
(***************************************************************************)
(* The boundary over Nakama's friend graph (nakamafriends): whose edges a   *)
(* call edits, and whom it may name.  A call runs in a session, which knows *)
(* its player; the subject and the target are names its caller supplies, in *)
(* any case and for any player.  An invite reads the caller's own edge and  *)
(* adds in a second call to Nakama; several sessions of one player may run. *)
(*                                                                         *)
(* Nakama keeps one directed edge per side and changes both in one          *)
(* transaction; any call may fail before or after it took effect.           *)
(***************************************************************************)
EXTENDS Naturals, FiniteSets

CONSTANTS Players, Sessions,
          MaxListLimit, DefaultListLimit

VARIABLES edge,     \* the edge of each player towards each other one
          session,  \* the player each session was authenticated as
          call,     \* the call each session makes
          wanted,   \* pairs: the first asked for the second, and nothing undid it (history)
          barred,   \* pairs: the first has at some time blocked the second (history)
          told      \* pairs: the first was told that the second is blocked (history)

vars == <<edge, session, call, wanted, barred, told>>

\* State: Nakama's edges and nothing else.
States == {"none", "friend", "invite sent", "invite received", "blocked"}

\* A name is a player's id in either case, or nobody's.
Names == [player : Players, case : {"lower", "upper"}]
Pairs == {pair \in Players \X Players : pair[1] # pair[2]}

Idle == [op |-> "idle"]
Init ==
  /\ edge = [pair \in Pairs |-> "none"]
  /\ session \in [Sessions -> Players]
  /\ call = [s \in Sessions |-> Idle]
  /\ wanted = {} /\ barred = {} /\ told = {}

-----------------------------------------------------------------------------
\* Nakama.  An invite towards a player who has invited is an acceptance, towards
\* one who has blocked it is dropped, and an edge that exists is left alone.
Add(p, q) ==
  CASE edge[<<q, p>>] = "invite sent" -> [edge EXCEPT ![<<p, q>>] = "friend", ![<<q, p>>] = "friend"]
    [] edge[<<q, p>>] # "blocked" /\ edge[<<q, p>>] # "invite sent" /\ edge[<<p, q>>] = "none" ->
         [edge EXCEPT ![<<p, q>>] = "invite sent", ![<<q, p>>] = "invite received"]
    [] OTHER -> edge
Delete(p, q) ==
  [edge EXCEPT ![<<p, q>>] = "none", ![<<q, p>>] = IF @ = "blocked" THEN @ ELSE "none"]
Block(p, q) == [edge EXCEPT ![<<p, q>>] = "blocked", ![<<q, p>>] = "none"]

-----------------------------------------------------------------------------
Step(s, c)      == call' = [call EXCEPT ![s] = c]
\* The call ends: with an answer, or refused, or the graph was unavailable.
End(s)          == Step(s, Idle)
Tell(s, blocked) == told' = told \cup {<<session[s], q>> : q \in blocked}
ReadOnly        == UNCHANGED <<edge, session, wanted, barred>>

\* Mutant of ActingFor: the caller says whom it acts for.
ActingForAnyone(s, subject) == {subject.player}
\* AuthenticatedSubjectID: the session's own player, and only if the caller named it.
ActingFor(s, subject) == {p \in {session[s]} : subject.player = p}

\* resolve: another player, whatever the case of its name.
Targets(p, target) == {q \in {target.player} : q # p}

\* A call starts by finding whom it acts for and whom it names, or ends there.
Begin(s) ==
  /\ call[s] = Idle
  /\ \E op \in {"invite", "remove", "block", "status"}, subject, target \in Names :
       \E p \in ActingFor(s, subject) : \E q \in Targets(p, target) :
         Step(s, [op |-> op, who |-> p, target |-> q])
  /\ ReadOnly /\ UNCHANGED told

\* Mutant of OwnEdge: the other side's edge is read.
TheirEdge(p, q) == edge[<<q, p>>]
\* status: the caller's edge towards the target, as Nakama reports it.
OwnEdge(p, q) == edge[<<p, q>>]

\* Invite: a target the caller has blocked is refused, before anything is added.
InviteStatus(s) ==
  /\ call[s].op = "invite"
  /\ LET q == call[s].target IN
     \/ /\ OwnEdge(call[s].who, q) = "blocked" /\ Tell(s, {q}) /\ End(s)
     \/ /\ OwnEdge(call[s].who, q) # "blocked" /\ Step(s, [call[s] EXCEPT !.op = "add"]) /\ UNCHANGED told
     \/ End(s) /\ UNCHANGED told
  /\ ReadOnly

InviteAdd(s) ==
  /\ call[s].op = "add" /\ End(s)
  /\ LET p == call[s].who  q == call[s].target IN
     \/ /\ edge' = Add(p, q)
        /\ wanted' = IF edge[<<q, p>>] = "blocked" THEN wanted ELSE wanted \cup {<<session[s], q>>}
     \/ UNCHANGED <<edge, wanted>>
  /\ UNCHANGED <<session, barred, told>>

Remove(s) ==
  /\ call[s].op = "remove" /\ End(s)
  /\ LET p == call[s].who  q == call[s].target IN
     \/ edge' = Delete(p, q) /\ wanted' = wanted \ {<<p, q>>, <<q, p>>}
     \/ UNCHANGED <<edge, wanted>>
  /\ UNCHANGED <<session, barred, told>>

BlockTarget(s) ==
  /\ call[s].op = "block" /\ End(s)
  /\ LET p == call[s].who  q == call[s].target IN
     \/ /\ edge' = Block(p, q) /\ wanted' = wanted \ {<<p, q>>, <<q, p>>}
        /\ barred' = barred \cup {<<session[s], q>>}
     \/ UNCHANGED <<edge, wanted, barred>>
  /\ UNCHANGED <<session, told>>

Status(s) ==
  /\ call[s].op = "status" /\ End(s)
  /\ LET q == call[s].target IN
     Tell(s, {b \in {q} : OwnEdge(call[s].who, b) = "blocked"}) \/ UNCHANGED told
  /\ ReadOnly

\* A page of the caller's edges: 0 asks for the default size, Nakama picks the page.
PageLimit(limit) == IF limit = 0 THEN DefaultListLimit ELSE limit
List(s) ==
  /\ call[s] = Idle
  /\ \E subject \in Names, limit \in 0..MaxListLimit + 1 :
       /\ PageLimit(limit) <= MaxListLimit
       /\ \E p \in ActingFor(s, subject) : \E page \in SUBSET {q \in Players \ {p} : edge[<<p, q>>] # "none"} :
            /\ Cardinality(page) <= PageLimit(limit)
            /\ Tell(s, {q \in page : OwnEdge(p, q) = "blocked"})
  /\ ReadOnly /\ UNCHANGED call

Next == \E s \in Sessions : \/ Begin(s) \/ InviteStatus(s) \/ InviteAdd(s)
                            \/ Remove(s) \/ BlockTarget(s) \/ Status(s) \/ List(s)

Spec == Init /\ [][Next]_vars

-----------------------------------------------------------------------------
\* Two players are friends only while each of them, in a session of its own, has
\* asked for it and neither has since ended or blocked it: an invite that checked
\* the edge before a block of another session makes no friend behind that block.
FriendsByConsent ==
  \A pair \in Pairs : edge[pair] = "friend" =>
    edge[<<pair[2], pair[1]>>] = "friend" /\ {pair, <<pair[2], pair[1]>>} \subseteq wanted

\* No answer tells a player of a block but its own: who hears that a target is
\* blocked has blocked it, however its calls and the target's overlap.
BlocksStayHidden == told \subseteq barred
=============================================================================
