---------------------------- MODULE Provisioning ----------------------------
(***************************************************************************)
(* First sign-in with a Google identity (server/nakamaauth): replicas that *)
(* share nothing but Nakama resolve, create and bind one account for each  *)
(* subject.  A replica lets one request at a time create an account for a  *)
(* subject; between replicas Nakama's unique e-mail and the create-only    *)
(* binding decide.                                                         *)
(*                                                                         *)
(* The derived e-mail, password and binding key are functions of the       *)
(* subject, so the subject stands for them.  Nakama is in single-session   *)
(* mode: a new session ends the account's earlier one.                     *)
(*                                                                         *)
(* A caller that stops waiting for Nakama gives up the gate, but not the   *)
(* call: it may be performed then, at any later time, or never.            *)
(***************************************************************************)
EXTENDS Integers, FiniteSets, Sequences

CONSTANTS Requests,
          Placements,    \* how requests may be spread: functions from them to processes
          CredentialOf,  \* CredentialOf[r]: what its credential is, see Verified
          Stored,        \* binding documents that may be there at first
          MaxAccounts,   \* bound of the model on accounts Nakama creates
          MaxAdrift,     \* bound of the model on calls adrift at once
          MaxPolls,      \* polls of waitForGoogleBinding before its window ends
          None

VARIABLES replica,            \* replica[r]: the process that serves request r
          pc, user, left,     \* of a request: where it is, the user it carries, polls left
          session,            \* session[r]: the account of its token; 0 for none
          result,             \* result[r]: the account it answered, or 0
          entry,              \* entry[r]: the gate entry it counts in
          entries,            \* entries[<<replica, subject>>]: the current entry, or 0
          tokens, users,      \* entries whose token is free; users[e]: requests that count in e
          binding,            \* binding[s]: the stored document, or None
          account,            \* account[s]: the account of the subject's e-mail, or 0
          created,            \* accounts created
          disabled,           \* accounts that are disabled
          latest,             \* latest[a]: the live session of a, or None
          adrift              \* calls no one waits for that Nakama may still perform

requestVars == <<pc, user, left, session, result>>
gateVars    == <<entry, entries, tokens, users>>
nakamaVars  == <<binding, account, created, disabled, latest, adrift>>
vars == <<replica, requestVars, gateVars, nakamaVars>>

-----------------------------------------------------------------------------
\* VerifyGoogleIDToken: the subject of a well-formed token Google vouches for.
Issuers == {"accounts.google.com", "https://accounts.google.com"}
ShapeOK(c) == c.segments = 3 /\ ~c.oversized /\ c.alg = "RS256"
Verified(c) ==
  IF ~ShapeOK(c) THEN {}
  ELSE IF c.validated = "ok" /\ c.issuer \in Issuers /\ c.subject # "" THEN {c.subject} ELSE {}

\* A binding document is read strictly: its two members once each, and no other.
Document(a) == [members |-> <<"schema", "user_id">>, schema |-> 1, user |-> a]
Readable(d) ==
  /\ Len(d.members) = 2 /\ {d.members[i] : i \in 1..2} = {"schema", "user_id"}
  /\ d.schema = 1 /\ d.user # 0

Subjects == UNION {Verified(CredentialOf[r]) : r \in Requests}
SubjectOf(r) == CHOOSE s \in Verified(CredentialOf[r]) : TRUE
Key(r) == <<replica[r], SubjectOf(r)>>
Entries == 1..Cardinality(Requests)   \* a request makes at most one
Accounts == 1..MaxAccounts

Init ==
  /\ replica \in Placements
  /\ pc = [r \in Requests |-> "new"] /\ user = [r \in Requests |-> 0] /\ left = [r \in Requests |-> MaxPolls]
  /\ session = [r \in Requests |-> 0] /\ result = [r \in Requests |-> 0]
  /\ entry = [r \in Requests |-> 0]
  /\ entries = [k \in {replica[r] : r \in Requests} \X Subjects |-> 0]
  /\ tokens = {} /\ users = [e \in Entries |-> 0]
  /\ binding \in [Subjects -> Stored] /\ account = [s \in Subjects |-> 0] /\ created = 0
  /\ disabled = {} /\ latest = [a \in Accounts |-> None] /\ adrift = {}

-----------------------------------------------------------------------------
\* A request goes on, or is over and gives up the gate.
Goto(r, label) == pc' = [pc EXCEPT ![r] = label]

\* Mutant of Emptied: whoever leaves takes the entry out of the map.
EmptiedAlways(e) == TRUE
Emptied(e) == users[e] = 1
\* done: the entry goes with its last user.
Leave(r) ==
  IF entry[r] = 0 THEN UNCHANGED <<entries, users>>
  ELSE /\ users' = [users EXCEPT ![entry[r]] = @ - 1]
       /\ entries' = IF Emptied(entry[r]) /\ entries[Key(r)] = entry[r] THEN [entries EXCEPT ![Key(r)] = 0] ELSE entries
InGate(r) == entry[r] # 0 /\ pc[r] # "gate"
\* release puts the token back before it leaves.
Finish(r, answer) ==
  /\ Goto(r, "done") /\ result' = [result EXCEPT ![r] = answer]
  /\ tokens' = IF InGate(r) THEN tokens \cup {entry[r]} ELSE tokens
  /\ Leave(r)
Fail(r) == Finish(r, 0) /\ UNCHANGED <<user, left, session, entry, nakamaVars>>
Advance(r, label) == Goto(r, label) /\ UNCHANGED <<result, tokens, entries, users>>

VerifyIdentity(r) ==
  /\ pc[r] = "new"
  /\ \/ Verified(CredentialOf[r]) # {} /\ Advance(r, "lookup") /\ UNCHANGED <<user, left, session, entry, nakamaVars>>
     \/ Fail(r)   \* refused, cancelled, or Google is out of reach

\* ResolveGoogleBinding, wherever the provisioner asks for it: without a document
\* the request goes on to where it was going.
Unbound(r) == CASE pc[r] = "lookup" -> "enter" [] pc[r] = "relookup" -> "authenticate" [] pc[r] = "wait" -> "wait"
Lookup(r) ==
  /\ pc[r] \in {"lookup", "relookup", "wait"}
  /\ LET d == binding[SubjectOf(r)] IN
     \/ d = None /\ pc[r] # "wait" /\ Advance(r, Unbound(r)) /\ UNCHANGED <<user, left, session, entry, nakamaVars>>
     \/ d = None /\ pc[r] = "wait" /\ left[r] > 0
        /\ left' = [left EXCEPT ![r] = @ - 1] /\ Advance(r, "wait") /\ UNCHANGED <<user, session, entry, nakamaVars>>
     \/ d = None /\ pc[r] = "wait" /\ left[r] = 0 /\ Fail(r)
     \/ d # None /\ ~Readable(d) /\ Fail(r)
     \/ d # None /\ Readable(d) /\ user' = [user EXCEPT ![r] = d.user]
        /\ Advance(r, "check") /\ UNCHANGED <<left, session, entry, nakamaVars>>

\* VerifyGoogleBoundAccount, before any answer.
CheckAccount(r) ==
  /\ pc[r] = "check"
  /\ IF user[r] \in {account[s] : s \in Subjects} \ disabled
     THEN Finish(r, user[r]) /\ UNCHANGED <<user, left, session, entry, nakamaVars>>
     ELSE Fail(r)

\* A read may fail or be cancelled, and so may the wait for the gate.
CallFails(r) ==
  /\ pc[r] \in {"lookup", "gate", "relookup", "verify", "wait", "bind", "reread", "check"}
  /\ Fail(r)

\* acquire: count in the key's entry, a new one if there is none, then its token.
EnterGate(r) ==
  /\ pc[r] = "enter"
  /\ LET fresh == entries[Key(r)] = 0
         e == IF fresh THEN CHOOSE i \in Entries : \A p \in Requests : entry[p] # i ELSE entries[Key(r)]
     IN  /\ entries' = [entries EXCEPT ![Key(r)] = e] /\ entry' = [entry EXCEPT ![r] = e]
         /\ users' = [users EXCEPT ![e] = @ + 1]
         /\ tokens' = IF fresh THEN tokens \cup {e} ELSE tokens
  /\ Goto(r, "gate") /\ UNCHANGED <<user, left, session, result, nakamaVars>>
TakeToken(r) ==
  /\ pc[r] = "gate" /\ entry[r] \in tokens
  /\ tokens' = tokens \ {entry[r]} /\ Goto(r, "relookup")
  /\ UNCHANGED <<user, left, session, result, entry, entries, users, nakamaVars>>

\* A call without an answer is performed no more, or may yet be.
Call(r) == [by |-> r, does |-> pc[r], user |-> user[r]]
Abandon(r) ==
  \/ UNCHANGED adrift
  \/ Cardinality(adrift) < MaxAdrift /\ adrift' = adrift \cup {Call(r)}

\* A session is one a request was given the token of, or one nobody waited for.
Given(r) == [by |-> r, given |-> TRUE]
Stray(r) == [by |-> r, given |-> FALSE]

\* AuthenticateEmail: a session of the e-mail's account, created if it may be.
SignIn(r, create, token) ==
  LET s == SubjectOf(r)
      new == account[s] = 0
      a == IF new THEN created + 1 ELSE account[s]
  IN  /\ create \/ ~new
      /\ new => created < MaxAccounts
      /\ account' = [account EXCEPT ![s] = a]
      /\ created' = IF new THEN created + 1 ELSE created
      /\ latest' = [latest EXCEPT ![a] = token]
      /\ UNCHANGED <<binding, disabled>>
Authenticate(r) ==
  /\ pc[r] \in {"authenticate", "reconcile"}
  /\ SignIn(r, pc[r] = "authenticate", Given(r))
  /\ session' = [session EXCEPT ![r] = account'[SubjectOf(r)]]
  /\ Advance(r, "verify") /\ UNCHANGED <<user, left, entry, adrift>>

\* Without a token the request is over, or asks again, without creating, when it is
\* told of an internal error, as the loser of two creations is.
Unanswered(r) ==
  /\ pc[r] \in {"authenticate", "reconcile"} /\ Abandon(r)
  /\ \/ pc[r] = "authenticate" /\ Advance(r, "reconcile")
     \/ Finish(r, 0)
  /\ UNCHANGED <<user, left, session, entry, binding, account, created, disabled, latest>>

\* VerifySession: a session another one ended is waited out, since whoever ended it
\* publishes the binding of the same identity.
VerifySession(r) ==
  /\ pc[r] = "verify"
  /\ LET live == latest[session[r]] = Given(r)
     IN  /\ user' = [user EXCEPT ![r] = IF live THEN session[r] ELSE @]
         /\ Advance(r, IF live THEN "bind" ELSE "wait")
  /\ UNCHANGED <<left, session, entry, nakamaVars>>

\* BindGoogleIdentity: read, create, and read again unless the creation is acknowledged.
ReadBinding(r) ==
  /\ pc[r] \in {"bind", "reread"}
  /\ LET d == binding[SubjectOf(r)] IN
     \/ d = None /\ pc[r] = "bind" /\ Advance(r, "write") /\ UNCHANGED <<user, left, session, entry, nakamaVars>>
     \/ (IF d = None THEN pc[r] = "reread" ELSE ~Readable(d)) /\ Fail(r)
     \/ d # None /\ Readable(d) /\ user' = [user EXCEPT ![r] = d.user]
        /\ Advance(r, "check") /\ UNCHANGED <<left, session, entry, nakamaVars>>

\* Mutant of Creates: the write is not conditional.
CreatesAlways(s) == TRUE
Creates(s) == binding[s] = None   \* Version "*"

WriteBinding(r) ==
  /\ pc[r] = "write"
  /\ LET s == SubjectOf(r) IN
     \/ Creates(s) /\ binding' = [binding EXCEPT ![s] = Document(user[r])] /\ Advance(r, "check") /\ UNCHANGED adrift
     \/ Advance(r, "reread") /\ Abandon(r) /\ UNCHANGED binding
  /\ UNCHANGED <<user, left, session, entry, account, created, disabled, latest>>

\* Nakama performs a call nobody waits for.
Land(c) ==
  /\ \/ /\ c.does = "write" /\ Creates(SubjectOf(c.by))
        /\ binding' = [binding EXCEPT ![SubjectOf(c.by)] = Document(c.user)]
        /\ UNCHANGED <<account, created, disabled, latest>>
     \/ c.does # "write" /\ SignIn(c.by, c.does = "authenticate", Stray(c.by))
  /\ adrift' = adrift \ {c} /\ UNCHANGED <<requestVars, gateVars>>

-----------------------------------------------------------------------------
\* What else happens to an account: a user deletes it, an operator disables it.
DeleteAccount(s) ==
  /\ account[s] # 0 /\ account' = [account EXCEPT ![s] = 0]
  /\ latest' = [latest EXCEPT ![account[s]] = None]
  /\ UNCHANGED <<requestVars, gateVars, binding, created, disabled, adrift>>
DisableAccount(a) ==
  /\ a <= created /\ a \notin disabled /\ disabled' = disabled \cup {a}
  /\ UNCHANGED <<requestVars, gateVars, binding, account, created, latest, adrift>>

Serve(r) ==
  \/ VerifyIdentity(r) \/ Lookup(r) \/ CheckAccount(r) \/ CallFails(r) \/ EnterGate(r) \/ TakeToken(r)
  \/ Authenticate(r) \/ Unanswered(r) \/ VerifySession(r) \/ ReadBinding(r) \/ WriteBinding(r)

Next ==
  /\ \/ \E r \in Requests : Serve(r)
     \/ \E c \in adrift : Land(c)
     \/ \E s \in Subjects : DeleteAccount(s)
     \/ \E a \in Accounts : DisableAccount(a)
  /\ UNCHANGED replica
Spec == Init /\ [][Next]_vars

-----------------------------------------------------------------------------
\* Whoever signs in with an identity, on whatever replica, is given the account it
\* stays bound to: every later sign-in finds that account or none, whatever was
\* created, lost or deleted in between (BindGoogleIdentity is create-only).
AnswerStaysBound ==
  \A r \in Requests : result[r] # 0 =>
    LET d == binding[SubjectOf(r)] IN d # None /\ Readable(d) /\ d.user = result[r]

\* Two first sign-ins that were both given tokens on one replica never end each
\* other's session: when a request finds its session ended, another replica, the end
\* of the account, or a call no one waited for any more did it (googleProvisioningGate).
EndedElsewhere ==
  \A r, q \in Requests :
    pc[r] = "verify" /\ r # q /\ latest[session[r]] = Given(q) => replica[q] # replica[r]

\* What the comment on the gate promises: a first sign-in authenticates, verifies and
\* publishes its winner before another on its replica issues a token.
IssuedInTurn ==
  \A r \in Requests :
    pc[r] = "verify" /\ latest[session[r]] \notin {Given(r), None} =>
      replica[latest[session[r]].by] # replica[r]
=============================================================================
