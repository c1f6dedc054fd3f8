------------------------------ MODULE Platform -------------------------------
(***************************************************************************)
(* What runs around the handoff: the services of the player's account, the *)
(* module that hosts them, the allocator's peer, the rows that are created  *)
(* once, and the update publisher.  They share nothing but the storage      *)
(* engine below them, so a behaviour is of one part; the variables of the   *)
(* others are None (no call is made of the player's), and a variable that   *)
(* two parts have is that of the part that runs.                            *)
(*                                                                         *)
(* player      calls of one account on one of its records: PlayerState     *)
(* signins     sign-ins with Google identities: Provisioning               *)
(* peer        one reservation of a pinned generation: AllocatorPeer       *)
(* creation    processes that create one generation: CreateOnce            *)
(* custody     handles on one zone lifetime: CreateOnce                    *)
(* friends     sessions of players: FriendGraph                            *)
(* document    this build, and later ones, on one row: LeaseDocument       *)
(* trust       commands of the publisher side by side: UpdateTrust         *)
(* module      the module inside Nakama: RuntimeModule                     *)
(***************************************************************************)
EXTENDS PlayerState

CONSTANTS SignIns, Placements, CredentialOf, Stored, MaxAccounts, MaxAdrift, MaxPolls,
          Members, Actor, Strangers, Addresses, Rank, MaxPages, Budget, MaxVersion,
          Creators, Want, Founds, Owners, Who, Receipts, MaxTries,
          Players, Sessions, MaxListLimit, DefaultListLimit,
          Builds, Documents, MaxWrites,
          Slots, TrustSessions,
          Handlers, Claims, Settings, Workers,
          None

VARIABLES part,
          pc, user, left, session, result, replica, entry, entries, tokens, users,
          binding, account, created, disabled, latest, adrift,
          pods, version, podsAt, slice, generation, list, listed, pages, observed, peer, late, native,
          row, sent, create, owner,
          edge, call, wanted, barred, told,
          writes, last, held, pending,
          file, command, run,
          stage, setting, life, closed, listener, worker, hook, finished

\* A key of the storage holds one document, if any.
ASSUME FoundsAreRows == \A found \in Founds : \A d, e \in found : d = e

\* The actor is of its generation, and the API server lists Pods in an order.
ASSUME PodsAreRanked ==
  /\ Actor \in Members /\ None \notin Members \cup Strangers
  /\ Rank \in [Members \cup Strangers -> Nat]

Nobody == {}
Provision == INSTANCE Provisioning WITH Requests <- SignIns
Peer == INSTANCE AllocatorPeer
Creation == INSTANCE CreateOnce WITH Owners <- Nobody
Custody == INSTANCE CreateOnce WITH Creators <- Nobody
Friends == INSTANCE FriendGraph
LeaseRow == INSTANCE LeaseDocument WITH Processes <- Builds
Trust == INSTANCE UpdateTrust WITH Sessions <- TrustSessions
Module == INSTANCE RuntimeModule WITH Calls <- Handlers

\* There are finitely many sign-ins, and neither a document nor a session is the lack
\* of one.
ASSUME SignInsAreFinite ==
  /\ IsFiniteSet(SignIns) /\ MaxAccounts \in Nat
  /\ \A a \in 1..MaxAccounts : Provision!Document(a) # None
  /\ \A r \in SignIns : Provision!Given(r) # None

\* A session's commands name files it may have, its documents have the members of
\* their kind, and the root's lists are cumulative: it revokes for good.
Filed(files) == {f.doc : f \in UNION {files[path] : path \in DOMAIN files}}
ListsIn(files) ==
  {d.body : d \in {d \in Filed(files) : d.kind = "revocation"}}
    \cup {d.body.rev.body : d \in {d \in Filed(files) : d.kind = "manifest" /\ d.body.rev.kind = "revocation"}}
ASSUME SessionsAreWhole ==
  \A session_ \in TrustSessions :
    /\ \A s \in Slots :
         LET c == session_.commands[s]  roles == Trust!Reads(c.op) IN
         /\ c.op \in {"canonicalize", "issue", "verify", "assemble"}
         /\ \A i \in 1..Len(roles) : c[roles[i]] \in DOMAIN session_.files
         /\ c.op # "verify" => c.output \in DOMAIN session_.files
    /\ \A d \in Filed(session_.files) :
         /\ "kind" \in DOMAIN d
         /\ d.kind \in {"revocation", "head", "manifest"} => "body" \in DOMAIN d
         /\ d.kind = "head" => d.body.floor \in Nat
ASSUME ListsAreCumulative ==
  \A session_ \in TrustSessions : \A old, new \in ListsIn(session_.files) :
    /\ old.version \in Nat
    /\ old.url = new.url /\ old.version <= new.version => old.ids \subseteq new.ids

-----------------------------------------------------------------------------
progressVars == <<pc, left, result>>
accountVars == <<user, replica, entry, entries, tokens, users, binding, account, created, disabled, latest,
                 adrift>>
peerVars == <<pods, version, podsAt, slice, generation, list, listed, pages, observed, peer, late, native>>
onceVars == <<sent, create, owner>>
friendVars == <<edge, wanted, barred, told>>
documentVars == <<writes, last, pending>>
trustVars == <<file, command, run>>
moduleVars == <<stage, setting, life, closed, listener, worker, hook, finished>>
platformVars == <<part, vars, progressVars, accountVars, session, peerVars, row, onceVars, friendVars, call,
                  documentVars, held, trustVars, moduleVars>>

\* The variables that are not of the part.
NoPlayer == /\ kind = None /\ record = NoRecord /\ audits = None /\ calls = [c \in Calls |-> Idle]
            /\ awarded = 0 /\ lost = 0
NoProgress == /\ pc = None /\ left = None /\ result = None
NoAccount == /\ user = None /\ replica = None /\ entry = None /\ entries = None /\ tokens = None
             /\ users = None /\ binding = None /\ account = None /\ created = None /\ disabled = None
             /\ latest = None /\ adrift = None
NoSession == session = None
NoPeer == /\ pods = None /\ version = None /\ podsAt = None /\ slice = None /\ generation = None
          /\ list = None /\ listed = None /\ pages = None /\ observed = None /\ peer = None
          /\ late = None /\ native = None
NoRow == row = None
NoOnce == /\ sent = None /\ create = None /\ owner = None
NoFriend == /\ edge = None /\ wanted = None /\ barred = None /\ told = None
NoCall == call = None
NoDocument == /\ writes = None /\ last = None /\ pending = None
NoHeld == held = None
NoTrust == /\ file = None /\ command = None /\ run = None
NoModule == /\ stage = None /\ setting = None /\ life = None /\ closed = None /\ listener = None
            /\ worker = None /\ hook = None /\ finished = None

PlatformInit ==
  \/ /\ part = "player" /\ Init
     /\ NoProgress /\ NoAccount /\ NoSession /\ NoPeer /\ NoRow /\ NoOnce /\ NoFriend /\ NoCall
     /\ NoDocument /\ NoHeld /\ NoTrust /\ NoModule
  \/ /\ part = "signins" /\ Provision!Init
     /\ NoPlayer /\ NoPeer /\ NoRow /\ NoOnce /\ NoFriend /\ NoCall /\ NoDocument /\ NoHeld /\ NoTrust
     /\ NoModule
  \/ /\ part = "peer" /\ Peer!Init
     /\ NoPlayer /\ NoAccount /\ NoSession /\ NoRow /\ NoOnce /\ NoFriend /\ NoCall /\ NoDocument
     /\ NoHeld /\ NoTrust /\ NoModule
  \/ /\ part = "creation" /\ Creation!Init
     /\ NoPlayer /\ NoProgress /\ NoAccount /\ NoSession /\ NoPeer /\ NoFriend /\ NoCall /\ NoDocument
     /\ NoHeld /\ NoTrust /\ NoModule
  \/ /\ part = "custody" /\ Custody!Init
     /\ NoPlayer /\ NoProgress /\ NoAccount /\ NoSession /\ NoPeer /\ NoFriend /\ NoCall /\ NoDocument
     /\ NoHeld /\ NoTrust /\ NoModule
  \/ /\ part = "friends" /\ Friends!Init
     /\ NoPlayer /\ NoProgress /\ NoAccount /\ NoPeer /\ NoRow /\ NoOnce /\ NoDocument /\ NoHeld
     /\ NoTrust /\ NoModule
  \/ /\ part = "document" /\ LeaseRow!Init
     /\ NoPlayer /\ NoProgress /\ NoAccount /\ NoSession /\ NoPeer /\ NoOnce /\ NoFriend /\ NoCall
     /\ NoTrust /\ NoModule
  \/ /\ part = "trust" /\ Trust!Init
     /\ NoPlayer /\ NoProgress /\ NoAccount /\ NoSession /\ NoPeer /\ NoRow /\ NoOnce /\ NoFriend
     /\ NoCall /\ NoDocument /\ NoHeld /\ NoModule
  \/ /\ part = "module" /\ Module!Init
     /\ NoPlayer /\ NoProgress /\ NoAccount /\ NoSession /\ NoPeer /\ NoRow /\ NoOnce /\ NoFriend
     /\ NoDocument /\ NoTrust

PlatformNext ==
  /\ \/ /\ part = "player" /\ Next
        /\ UNCHANGED <<progressVars, accountVars, session, peerVars, row, onceVars, friendVars, call,
                      documentVars, held, trustVars, moduleVars>>
     \/ /\ part = "signins" /\ Provision!Next
        /\ UNCHANGED <<vars, peerVars, row, onceVars, friendVars, call, documentVars, held, trustVars,
                      moduleVars>>
     \/ /\ part = "peer" /\ Peer!Next
        /\ UNCHANGED <<vars, accountVars, session, row, onceVars, friendVars, call, documentVars, held,
                      trustVars, moduleVars>>
     \/ /\ part = "creation" /\ Creation!Next
        /\ UNCHANGED <<vars, progressVars, accountVars, session, peerVars, friendVars, call,
                      documentVars, held, trustVars, moduleVars>>
     \/ /\ part = "custody" /\ Custody!Next
        /\ UNCHANGED <<vars, progressVars, accountVars, session, peerVars, friendVars, call,
                      documentVars, held, trustVars, moduleVars>>
     \/ /\ part = "friends" /\ Friends!Next
        /\ UNCHANGED <<vars, progressVars, accountVars, peerVars, row, onceVars, documentVars, held,
                      trustVars, moduleVars>>
     \/ /\ part = "document" /\ LeaseRow!Next
        /\ UNCHANGED <<vars, progressVars, accountVars, session, peerVars, onceVars, friendVars, call,
                      trustVars, moduleVars>>
     \/ /\ part = "trust" /\ Trust!Next
        /\ UNCHANGED <<vars, progressVars, accountVars, session, peerVars, row, onceVars, friendVars,
                      call, documentVars, held, moduleVars>>
     \/ /\ part = "module" /\ Module!Next
        /\ UNCHANGED <<vars, progressVars, accountVars, session, peerVars, row, onceVars, friendVars,
                      documentVars, trustVars>>
  /\ UNCHANGED part

PlatformSpec == PlatformInit /\ [][PlatformNext]_platformVars

-----------------------------------------------------------------------------
\* Whoever signs in with an identity is given the account it stays bound to, and of two
\* first sign-ins on one replica that were given tokens neither ends the other's session.
SignInsAgree == part = "signins" => Provision!AnswerStaysBound /\ Provision!EndedElsewhere

\* What the comment on the gate says: on one replica a first sign-in publishes its
\* winner before another issues a token.
SignInsInTurn == part = "signins" => Provision!IssuedInTurn

\* A reservation is dispatched under one observed generation, to its actor, and is
\* refused only while nothing was written for it.
DispatchJustified ==
  part = "peer" => Peer!ObservationTrue /\ Peer!DispatchedUnderGeneration /\ Peer!RefusalIsFinal

\* Everyone who is told that a create-once row is theirs is told of the same row.
RowsCreatedOnce ==
  /\ part = "creation" => Creation!MembershipHolds
  /\ part = "custody" => Custody!OneCustody

\* Friends are friends by consent, and a block is its owner's secret.
FriendsGated == part = "friends" => Friends!FriendsByConsent /\ Friends!BlocksStayHidden

\* This build neither touches a row of a later schema nor loses what it rewrites.
RowsSurviveUpgrade ==
  [][part = "document" => LeaseRow!ExpandedUntouched /\ LeaseRow!RewriteKeepsLease]_<<row, last>>

\* A revoked leaf signs nothing that is accepted, and what was published stays.
TrustHolds == part = "trust" => Trust!RevokedStaysOut /\ Trust!OutputStands

\* Until the shutdown has waited for them no connection is closed while a handler or
\* a sweep runs, and an initialization that fails keeps nothing it acquired.
ConnectionsAccounted == part = "module" => Module!ConnectionsOutliveUse /\ Module!FailureKeepsNothing
=============================================================================
