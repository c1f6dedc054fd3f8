----------------------------- MODULE MCPlatform -----------------------------
(***************************************************************************)
(* Small instances of the parts of Platform.                               *)
(*                                                                         *)
(* player      two calls                                                   *)
(* signins     three sign-ins of one identity, on one replica or on two    *)
(* peer        a generation of two Pods and a stranger                     *)
(* creation    three creators, one with other members in mind              *)
(* custody     three handles, one of them a restart under the same name    *)
(* friends     three sessions of two players                               *)
(* document    two processes of this build                                 *)
(* trust       six sessions of four commands                               *)
(* module      a request of each kind and both sweeps, from every setting  *)
(***************************************************************************)
EXTENDS Platform, TLC

CONSTANTS c1, c2, c3, r1, r2, r3, k1, k2, k3, o1, o2, o3, m1, m2, p1, p2

-----------------------------------------------------------------------------
\* An award, a death, the reclaim of its stain, a second death, and the reuse of
\* an identity for another award.
MCEvents ==
  {[key |-> "a", op |-> "award", weapon |-> "axe", amount |-> 150],
   [key |-> "a", op |-> "award", weapon |-> "axe", amount |-> 60],
   [key |-> "d", op |-> "death", percent |-> 50],
   [key |-> "e", op |-> "death", percent |-> 100],
   [key |-> "r", op |-> "reclaim", stain |-> "d"]}

Ore  == [item |-> "ore", count |-> 2]
Rope == [item |-> "rope", count |-> 1]
\* One container in two orders, another under its key, one with an item twice.
MCContainers ==
  {[key |-> "a", stacks |-> <<Ore, Rope>>], [key |-> "a", stacks |-> <<Rope, Ore>>],
   [key |-> "a", stacks |-> <<Rope>>], [key |-> "d", stacks |-> <<Ore, Rope>>],
   [key |-> "d", stacks |-> <<Ore, [Ore EXCEPT !.count = 1]>>]}
MCCharacters ==
  {[key |-> "a", name |-> "Ash", recipe |-> <<"hair", "eyes">>],
   [key |-> "a", name |-> "Ash", recipe |-> <<"eyes", "hair">>],
   [key |-> "d", name |-> "Bo", recipe |-> <<"eyes">>],
   [key |-> "d", name |-> "", recipe |-> <<"eyes">>]}


-----------------------------------------------------------------------------
Credential(subject) ==
  [segments |-> 3, oversized |-> FALSE, alg |-> "RS256", validated |-> "ok",
   issuer |-> "accounts.google.com", subject |-> subject]
MCCredentialOf == [r \in SignIns |-> Credential("sub")]
\* A document that names a member twice.
MCStored == {None, [members |-> <<"schema", "user_id", "user_id">>, schema |-> 1, user |-> 1]}
MCPlacements == {[r \in SignIns |-> "A"], [r \in SignIns |-> IF r = r3 THEN "B" ELSE "A"]}

\* Only a well-formed RS256 token Google issued and vouches for names a subject.
ASSUME VerifiedLaw ==
  \A c \in [segments : {2, 3, 4}, oversized : BOOLEAN, alg : {"RS256", "none"}, validated : {"ok", "rejected", "unreachable"},
            issuer : Provision!Issuers \cup {"other"}, subject : {"", "sub"}] :
    Provision!Verified(c) # {} <=> c = [Credential("sub") EXCEPT !.issuer = c.issuer] /\ c.issuer # "other"

\* The sign-ins that share a replica are alike.
Alike == Permutations({r1, r2})

-----------------------------------------------------------------------------
MCRank == k1 :> 1 @@ k2 :> 2 @@ k3 :> 3

-----------------------------------------------------------------------------
MCWant == c1 :> {m1} @@ c2 :> {m1} @@ c3 :> {m1, m2}
\* o2 is o1 restarted under its name; o3 competes with them.
MCWho  == o1 :> "first" @@ o2 :> "first" @@ o3 :> "second"
MCReceipts == {[matches |-> TRUE, lease |-> 1], [matches |-> FALSE, lease |-> 1]}
Found(schema, members, digest, state) ==
  {[schema |-> schema, members |-> members, digest |-> digest, state |-> state]}
MCFounds == {{}, Found(1, {m1}, {m1}, "open"), Found(2, {m1}, {m1}, "open"),
             Found(2, {m1}, {m1}, "draining"), Found(1, {m1}, {m2}, "open"), Found(1, {m1}, {m1}, "draining")}

-----------------------------------------------------------------------------
Binding == {"generation", "members", "pod"}
Marks == {"staging", "dispatched", "dispatch_id", "releasing"}
\* The bindings a document may hold: none, a whole one, half of one, or nulls.
Bindings == {[k \in {} |-> "set"], [k \in Binding |-> "set"], [k \in {"pod"} |-> "set"],
             [k \in Binding |-> "zero"], [k \in Binding |-> "null"]}
Flags == UNION {[present -> {"set"}] : present \in SUBSET Marks}
           \cup {[k \in {"releasing"} |-> "null"], [k \in {"dispatched"} |-> "zero"]}
Stamps == {[k \in {"allocation", "claimed"} |-> IF k = "claimed" THEN c ELSE a] :
             a \in {"set", "zero"}, c \in {"set", "zero", "null"}} \cup {[k \in {"allocation"} |-> "set"]}

Merged(f, g) == [k \in DOMAIN f \cup DOMAIN g |-> IF k \in DOMAIN f THEN f[k] ELSE g[k]]

MCDocuments ==
  {[schema |-> s, clean |-> TRUE, members |-> Merged(Merged(b, f), t)] :
     s \in 1..5, b \in Bindings, f \in Flags, t \in Stamps}
    \cup {[schema |-> 3, clean |-> FALSE, members |-> CHOOSE t \in Stamps : TRUE]}

-----------------------------------------------------------------------------
\* The instances are signed as the publisher signs, whatever its sessions are.
Signer == INSTANCE UpdateTrust WITH Sessions <- {}

Doc(type, body) == [kind |-> type, flaws |-> {}, spelling |-> "other", sig |-> {}, body |-> body]
Key(half, k) == [kind |-> half, key |-> k, flaws |-> {"no JSON"}]

CertDraft(k) == Doc("certificate", [fit |-> TRUE, id |-> k, key |-> k, epoch |-> 1, from |-> 0, until |-> 744])
LongDraft    == Doc("certificate", [fit |-> TRUE, id |-> "k1", key |-> "k1", epoch |-> 1, from |-> 0, until |-> 745])
RevDraft(v, ids) == Doc("revocation", [fit |-> TRUE, url |-> "head", version |-> v, ids |-> ids])
HeadDraft(f) == Doc("head", [fit |-> TRUE, url |-> "head", floor |-> f, until |-> 24])
Facts(until) == Doc("facts", [fit |-> TRUE, until |-> until])

File(doc) == [regular |-> TRUE, owned |-> TRUE, doc |-> doc]
Base ==
  [root |-> Key("private", "root"), rootPub |-> Key("public", "root"),
   leaf1 |-> Key("private", "k1"), leaf2 |-> Key("private", "k2"),
   certDraft |-> CertDraft("k1"), longDraft |-> LongDraft, list1Draft |-> RevDraft(1, {}), list2Draft |-> RevDraft(2, {"k1"}),
   head1Draft |-> HeadDraft(1), head2Draft |-> HeadDraft(2), facts |-> Facts(24), twiceFacts |-> [Facts(24) EXCEPT !.flaws = {"duplicate member"}],
   longFacts |-> Facts(25),
   cert1 |-> Signer!Signed(CertDraft("k1"), "root"), cert2 |-> Signer!Signed(CertDraft("k2"), "root"),
   list1 |-> Signer!Signed(RevDraft(1, {}), "root"), list2 |-> Signer!Signed(RevDraft(2, {"k1"}), "root"),
   head1 |-> Signer!Signed(HeadDraft(1), "root"), head2 |-> Signer!Signed(HeadDraft(2), "root")]
Outputs == {"out", "bundle"}

\* Some of the base files, one of them perhaps readable by others.
Files(paths, loose) ==
  [p \in DOMAIN Base \cup Outputs |->
     IF p \in paths THEN {[File(Base[p]) EXCEPT !.owned = p \notin loose]} ELSE {}]
Command == [op |-> "canonicalize", kind |-> "", input |-> "facts", root |-> "rootPub", head |-> "head1",
            cert |-> "cert1", rev |-> "list1", private |-> "leaf1", observed |-> 1, output |-> "out"]
Issue(type, in, out) == [Command EXCEPT !.op = "issue", !.kind = type, !.input = in, !.private = "root", !.output = out]
Assemble(revs, head, out) == [Command EXCEPT !.op = "assemble", !.rev = revs, !.head = head, !.output = out]
Verify(head, at) == [Command EXCEPT !.op = "verify", !.input = "bundle", !.head = head, !.observed = at, !.output = ""]

All == DOMAIN Base
MCTrustSessions ==
  { \* a list and its head go out while a bundle is assembled and verified
    [files |-> Files(All \ {"list2"}, {}), commands |-> <<Issue("revocation", "list2Draft", "list2"),
       Assemble("list1", "head1", "bundle"), Verify("head1", 2), Verify("head2", 2)>>],
    \* two assemblies race to one path; one is made under the newer list
    [files |-> Files(All, {}), commands |-> <<Assemble("list1", "head1", "bundle"),
       [Assemble("list2", "head2", "bundle") EXCEPT !.cert = "cert2", !.private = "leaf2"],
       Verify("head2", 2), Verify("head1", 24)>>],
    \* a chain from nothing
    [files |-> Files(All \ {"cert1", "list1", "head1"}, {}), commands |-> <<Issue("certificate", "certDraft", "cert1"),
       Issue("revocation", "list1Draft", "list1"), Issue("head", "head1Draft", "head1"), Assemble("list1", "head1", "bundle")>>],
    \* refusals: a leaf that is revoked, a key others can read, a window too long, facts too long
    [files |-> Files(All, {"leaf2"}), commands |-> <<Assemble("list2", "head1", "bundle"),
       [Assemble("list1", "head1", "bundle") EXCEPT !.cert = "cert2", !.private = "leaf2"],
       Issue("certificate", "longDraft", "out"), [Assemble("list1", "head1", "bundle") EXCEPT !.input = "longFacts"]>>],
    \* canonical text, a document signed twice, one of the wrong kind
    [files |-> Files(All, {}), commands |-> <<[Command EXCEPT !.input = "twiceFacts"], Issue("revocation", "list1", "out"),
       Issue("head", "list1Draft", "bundle"), [Verify("head1", 2) EXCEPT !.input = "cert1"]>>],
    [files |-> Files(All, {}), commands |-> <<Command, Command, Verify("head1", 2),
       Assemble("list1", "head1", "bundle")>>] }

-----------------------------------------------------------------------------
\* The certificates a claims listener may be given.
Cert(key, signer, ca) == [key |-> key, signer |-> signer, ca |-> ca, valid |-> TRUE, clients |-> TRUE, serves |-> TRUE]
Root == Cert("root", "root", TRUE)
Leaf == Cert("leaf", "mid", FALSE)
Mid  == Cert("mid", "root", TRUE)
Material(static, chain, allocator) == [static |-> static, roots |-> {Root}, chain |-> chain, allocator |-> allocator]
Materials == {Material(static, chain, allocator) :
                static \in BOOLEAN, chain \in {<<Leaf, Mid>>, <<Leaf, Root>>}, allocator \in {{"agones"}, {"mid"}}}
MCSettings == [enabled : {"", "true", "yes"}, complete : BOOLEAN, claims : {"false", "true", "no"},
               orphans : {"", "true", "no"}, material : Materials]

\* The chain that is served decides; a key with two roles is refused.
ASSUME TrustedLaw ==
  \A m \in Materials : Module!Trusted(m) <=> m.chain = <<Leaf, Mid>> /\ (m.static => m.allocator = {"agones"})
=============================================================================
