----------------------------- MODULE UpdateTrust -----------------------------
(***************************************************************************)
(* The offline update publisher (server/cmd/updatepublisher and             *)
(* internal/updatepublisher): operators on one file system issue root       *)
(* signed certificates, revocation lists and heads, assemble a manifest     *)
(* under a certified leaf key, and verify one against a head of their own.  *)
(*                                                                         *)
(* A file holds a document or a key.  A document has a kind, a body, at     *)
(* most one signature and a spelling; what is signed is the body.  Times    *)
(* are hours.  `fit' stands for the fields of a body being all there, known *)
(* and well formed; `flaws' are those of its text.                          *)
(***************************************************************************)
EXTENDS Integers, FiniteSets, Sequences

CONSTANTS Slots,     \* the commands of a session run side by side
          Sessions   \* each: the files there are, and slot by slot the command

VARIABLES file,     \* path |-> what is there, if anything
          command,  \* slot |-> the command
          run       \* slot |-> where it is, what it has read, made and said

vars == <<file, command, run>>

-----------------------------------------------------------------------------
CertificateHours == 31 * 24
PublicationHours == 24

\* What the strict parser refuses in a text, and what it then writes.
Flaws == {"over 1 MiB", "not UTF-8", "unpaired surrogate", "duplicate member", "deeper than 64",
          "number beyond 2^53 or no integer", "trailing input", "no JSON"}
Parses(doc) == doc.flaws \cap Flaws = {}
Canonical(doc) == [doc EXCEPT !.spelling = "canonical"]

Signed(doc, key) == [Canonical(doc) EXCEPT !.sig = {[by |-> key, of |-> doc.body]}]
Verified(doc, key) == doc.sig = {[by |-> key, of |-> doc.body]}

\* validateDocument: a document of this kind that holds at this time.
Within(kind, body, at) ==
  /\ kind = "certificate" => body.from < body.until /\ body.from <= at /\ at < body.until
  /\ kind = "head" => at < body.until
Valid(kind, doc, at) ==
  /\ kind \in {"certificate", "revocation", "head"}
  /\ doc.kind = kind /\ doc.body.fit /\ Within(kind, doc.body, at)

\* What this tool will issue; what it verifies may have been issued for longer.
WithinBudget(kind, body, at) ==
  /\ kind = "certificate" => body.until - body.from <= CertificateHours
  /\ kind \in {"head", "manifest"} => body.until - at <= PublicationHours

MaySign(kind, doc, at) ==
  Parses(doc) /\ Valid(kind, doc, at) /\ WithinBudget(kind, doc.body, at) /\ doc.sig = {}

\* Mutant of MeetsFloor: the embedded list is believed to be the last.
MeetsAnyFloor(rev, head) == TRUE
MeetsFloor(rev, head) == rev.body.version >= head.body.floor

\* checkChain: the leaf is certified, not revoked by the list it comes with, and
\* that list is not older than the independent head allows.
ChainHolds(cert, rev, head, root, at) ==
  /\ \A part \in {<<"certificate", cert>>, <<"revocation", rev>>, <<"head", head>>} :
       Verified(part[2], root) /\ Valid(part[1], part[2], at)
  /\ rev.body.url = head.body.url
  /\ MeetsFloor(rev, head)
  /\ cert.body.id \notin rev.body.ids

ManifestHolds(body, at) ==
  body.fit /\ at < body.until /\ body.epoch = body.cert.body.epoch

VerifyBundle(bundle, head, root, at) ==
  /\ Parses(bundle) /\ Parses(head) /\ bundle.kind = "manifest"
  /\ ChainHolds(bundle.body.cert, bundle.body.rev, head, root, at)
  /\ Verified(bundle, bundle.body.cert.body.key)
  /\ ManifestHolds(bundle.body, at)

Manifest(facts, cert, rev) ==
  [kind |-> "manifest", flaws |-> {}, spelling |-> "canonical", sig |-> {},
   body |-> [fit |-> facts.body.fit, until |-> facts.body.until,
             cert |-> Canonical(cert), rev |-> Canonical(rev), epoch |-> cert.body.epoch]]

\* Assemble; the set of what it returns.
Assembled(facts, cert, rev, head, root, leaf, at) ==
  LET manifest == Manifest(facts, cert, rev)
      bundle == Signed(manifest, leaf) IN
  IF /\ \A doc \in {facts, cert, rev, head} : Parses(doc)
     /\ facts.kind = "facts"                        \* it carries no trust field yet
     /\ ChainHolds(cert, rev, head, root, at) /\ cert.body.key = leaf
     /\ ManifestHolds(manifest.body, at) /\ WithinBudget("manifest", manifest.body, at)
     /\ VerifyBundle(bundle, head, root, at)
  THEN {bundle} ELSE {}

-----------------------------------------------------------------------------
Reads(op) ==
  CASE op = "canonicalize" -> <<"input">>
    [] op = "issue"        -> <<"input", "private">>
    [] op = "verify"       -> <<"input", "root", "head">>
    [] op = "assemble"     -> <<"input", "root", "head", "cert", "rev", "private">>

Fresh == [at |-> "read", got |-> <<>>, made |-> {}, temp |-> "none", said |-> "nothing"]

Init ==
  \E session \in Sessions :
    /\ file = session.files
    /\ command = session.commands
    /\ run = [s \in Slots |-> Fresh]

Goes(s, at) == run' = [run EXCEPT ![s].at = at]
Ends(s, said) == run' = [run EXCEPT ![s] = [@ EXCEPT !.at = "done", !.said = said,
                                                     !.temp = "none"]]

\* readFile: one bounded regular file, and a private key its owner's only.
Readable(path, role) ==
  \E f \in file[path] : f.regular /\ (role = "private" => f.owned)

Read(s) ==
  LET roles == Reads(command[s].op)
      role == roles[Len(run[s].got) + 1]
      path == command[s][role] IN
  /\ run[s].at = "read" /\ UNCHANGED <<file, command>>
  /\ \/ Ends(s, "failed")
     \/ /\ Readable(path, role)
        /\ run' = [run EXCEPT ![s] = [@ EXCEPT
             !.got = Append(run[s].got, (CHOOSE f \in file[path] : TRUE).doc),
             !.at = IF Len(run[s].got) + 1 = Len(roles) THEN "work" ELSE "read"]]

\* A key file that holds no P-256 key of the right half, or none, is refused.
IsKey(doc, half) == doc.kind = half

Result(c, got) ==
  CASE c.op = "canonicalize" -> {Canonical(d) : d \in {d \in {got[1]} : Parses(d)}}
    [] c.op = "issue" -> IF IsKey(got[2], "private") /\ MaySign(c.kind, got[1], c.observed)
                         THEN {Signed(got[1], got[2].key)} ELSE {}
    [] c.op = "assemble" -> IF IsKey(got[2], "public") /\ IsKey(got[6], "private")
                            THEN Assembled(got[1], got[4], got[5], got[3], got[2].key, got[6].key, c.observed)
                            ELSE {}
    [] OTHER -> {}

Work(s) ==
  LET c == command[s]
      got == run[s].got IN
  /\ run[s].at = "work" /\ UNCHANGED <<file, command>>
  /\ IF c.op = "verify"
     THEN Ends(s, IF IsKey(got[2], "public") /\ VerifyBundle(got[1], got[3], got[2].key, c.observed)
                  THEN "accepted" ELSE "failed")
     ELSE IF Result(c, got) = {} THEN Ends(s, "failed")
     ELSE run' = [run EXCEPT ![s] = [@ EXCEPT !.at = "stage", !.made = Result(c, got)]]

\* publishNew writes, syncs and closes a temporary file, then links it.
Stage(s) ==
  /\ run[s].at = "stage" /\ UNCHANGED <<file, command>>
  /\ \/ Ends(s, "failed")
     \/ run' = [run EXCEPT ![s] = [@ EXCEPT !.at = "staging", !.temp = "partial"]]
Staged(s) ==
  /\ run[s].at = "staging" /\ UNCHANGED <<file, command>>
  /\ \/ Ends(s, "failed")
     \/ run' = [run EXCEPT ![s] = [@ EXCEPT !.at = "link", !.temp = "whole"]]

\* Mutant of MayLink: the staged file is renamed over what is there.
MayReplace(path) == TRUE
MayLink(path) == file[path] = {}

Link(s) ==
  LET path == command[s].output IN
  /\ run[s].at = "link" /\ UNCHANGED command
  /\ \/ Ends(s, "failed") /\ UNCHANGED file
     \/ /\ MayLink(path)
        /\ file' = [file EXCEPT ![path] = {[regular |-> TRUE, owned |-> TRUE, doc |-> d] : d \in run[s].made}]
        /\ Goes(s, "linked")

\* The temporary name is removed, or is left behind: that fails nothing.
Exit(s) ==
  /\ run[s].at = "linked" /\ UNCHANGED <<file, command>>
  /\ Ends(s, "published")

Killed(s) ==
  /\ run[s].at \notin {"done", "killed"} /\ Goes(s, "killed") /\ UNCHANGED <<file, command>>

Next == \E s \in Slots : \/ Read(s) \/ Work(s) \/ Stage(s) \/ Staged(s)
                         \/ Link(s) \/ Exit(s) \/ Killed(s)

Spec == Init /\ [][Next]_vars

-----------------------------------------------------------------------------
\* Every root-signed revocation list there is at an endpoint.
Lists(url) == {d \in {f.doc : f \in UNION {file[p] : p \in DOMAIN file}} :
                 d.kind = "revocation" /\ d.sig # {} /\ d.body.url = url}

\* A verifier who holds a head accepts nothing signed by a leaf that a list the
\* head's floor covers has revoked, whatever older list the manifest brings along
\* and whenever it was assembled (the root's lists being cumulative).
RevokedStaysOut ==
  \A s \in Slots : run[s].said = "accepted" =>
    LET bundle == run[s].got[1]  head == run[s].got[3] IN
    \A list \in Lists(head.body.url) :
      list.body.version <= head.body.floor => bundle.body.cert.body.id \notin list.body.ids

\* A command that said it published has its own output at its path from then on,
\* whoever else was writing there; one that did not replaced nothing.
OutputStands ==
  \A s \in Slots : run[s].said = "published" =>
    file[command[s].output] = {[regular |-> TRUE, owned |-> TRUE, doc |-> d] : d \in run[s].made}
=============================================================================
