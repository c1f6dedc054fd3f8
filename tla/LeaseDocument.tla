---------------------------- MODULE LeaseDocument ----------------------------
(***************************************************************************)
(* The stored form of a lease (nakamalease) while builds of three ages     *)
(* share one row: documents an older build left, this build, and a later   *)
(* build that writes the expanded schema, with the allocator's binding,    *)
(* which this build reads and must never write over.                       *)
(*                                                                         *)
(* What a document says is abstracted to which of its members are set,     *)
(* zero, null or absent.  LeaseStore models what each operation does to    *)
(* the lease; here every operation is a read, a check of the durable row   *)
(* and a write or removal at an exact version.                             *)
(***************************************************************************)
EXTENDS Naturals

CONSTANTS Processes,  \* processes of this build
          Documents,  \* the documents older and later builds may have left
          None,
          MaxWrites   \* bound of the model on the writes of a run

Legacy == 1
Previous == 2
Current == 3
Readable == 4

PostLegacy   == {"staging", "dispatched", "dispatch_id", "releasing"}
PostPrevious == {"dispatched", "dispatch_id"}
BindingKeys  == {"generation", "members", "pod"}
\* Always present in the expanded schema; identity and expiry are left out.
Required     == {"allocation", "claimed"} \cup BindingKeys

\* A document: its schema, whether no member is unknown, repeated or aliased, and
\* its members.
Member(doc, key) == IF key \in DOMAIN doc.members THEN doc.members[key] ELSE "absent"
IsSet(doc, key)  == Member(doc, key) = "set"

-----------------------------------------------------------------------------
\* normalizeLease and validAllocatorBinding.
WellFormed(lease) ==
  /\ lease.binding \in {{}, BindingKeys}
  /\ lease.readerOnly => (lease.binding = {}) = (lease.staging /\ ~lease.dispatched)
  /\ lease.staging # lease.allocation
  /\ lease.claimed => ~lease.staging /\ ~lease.releasing
  /\ lease.dispatched => lease.staging
  /\ lease.dispatched = lease.dispatch_id

\* Mutant of BindingFits: an older schema may hold anything of the binding.
BindingUnchecked(doc) == TRUE
\* validBindingMembers: only the claim stamp may be null.
BindingFits(doc) ==
  IF doc.schema # Readable THEN DOMAIN doc.members \cap BindingKeys = {}
  ELSE /\ Required \subseteq DOMAIN doc.members
       /\ \A k \in DOMAIN doc.members : doc.members[k] = "null" => k = "claimed"

\* leaseFrom: the lease a document holds, or nothing.
LeaseFrom(doc) ==
  LET lease == [allocation |-> IsSet(doc, "allocation"), claimed |-> IsSet(doc, "claimed"),
                staging |-> IsSet(doc, "staging"), dispatched |-> IsSet(doc, "dispatched"),
                dispatch_id |-> IsSet(doc, "dispatch_id"), releasing |-> IsSet(doc, "releasing"),
                binding |-> {k \in BindingKeys : IsSet(doc, k)}, readerOnly |-> doc.schema = Readable]
  IN  IF /\ doc.clean /\ doc.schema \in Legacy..Readable
         /\ Member(doc, "claimed") # "zero"
         /\ doc.schema = Legacy => DOMAIN doc.members \cap PostLegacy = {}
         /\ BindingFits(doc)
         /\ doc.schema = Previous => DOMAIN doc.members \cap PostPrevious = {}
         /\ WellFormed(lease)
      THEN {lease} ELSE {}

\* documentFrom: flags that are not set are left out, and the binding always.
DocumentFrom(lease) ==
  LET value(k) == IF lease[k] THEN "set" ELSE IF k = "claimed" THEN "null" ELSE "zero"
  IN  [schema |-> Current, clean |-> TRUE,
       members |-> [k \in {"allocation", "claimed"} \cup {j \in PostLegacy : lease[j]} |-> value(k)]]

\* What a later build writes, as this build expects it: flags left out as here.
ExpandedFrom(lease) ==
  [DocumentFrom(lease) EXCEPT !.schema = Readable,
     !.members = [k \in DOMAIN @ \cup BindingKeys |->
                    IF k \in DOMAIN @ THEN @[k] ELSE IF k \in lease.binding THEN "set" ELSE "zero"]]

Staged == [allocation |-> FALSE, claimed |-> FALSE, staging |-> TRUE, dispatched |-> FALSE, dispatch_id |-> FALSE,
           releasing |-> FALSE, binding |-> {}, readerOnly |-> FALSE]

\* The leases one operation makes of another: dispatch, publication, claim, fence.
Successors(lease) ==
  {l \in {[lease EXCEPT !.dispatched = TRUE, !.dispatch_id = TRUE],
          [lease EXCEPT !.staging = FALSE, !.allocation = TRUE, !.dispatched = FALSE, !.dispatch_id = FALSE],
          [lease EXCEPT !.claimed = TRUE], [lease EXCEPT !.releasing = TRUE]} : WellFormed(l) /\ l # lease}

-----------------------------------------------------------------------------
VARIABLES row,      \* the stored document and its version, or None
          writes,   \* versions given so far
          last,     \* who changed the row last, and the lease it meant
          held,     \* by process: the record it observed, or None
          pending   \* by process: the write it passed the check for, or None

vars == <<row, writes, last, held, pending>>

Init ==
  /\ row \in {None} \cup {[doc |-> d, version |-> 0] : d \in Documents}
  /\ writes = 0 /\ last = [by |-> "older", lease |-> {}]
  /\ held = [p \in Processes |-> None] /\ pending = [p \in Processes |-> None]

Lease(r) == IF r = None THEN {} ELSE LeaseFrom(r.doc)

\* A write at a new version, or a removal.
Write(by, doc, meant) ==
  /\ writes < MaxWrites /\ writes' = writes + 1
  /\ row' = [doc |-> doc, version |-> writes + 1] /\ last' = [by |-> by, lease |-> {meant}]
Remove(by) == row' = None /\ last' = [by |-> by, lease |-> {}] /\ UNCHANGED writes

\* Load and LoadForClaim.
Load(p) ==
  /\ pending[p] = None
  /\ \E lease \in Lease(row) : held' = [held EXCEPT ![p] = [lease |-> lease, version |-> row.version]]
  /\ UNCHANGED <<row, writes, last, pending>>

\* A caller builds the observation anew from the fields it knows: the schema it was
\* read from and a binding are not among them.
Reconstruct(p) ==
  /\ held[p] # None /\ pending[p] = None
  /\ held' = [held EXCEPT ![p].lease = [@ EXCEPT !.readerOnly = FALSE, !.binding = {}]]
  /\ WellFormed(held'[p].lease)
  /\ UNCHANGED <<row, writes, last, pending>>

\* Create: a write that demands that there is no row.
Create(p) ==
  /\ held[p] = None /\ pending[p] = None /\ row = None
  /\ Write("this", DocumentFrom(Staged), Staged)
  /\ UNCHANGED <<held, pending>>

\* Mutant of WriterMay: what the caller observed decides.
WriterTrusts(version) == row # None /\ row.version = version
\* requireWriterKey: the durable row decides, whatever the caller observed.
WriterMay(version) ==
  \E lease \in Lease(row) : ~lease.readerOnly /\ row.version = version

\* writeKey up to its StorageWrite, for a transition of the observed lease; the
\* removal of a session or of an expired lease asks the same.
Check(p) ==
  /\ held[p] # None /\ pending[p] = None
  /\ \E next \in Successors(held[p].lease) \cup {None} :
       IF /\ ~held[p].lease.readerOnly /\ held[p].lease.binding = {}
          /\ WriterMay(held[p].version)
       THEN pending' = [pending EXCEPT ![p] = [next |-> {next} \ {None}, version |-> held[p].version]] /\ UNCHANGED held
       ELSE held' = [held EXCEPT ![p] = None] /\ UNCHANGED pending
  /\ UNCHANGED <<row, writes, last>>

\* StorageWrite or StorageDelete at the observed version; a rejected one changes nothing.
Commit(p) ==
  /\ pending[p] # None
  /\ IF row = None \/ row.version # pending[p].version THEN UNCHANGED <<row, writes, last>>
     ELSE \/ pending[p].next = {} /\ Remove("this")
          \/ \E lease \in pending[p].next : Write("this", DocumentFrom(lease), lease)
  /\ held' = [held EXCEPT ![p] = None] /\ pending' = [pending EXCEPT ![p] = None]

\* A later build moves a row on, in its own schema, with the binding of the
\* allocator once an allocation was dispatched, or ends it.
Expand ==
  /\ \E lease \in Lease(row) :
       \E next \in {lease} \cup Successors(lease) :
         LET bound == [next EXCEPT !.readerOnly = TRUE,
                         !.binding = IF next.staging /\ ~next.dispatched THEN {} ELSE BindingKeys]
         IN  Write("later", ExpandedFrom(bound), bound)
  /\ UNCHANGED <<held, pending>>
Retire == row # None /\ Remove("later") /\ UNCHANGED <<held, pending>>

Next == Expand \/ Retire \/ \E p \in Processes : Load(p) \/ Reconstruct(p) \/ Create(p) \/ Check(p) \/ Commit(p)
Spec == Init /\ [][Next]_vars

-----------------------------------------------------------------------------
\* A row of the expanded schema is changed or removed by a later build only,
\* whichever operations of this build overlap its upgrade and whatever their callers
\* remember of the row; nor is a document this build cannot read (ErrReaderOnly).
ExpandedUntouched ==
  row # None /\ (row.doc.schema = Readable \/ Lease(row) = {}) /\ row' # row => last'.by = "later"

\* No member is lost on a rewrite by this build: of the document it replaces, whatever
\* its age, a binding was never part, and what this build writes it reads back as the
\* lease it meant.
RewriteKeepsLease ==
  last'.by = "this" /\ row' # row /\ row' # None =>
    /\ Lease(row') = last'.lease
    /\ row # None => DOMAIN row.doc.members \cap BindingKeys = {}
=============================================================================
