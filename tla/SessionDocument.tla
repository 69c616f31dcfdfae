---------------------------- MODULE SessionDocument ----------------------------
(***************************************************************************)
(* The canonical session document of src/src/postgres-session-authority.mjs *)
(* and the rules that its readers apply to it: what one row of              *)
(* session_authority.sessions may hold, how its revision, its active        *)
(* pointer and its terminal anchor relate to each other, and how the        *)
(* business state (lifecycle, epoch, lease, attachment, launch) relates to  *)
(* the operation that produced it.                                          *)
(*                                                                          *)
(* Abstractions.  Identifiers that the authority derives from an operation  *)
(* identifier (lease, attachment, reservation, checkpoint and generation    *)
(* identifiers) are that operation identifier.  A digest is the value it    *)
(* digests.  A null is a record whose id is None.  The instant at which a   *)
(* lease expires is the number of times the lease was extended (term).      *)
(***************************************************************************)
EXTENDS Integers

CONSTANTS
    OpId,          \* operation identifiers, unique across sessions
    None,          \* the null identifier
    MaxRevision,   \* MAX_POSTGRES_BIGINT, the last session revision
    MaxEpoch       \* UINT64_MAX, the last writer epoch

ASSUME NoneAssumption == None \notin OpId

ASSUME BoundAssumption == MaxRevision \in Nat /\ MaxEpoch \in Nat \ {0}

IdOrNone == OpId \cup {None}

Kinds ==
    {"writer-attachment-acquire", "writer-lease-renew", "writer-release",
     "writer-force-fence", "atomic-crash-capture", "checkpoint-capture",
     "restore-generation", "restore-activation", "writer-launch-attempt",
     "writer-launch-stop", "generic"}

\* The kinds whose dispatch, uncertainty and outcome are typed transitions.
\* An operation of any other kind is only reserved, claimed, marked uncertain
\* or cancelled by this authority.
WriterKinds ==
    {"writer-attachment-acquire", "writer-release", "writer-force-fence"}

TypedKinds ==
    WriterKinds \cup
    {"checkpoint-capture", "restore-generation", "restore-activation",
     "writer-launch-attempt", "writer-launch-stop"}

Lifecycles ==
    {"DETACHED", "ATTACHING", "ATTACHED", "RELEASING", "FENCING", "BLOCKED"}

ActivePhases == {"prepared", "starting", "uncertain"}

Phases == ActivePhases \cup {"absent", "committed"}

Outcomes ==
    {"none", "cancelled-before-dispatch", "writer-attached",
     "writer-lease-renewed", "writer-released", "writer-fenced",
     "writer-blocked", "checkpoint-captured", "restore-generation-committed",
     "restore-attachment-activated", "writer-launch-started",
     "writer-launch-not-started", "writer-launch-complete-stopped",
     "writer-launch-stopped"}

--------------------------------------------------------------------------------
(* The records of the document and of the operation rows. *)

NoLease == [id |-> None, epoch |-> 0, term |-> 0]

NoAttachment == [id |-> None, epoch |-> 0]

NoLaunch == [id |-> None, attachment |-> None, generation |-> None, epoch |-> 0]

NoPointer ==
    [id |-> None, kind |-> "generic", state |-> "absent",
     expected |-> 0, revision |-> 0]

Leases == [id : IdOrNone, epoch : 0 .. MaxEpoch, term : Nat]

Attachments == [id : IdOrNone, epoch : 0 .. MaxEpoch]

\* canonicalWriterLaunchPointer
Launches ==
    [id : IdOrNone, attachment : IdOrNone, generation : IdOrNone,
     epoch : 0 .. MaxEpoch]

\* canonicalActiveOperation, canonicalLastOperation
Pointers ==
    [id : IdOrNone, kind : Kinds, state : Phases,
     expected : 0 .. MaxRevision, revision : 0 .. 3]

Snapshots ==
    [revision : 0 .. MaxRevision, lifecycle : Lifecycles,
     epoch : 0 .. MaxEpoch, lease : Leases, attachment : Attachments,
     launch : Launches, active : Pointers, last : Pointers]

(* A request is its kind and contract version with the identifiers it binds: *)
(* target     the attachment a release or a fence acts on                    *)
(* intent     the operation that a handoff creates when this one succeeds    *)
(* source     the checkpoint of a generation; the generation of an           *)
(*            activation or of a launch                                      *)
(* stop       the stop operation that a checkpoint capture names             *)
Requests ==
    [kind : Kinds, version : 1 .. 3, target : IdOrNone, intent : IdOrNone,
     source : IdOrNone, stop : IdOrNone]

Results ==
    [outcome : Outcomes, epoch : 0 .. MaxEpoch, lease : Leases,
     attachment : Attachments, target : IdOrNone]

Operations ==
    [request : Requests, state : Phases, revision : 0 .. 3,
     expected : Snapshots, result : Results]

NoRequest ==
    [kind |-> "generic", version |-> 1, target |-> None, intent |-> None,
     source |-> None, stop |-> None]

NoResult ==
    [outcome |-> "none", epoch |-> 0, lease |-> NoLease,
     attachment |-> NoAttachment, target |-> None]

\* registerSession: the document of a fresh session, at revision 0.
RegisteredSession ==
    [revision |-> 0, lifecycle |-> "DETACHED", epoch |-> 0, lease |-> NoLease,
     attachment |-> NoAttachment, launch |-> NoLaunch, active |-> NoPointer,
     last |-> NoPointer]

NoOperation ==
    [request |-> NoRequest, state |-> "absent", revision |-> 0,
     expected |-> RegisteredSession, result |-> NoResult]

--------------------------------------------------------------------------------
(* Rules on one document. *)

\* canonicalLeaseAttachmentBinding: the attachment was made under this lease.
LeaseBindsAttachment(d) ==
    /\ d.attachment.id = d.lease.id
    /\ d.attachment.epoch = d.lease.epoch

HasWriter(d) == d.lease # NoLease /\ d.attachment # NoAttachment

NoWriter(d) ==
    d.lease = NoLease /\ d.attachment = NoAttachment /\ d.launch = NoLaunch

DispatchedAs(d, kinds) ==
    d.active.kind \in kinds /\ d.active.state \in {"starting", "uncertain"}

\* canonicalDocument: the state a lifecycle allows.
LifecycleRule(d) ==
    CASE d.lifecycle = "DETACHED" ->
            /\ NoWriter(d)
            /\ d.active.kind = "writer-attachment-acquire"
                 => d.active.state = "prepared"
      [] d.lifecycle = "ATTACHING" ->
            /\ d.lease # NoLease
            /\ d.attachment = NoAttachment
            /\ d.launch = NoLaunch
            /\ d.lease.epoch = d.epoch
            /\ DispatchedAs(d, {"writer-attachment-acquire",
                                "restore-activation"})
      [] d.lifecycle = "ATTACHED" ->
            /\ HasWriter(d)
            /\ d.lease.epoch = d.epoch
            /\ LeaseBindsAttachment(d)
      [] d.lifecycle = "RELEASING" ->
            /\ HasWriter(d)
            /\ d.lease.epoch = d.epoch
            /\ d.launch = NoLaunch
            /\ LeaseBindsAttachment(d)
            /\ DispatchedAs(d, {"writer-release"})
      [] d.lifecycle = "FENCING" ->
            /\ d.lease # NoLease
            /\ d.epoch > d.lease.epoch
            /\ d.attachment # NoAttachment => LeaseBindsAttachment(d)
            /\ DispatchedAs(d, {"writer-force-fence"})
      [] d.lifecycle = "BLOCKED" ->
            /\ d.lease # NoLease
            /\ d.epoch >= d.lease.epoch
            /\ d.attachment # NoAttachment => LeaseBindsAttachment(d)
            /\ d.last # NoPointer
            /\ \/ d.active = NoPointer
               \/ /\ d.active.kind = "writer-force-fence"
                  /\ d.active.state = "prepared"

CanonicalDocument(d) ==
    /\ LifecycleRule(d)
    /\ (d.lifecycle = "ATTACHED" \/ (d.lifecycle = "DETACHED" /\ d.epoch # 0))
         => d.last # NoPointer

\* The session revision that a pointer accounts for.
RevisionOf(p) == p.expected + p.revision + 1

\* validateSessionRevisionState
RevisionState(d) ==
    LET settled == IF d.last = NoPointer THEN 0 ELSE RevisionOf(d.last) IN
    IF d.active = NoPointer
    THEN d.revision = settled
    ELSE d.revision = RevisionOf(d.active) /\ d.active.expected = settled

\* canonicalBusinessBytes: what the document says about the writer.
Business(d) == <<d.lifecycle, d.epoch, d.lease, d.attachment, d.launch>>

--------------------------------------------------------------------------------
(* Rules on a document and the operation it points to. *)

\* The lease a dispatch of operation i mints (writerLeaseFor).
MintedBy(d, i, expected) ==
    /\ d.epoch = expected.epoch + 1
    /\ d.lease.id = i
    /\ d.lease.epoch = expected.epoch + 1

\* validateActiveBusinessState
ActiveBusiness(d, i, o) ==
    LET k == o.request.kind
        x == o.expected
    IN
    IF k = "atomic-crash-capture"
    THEN o.state = "prepared" /\ Business(d) = Business(x)
    ELSE IF o.state = "prepared" \/ k \notin WriterKinds \cup {"restore-activation"}
    THEN Business(d) = Business(x)
    ELSE
    CASE k = "writer-release" ->
            /\ d.lifecycle = "RELEASING"
            /\ d.epoch = x.epoch
            /\ d.lease = x.lease
            /\ d.attachment = x.attachment
      [] k = "writer-force-fence" ->
            /\ d.lifecycle = "FENCING"
            /\ d.epoch = x.epoch + 1
            /\ d.lease = x.lease
            /\ d.attachment = x.attachment
            /\ d.launch = x.launch
      [] OTHER ->
            /\ d.lifecycle = "ATTACHING"
            /\ MintedBy(d, i, x)
            /\ d.attachment = NoAttachment

\* validateTerminalBusinessState
TerminalBusiness(d, o) ==
    LET r == o.result
        x == o.expected
        outcome == r.outcome
    IN
    CASE outcome = "cancelled-before-dispatch" ->
            x.lifecycle # "BLOCKED" /\ Business(d) = Business(x)
      [] outcome \in {"writer-attached", "writer-lease-renewed",
                      "restore-attachment-activated"} ->
            /\ d.lifecycle = "ATTACHED"
            /\ d.epoch = r.lease.epoch
            /\ d.lease = r.lease
            /\ d.attachment = r.attachment
            /\ d.launch = x.launch
      [] outcome = "writer-released" ->
            /\ d.lifecycle = "DETACHED"
            /\ d.epoch = r.lease.epoch
            /\ d.lease = NoLease /\ d.attachment = NoAttachment
      [] outcome = "writer-fenced" ->
            /\ d.lifecycle = "DETACHED"
            /\ d.epoch = r.epoch
            /\ d.lease = NoLease /\ d.attachment = NoAttachment
      [] outcome \in {"checkpoint-captured", "restore-generation-committed",
                      "writer-launch-not-started",
                      "writer-launch-complete-stopped"} ->
            x.lifecycle = "ATTACHED" /\ Business(d) = Business(x)
      [] outcome = "writer-launch-started" ->
            /\ d.lifecycle = "ATTACHED"
            /\ d.lease = x.lease
            /\ d.attachment = x.attachment
            /\ d.launch.generation = o.request.source
            /\ d.launch.attachment = x.attachment.id
      [] outcome = "writer-launch-stopped" ->
            /\ d.launch = NoLaunch
            /\ Business(d) = Business([x EXCEPT !.launch = NoLaunch])
      [] outcome = "writer-blocked" ->
            /\ d.lifecycle = "BLOCKED"
            /\ d.epoch = r.epoch
            /\ d.lease = r.lease
            /\ d.attachment = r.attachment
            /\ d.launch = x.launch
      [] OTHER -> FALSE

\* validateActivePointer
ActivePointerRule(d, i, o) ==
    /\ o.state \in ActivePhases
    /\ d.active = [id |-> i, kind |-> o.request.kind, state |-> o.state,
                   expected |-> o.expected.revision, revision |-> o.revision]
    /\ ActiveBusiness(d, i, o)

\* validateLastOperationPointer
LastPointerRule(d, i, o) ==
    /\ d.active = NoPointer
    /\ o.state = "committed"
    /\ d.last = [id |-> i, kind |-> o.request.kind, state |-> "committed",
                 expected |-> o.expected.revision, revision |-> o.revision]
    /\ TerminalBusiness(d, o)

================================================================================
