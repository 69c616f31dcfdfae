------------------------- MODULE SessionAuthorityProofs -------------------------
(***************************************************************************)
(* What the session authority guarantees for every set of operation         *)
(* identifiers, every bound on revisions and epochs, whatever its callers   *)
(* offer and whatever they promise: the types of its rows, the abstract     *)
(* fenced lease that it implements, and what becomes of its writers.        *)
(***************************************************************************)
EXTENDS SessionAuthority, TLAPS

--------------------------------------------------------------------------------
(* The types of the records that the transactions write. *)

LEMMA NullTypes ==
    /\ NoLease \in Leases
    /\ NoAttachment \in Attachments
    /\ NoLaunch \in Launches
    /\ NoPointer \in Pointers
    /\ NoRequest \in Requests
<1> USE BoundAssumption DEF IdOrNone
<1>1. NoLease \in Leases /\ NoAttachment \in Attachments /\ NoLaunch \in Launches
  BY DEF NoLease, Leases, NoAttachment, Attachments, NoLaunch, Launches
<1>2. NoPointer \in Pointers BY DEF NoPointer, Pointers, Kinds, Phases, ActivePhases
<1>3. NoRequest \in Requests BY DEF NoRequest, Requests, Kinds
<1> QED BY <1>1, <1>2, <1>3

LEMMA NoResultType == NoResult \in Results
BY NullTypes, BoundAssumption DEF NoResult, Results, Outcomes, IdOrNone

LEMMA RegisteredSessionType == RegisteredSession \in Snapshots
BY NullTypes, BoundAssumption DEF RegisteredSession, Snapshots, Lifecycles

LEMMA NoOperationType == NoOperation \in Operations
BY NullTypes, NoResultType, RegisteredSessionType DEF NoOperation, Operations, Phases

LEMMA PointerType ==
    ASSUME NEW i \in OpId, NEW o \in Operations
    PROVE  Pointer(i, o) \in Pointers
BY DEF Pointer, Pointers, Operations, Requests, Snapshots, IdOrNone

LEMMA ActivatedType ==
    ASSUME NEW d \in Snapshots, NEW i \in OpId, NEW o \in Operations,
           d.revision + 1 <= MaxRevision
    PROVE  Activated(d, i, o) \in Snapshots
<1> DEFINE p == Pointer(i, o)
<1>1. p \in Pointers BY PointerType
<1> HIDE DEF p
<1>2. d.revision + 1 \in 0 .. MaxRevision BY BoundAssumption DEF Snapshots
<1>3. [d EXCEPT !.revision = d.revision + 1, !.active = p] \in Snapshots
  BY <1>1, <1>2 DEF Snapshots
<1> QED BY <1>3 DEF Activated, p

LEMMA SettledType ==
    ASSUME NEW d \in Snapshots, NEW i \in OpId, NEW o \in Operations,
           d.revision + 1 <= MaxRevision
    PROVE  /\ Settled(d, i, o) \in Snapshots
           /\ Settled(d, i, o).revision = d.revision + 1
<1> DEFINE p == Pointer(i, o)
<1>1. p \in Pointers BY PointerType
<1> HIDE DEF p
<1>2. d.revision + 1 \in 0 .. MaxRevision BY BoundAssumption DEF Snapshots
<1>3. [d EXCEPT !.revision = d.revision + 1, !.active = NoPointer, !.last = p] \in Snapshots
  BY <1>1, <1>2, NullTypes DEF Snapshots
<1> QED BY <1>3 DEF Settled, p, Snapshots

LEMMA PreparedRowType ==
    ASSUME NEW r \in Requests, NEW x \in Snapshots
    PROVE  PreparedRow(r, x) \in Operations
BY NoResultType DEF PreparedRow, Operations, Phases, ActivePhases

LEMMA CommittedRowType ==
    ASSUME NEW o \in Operations, NEW result \in Results, o.revision <= 2
    PROVE  CommittedRow(o, result) \in Operations
<1>1. o.revision + 1 \in 0 .. 3 BY DEF Operations
<1>2. "committed" \in Phases BY DEF Phases
<1> QED BY <1>1, <1>2 DEF CommittedRow, Operations

PhaseRow(o, phase, n) == [o EXCEPT !.state = phase, !.revision = n]

LEMMA PhaseRowType ==
    ASSUME NEW o \in Operations, NEW phase \in Phases, NEW n \in 0 .. 3
    PROVE  /\ PhaseRow(o, phase, n) \in Operations
           /\ PhaseRow(o, phase, n).state = phase
           /\ PhaseRow(o, phase, n).revision = n
           /\ PhaseRow(o, phase, n).request = o.request
           /\ PhaseRow(o, phase, n).expected = o.expected
           /\ PhaseRow(o, phase, n).result = o.result
BY DEF Operations, PhaseRow

LEMMA OutcomeType ==
    ASSUME NEW outcome \in Outcomes
    PROVE  Outcome(outcome) \in Results
BY NoResultType DEF Outcome, Results

LEMMA WriterResultType ==
    ASSUME NEW outcome \in Outcomes, NEW e \in 0 .. MaxEpoch, NEW l \in Leases,
           NEW a \in Attachments, NEW t \in IdOrNone
    PROVE  WriterResult(outcome, e, l, a, t) \in Results
BY DEF WriterResult, Results

--------------------------------------------------------------------------------
(* The type invariant.  It is inductive only with the revision that each     *)
(* phase of an operation has, so that a row never counts past 3, and with    *)
(* the versions of activations, which decide how many revisions remain when  *)
(* one hands over.                                                           *)

PhaseRevisions ==
    \A i \in OpId :
        /\ ops[i].state = "prepared" => ops[i].revision = 0
        /\ ops[i].state = "starting" => ops[i].revision = 1
        /\ ops[i].state = "uncertain" => ops[i].revision = 2

ActivationVersions ==
    \A i \in OpId :
        ops[i].request.kind = "restore-activation" => ops[i].request.version \in 1 .. 2

TypedRows ==
    /\ session \in Snapshots
    /\ ops \in [OpId -> Operations]
    /\ reservations \in [OpId -> ActivePhases \cup {"absent", "released"}]
    /\ PhaseRevisions
    /\ ActivationVersions

TypedInv ==
    /\ TypedRows
    /\ claims \in [OpId -> Claims]
    /\ leaseExpired \in BOOLEAN

LEMMA InitTyped == Init => TypedInv
<1> SUFFICES ASSUME Init PROVE TypedInv
  OBVIOUS
<1>1. session \in Snapshots /\ ops \in [OpId -> Operations]
  BY RegisteredSessionType, NoOperationType DEF Init
<1>2. PhaseRevisions /\ ActivationVersions
  BY DEF Init, PhaseRevisions, ActivationVersions, NoOperation, NoRequest
<1>3. claims \in [OpId -> Claims] BY DEF Init, Claims, NoClaim, ClaimTypes, IdOrNone
<1> QED BY <1>1, <1>2, <1>3 DEF Init, TypedInv, TypedRows

LEMMA SpaceLemma ==
    ASSUME session \in Snapshots, NEW n \in Nat \ {0}, Space(n)
    PROVE  session.revision + 1 <= MaxRevision
BY BoundAssumption DEF Space, Snapshots

LEMMA DispatchSpaceType ==
    ASSUME NEW r \in Requests
    PROVE  DispatchSpace(r) \in Nat \ {0}
BY DEF DispatchSpace

LEMMA FinalizeSpaceType ==
    ASSUME NEW r \in Requests
    PROVE  FinalizeSpace(r) \in Nat \ {0}
BY DEF FinalizeSpace

LEMMA StartTyped ==
    ASSUME TypedRows, NEW i \in OpId, NEW d \in Snapshots,
           d.revision = session.revision, session.revision + 1 <= MaxRevision,
           Start(i, d)
    PROVE  TypedRows'
<1> DEFINE o == PhaseRow(ops[i], "starting", 1)
<1>a. ops[i] \in Operations BY DEF TypedRows
<1>b. "starting" \in Phases BY DEF Phases, ActivePhases
<1>1. /\ o \in Operations
      /\ o.state = "starting" /\ o.revision = 1
      /\ o.request = ops[i].request
  BY <1>a, <1>b, 1 \in 0 .. 3, PhaseRowType
<1>3. /\ ops' = [ops EXCEPT ![i] = o]
      /\ reservations' = [reservations EXCEPT ![i] = "starting"]
      /\ session' = Activated(d, i, o)
  BY DEF Start, PhaseRow
<1> HIDE DEF o
<1>4. session' \in Snapshots BY <1>1, <1>3, ActivatedType
<1>5. ops' \in [OpId -> Operations] /\ PhaseRevisions' /\ ActivationVersions'
  BY <1>1, <1>3 DEF TypedRows, PhaseRevisions, ActivationVersions
<1>6. reservations' \in [OpId -> ActivePhases \cup {"absent", "released"}]
  BY <1>3 DEF TypedRows, ActivePhases
<1> QED BY <1>4, <1>5, <1>6 DEF TypedRows

LEMMA CommitTyped ==
    ASSUME TypedRows, NEW i \in OpId, NEW result \in Results, NEW d \in Snapshots,
           d.revision = session.revision, session.revision + 1 <= MaxRevision,
           ops[i].state \in ActivePhases, Commit(i, result, d)
    PROVE  TypedRows'
<1> DEFINE o == CommittedRow(ops[i], result)
<1>1. ops[i].revision <= 2 /\ ops[i] \in Operations
  BY DEF TypedRows, PhaseRevisions, ActivePhases
<1>2. o \in Operations BY <1>1, CommittedRowType
<1>3. o.state = "committed" /\ o.request = ops[i].request
  BY <1>1 DEF CommittedRow, Operations
<1>4. /\ ops' = [ops EXCEPT ![i] = o]
      /\ reservations' = [reservations EXCEPT ![i] = "released"]
      /\ session' = Settled(d, i, o)
  BY DEF Commit
<1> HIDE DEF o
<1>5. session' \in Snapshots BY <1>2, <1>4, SettledType
<1>6. ops' \in [OpId -> Operations] /\ PhaseRevisions' /\ ActivationVersions'
  BY <1>2, <1>3, <1>4 DEF TypedRows, PhaseRevisions, ActivationVersions
<1>7. reservations' \in [OpId -> ActivePhases \cup {"absent", "released"}]
  BY <1>4 DEF TypedRows
<1> QED BY <1>5, <1>6, <1>7 DEF TypedRows

LEMMA HandoffTyped ==
    ASSUME TypedInv, NEW i \in OpId, NEW result \in Results, NEW d \in Snapshots,
           d.revision = session.revision, session.revision + 2 <= MaxRevision,
           ops[i].state \in ActivePhases, NEW j \in OpId, NEW r \in Requests,
           r.kind # "restore-activation", CommitAndReserve(i, result, d, j, r)
    PROVE  TypedRows' /\ claims' \in [OpId -> Claims]
<1> DEFINE o == CommittedRow(ops[i], result)
           settled == Settled(d, i, o)
           next == PreparedRow(r, settled)
<1> USE DEF TypedInv
<1>1. ops[i].revision <= 2 /\ ops[i] \in Operations
  BY DEF TypedRows, PhaseRevisions, ActivePhases
<1>2. o \in Operations BY <1>1, CommittedRowType
<1>3. o.state = "committed" /\ o.request = ops[i].request
  BY <1>1 DEF CommittedRow, Operations
<1>4. d.revision + 1 <= MaxRevision BY BoundAssumption DEF Snapshots
<1>5. settled \in Snapshots /\ settled.revision = d.revision + 1 BY <1>2, <1>4, SettledType
<1>6. /\ next \in Operations
      /\ next.state = "prepared" /\ next.revision = 0 /\ next.request = r
  BY <1>5, PreparedRowType DEF PreparedRow
<1>7. /\ ops' = [ops EXCEPT ![i] = o, ![j] = next]
      /\ reservations' = [reservations EXCEPT ![i] = "released", ![j] = "prepared"]
      /\ claims' = [claims EXCEPT ![j] = [claims[j] EXCEPT !.materialized = TRUE]]
      /\ session' = Activated(settled, j, next)
  BY DEF CommitAndReserve
<1>8. settled.revision + 1 <= MaxRevision BY <1>5, BoundAssumption DEF Snapshots
<1> HIDE DEF o, settled, next
<1>9. session' \in Snapshots BY <1>5, <1>6, <1>7, <1>8, ActivatedType
<1>10. ops' \in [OpId -> Operations] /\ PhaseRevisions' /\ ActivationVersions'
  BY <1>2, <1>3, <1>6, <1>7 DEF TypedRows, PhaseRevisions, ActivationVersions
<1>11. reservations' \in [OpId -> ActivePhases \cup {"absent", "released"}]
  BY <1>7 DEF TypedRows, ActivePhases
<1>12. claims' \in [OpId -> Claims] BY <1>7 DEF Claims
<1> QED BY <1>9, <1>10, <1>11, <1>12 DEF TypedRows

LEMMA RequestsTyped ==
    ASSUME TypedInv, NEW i \in OpId, NEW r \in RequestsOf(i)
    PROVE  /\ r \in Requests
           /\ r.kind = "restore-activation" => r.version \in 1 .. 2
<1>1. /\ session.attachment.id \in IdOrNone
      /\ session.last.id \in IdOrNone
      /\ \A j \in OpId : ops[j].expected.attachment.id \in IdOrNone
  BY DEF TypedInv, TypedRows, Snapshots, Attachments, Pointers, Operations
<1>2. FenceTargets \subseteq IdOrNone BY <1>1 DEF FenceTargets, IdOrNone
<1>3. ASSUME NEW kind PROVE Existing(kind) \subseteq OpId /\ Intended(kind) \subseteq OpId
  BY DEF Existing, Intended
<1>4. CASE r \in AcquireRequests
  BY <1>4, NullTypes DEF AcquireRequests, NoRequest, Requests, Kinds
<1>5. CASE r \in ReleaseRequests
  BY <1>1, <1>5, NullTypes DEF ReleaseRequests, NoRequest, Requests, Kinds
<1>6. CASE r \in FenceRequests(i)
  BY <1>2, <1>3, <1>6 DEF FenceRequests, Requests, Kinds, IdOrNone
<1>7. CASE r \in CaptureRequests
  BY <1>1, <1>7 DEF CaptureRequests, Requests, Kinds, IdOrNone
<1>8. CASE r \in GenerationRequests(i)
  BY <1>3, <1>8 DEF GenerationRequests, Requests, Kinds, IdOrNone
<1>9. CASE r \in ActivationRequests(i)
  BY <1>1, <1>3, <1>9 DEF ActivationRequests, Requests, Kinds, IdOrNone
<1>10. CASE r \in LaunchRequests
  BY <1>3, <1>10 DEF LaunchRequests, Requests, Kinds, IdOrNone
<1>11. CASE r \in StopRequests(i) BY <1>3, <1>11 DEF StopRequests, Requests, Kinds, IdOrNone
<1>12. CASE r = NoRequest BY <1>12, NullTypes DEF NoRequest
<1> QED BY <1>4, <1>5, <1>6, <1>7, <1>8, <1>9, <1>10, <1>11, <1>12 DEF RequestsOf

LEMMA ReserveTyped ==
    ASSUME TypedInv, NEW i \in OpId, NEW r \in RequestsOf(i), ReserveOperation(i, r)
    PROVE  TypedInv'
<1> DEFINE o == PreparedRow(r, session)
<1>1. r \in Requests /\ (r.kind = "restore-activation" => r.version \in 1 .. 2)
  BY RequestsTyped
<1>2. session \in Snapshots BY DEF TypedInv, TypedRows
<1>3. /\ o \in Operations
      /\ o.state = "prepared" /\ o.revision = 0 /\ o.request = r
  BY <1>1, <1>2, PreparedRowType DEF PreparedRow
<1>4. session.revision + 1 <= MaxRevision
  <2>1. Space(2) \/ Space(4) BY DEF ReserveOperation, ReserveSpace
  <2> QED BY <1>2, <2>1, BoundAssumption DEF Space, Snapshots
<1>5. /\ ops' = [ops EXCEPT ![i] = o]
      /\ reservations' = [reservations EXCEPT ![i] = "prepared"]
      /\ session' = Activated(session, i, o)
      /\ leaseExpired' = leaseExpired
  BY DEF ReserveOperation
<1> HIDE DEF o
<1>6. session' \in Snapshots BY <1>2, <1>3, <1>4, <1>5, ActivatedType
<1>7. ops' \in [OpId -> Operations] /\ PhaseRevisions' /\ ActivationVersions'
  BY <1>1, <1>3, <1>5 DEF TypedInv, TypedRows, PhaseRevisions, ActivationVersions
<1>8. reservations' \in [OpId -> ActivePhases \cup {"absent", "released"}]
  BY <1>5 DEF TypedInv, TypedRows, ActivePhases
<1>9. claims' \in [OpId -> Claims]
  <2>1. claims \in [OpId -> Claims] BY DEF TypedInv
  <2>2. [type |-> "direct", claimant |-> i, materialized |-> TRUE] \in Claims
    BY DEF Claims, ClaimTypes, IdOrNone
  <2>3. [claims[i] EXCEPT !.materialized = TRUE] \in Claims BY <2>1 DEF Claims
  <2> QED BY <2>1, <2>2, <2>3 DEF ReserveOperation
<1> QED BY <1>5, <1>6, <1>7, <1>8, <1>9 DEF TypedInv, TypedRows

LEMMA MintTyped ==
    ASSUME session \in Snapshots, EpochLeft, NEW i \in OpId
    PROVE  LET d == [session EXCEPT !.lifecycle = "ATTACHING", !.epoch = NextEpoch,
                                    !.lease = MintedLease(i)]
           IN d \in Snapshots /\ d.revision = session.revision
<1>1. NextEpoch \in 0 .. MaxEpoch BY BoundAssumption DEF EpochLeft, NextEpoch, Snapshots
<1>2. MintedLease(i) \in Leases BY <1>1 DEF MintedLease, Leases, IdOrNone
<1> QED BY <1>1, <1>2 DEF Snapshots, Lifecycles

LEMMA ClaimForTyped ==
    ASSUME TypedInv, NEW i \in OpId, NEW j,
           NEW type \in ClaimTypes
    PROVE  ClaimFor(j, type, i) \in [OpId -> Claims]
<1>1. [type |-> type, claimant |-> i, materialized |-> FALSE] \in Claims
  BY DEF Claims, IdOrNone
<1> QED BY <1>1 DEF ClaimFor, TypedInv

\* A dispatch writes one operation row and leaves the registry typed.
LEMMA DispatchTyped ==
    ASSUME TypedInv, NEW i \in OpId, Dispatch(i)
    PROVE  TypedInv'
<1>0. /\ TypedRows /\ session \in Snapshots
      /\ claims \in [OpId -> Claims] /\ leaseExpired \in BOOLEAN
      /\ ops[i].request \in Requests
  BY DEF TypedInv, TypedRows, Operations
<1>1. ASSUME Space(DispatchSpace(ops[i].request)) PROVE session.revision + 1 <= MaxRevision
  BY <1>0, <1>1, SpaceLemma, DispatchSpaceType
<1>2. {"fence-capture-intent", "restore-launch-intent", "activation-launch-intent",
       "stop-capture-intent"} \subseteq ClaimTypes
  BY DEF ClaimTypes
<1>3. CASE ClaimWriterAttachmentDispatch(i)
  <2>1. EpochLeft /\ session.revision + 1 <= MaxRevision
    BY <1>1, <1>3 DEF ClaimWriterAttachmentDispatch, AcquireDispatchable
  <2>2. TypedRows'
    BY <1>0, <1>3, <2>1, MintTyped, StartTyped DEF ClaimWriterAttachmentDispatch
  <2> QED BY <1>0, <1>3, <2>2 DEF ClaimWriterAttachmentDispatch, TypedInv
<1>4. CASE ClaimWriterReleaseDispatch(i)
  <2> DEFINE d == [session EXCEPT !.lifecycle = "RELEASING"]
  <2>1. d \in Snapshots /\ d.revision = session.revision BY <1>0 DEF Snapshots, Lifecycles
  <2>2. session.revision + 1 <= MaxRevision /\ Start(i, d)
    BY <1>1, <1>4 DEF ClaimWriterReleaseDispatch, ReleaseDispatchable
  <2> HIDE DEF d
  <2>3. TypedRows' BY <1>0, <2>1, <2>2, StartTyped
  <2> QED BY <1>0, <1>4, <2>3 DEF ClaimWriterReleaseDispatch, TypedInv
<1>5. CASE ClaimWriterForceFenceDispatch(i)
  <2> DEFINE d == [session EXCEPT !.lifecycle = "FENCING", !.epoch = NextEpoch]
  <2>1. NextEpoch \in 0 .. MaxEpoch
    BY <1>0, <1>5, BoundAssumption DEF ClaimWriterForceFenceDispatch, FenceDispatchable,
       EpochLeft, NextEpoch, Snapshots
  <2>2. d \in Snapshots /\ d.revision = session.revision
    BY <1>0, <2>1 DEF Snapshots, Lifecycles
  <2>3. session.revision + 1 <= MaxRevision /\ Start(i, d)
    BY <1>1, <1>5 DEF ClaimWriterForceFenceDispatch, FenceDispatchable
  <2> HIDE DEF d
  <2>4. TypedRows' BY <1>0, <2>2, <2>3, StartTyped
  <2>5. claims' \in [OpId -> Claims] /\ leaseExpired' = leaseExpired
    BY <1>0, <1>2, <1>5, ClaimForTyped DEF ClaimWriterForceFenceDispatch
  <2> QED BY <1>0, <2>4, <2>5 DEF TypedInv
<1>6. ASSUME Start(i, session), Space(DispatchSpace(ops[i].request)),
             claims' \in [OpId -> Claims], leaseExpired' = leaseExpired
      PROVE  TypedInv'
  <2>1. TypedRows' BY <1>0, <1>1, <1>6, StartTyped
  <2> QED BY <1>0, <1>6, <2>1 DEF TypedInv
<1>7. CASE ClaimCheckpointCaptureDispatch(i)
  BY <1>0, <1>6, <1>7 DEF ClaimCheckpointCaptureDispatch, CaptureDispatchable
<1>8. CASE ClaimRestoreDestinationGenerationDispatch(i)
  <2>1. claims' \in [OpId -> Claims]
    BY <1>0, <1>2, <1>8, ClaimForTyped DEF ClaimRestoreDestinationGenerationDispatch
  <2> QED BY <1>6, <1>8, <2>1 DEF ClaimRestoreDestinationGenerationDispatch,
    GenerationDispatchable
<1>9. CASE ClaimRestoreAttachmentActivationDispatch(i)
  <2>1. EpochLeft /\ session.revision + 1 <= MaxRevision
    BY <1>1, <1>9 DEF ClaimRestoreAttachmentActivationDispatch, ActivationDispatchable
  <2>2. TypedRows'
    BY <1>0, <1>9, <2>1, MintTyped, StartTyped DEF ClaimRestoreAttachmentActivationDispatch
  <2>3. claims' \in [OpId -> Claims] /\ leaseExpired' = FALSE
    BY <1>0, <1>2, <1>9, ClaimForTyped DEF ClaimRestoreAttachmentActivationDispatch
  <2> QED BY <2>2, <2>3 DEF TypedInv
<1>10. CASE ClaimWriterLaunchAttemptDispatch(i)
  BY <1>0, <1>6, <1>10 DEF ClaimWriterLaunchAttemptDispatch, LaunchDispatchable
<1>11. CASE ClaimWriterLaunchStopDispatch(i)
  <2>1. claims' \in [OpId -> Claims]
    BY <1>0, <1>2, <1>11, ClaimForTyped DEF ClaimWriterLaunchStopDispatch
  <2> QED BY <1>6, <1>11, <2>1 DEF ClaimWriterLaunchStopDispatch, StopDispatchable
<1>12. CASE ClaimOperationDispatch(i)
  BY <1>0, <1>6, <1>12 DEF ClaimOperationDispatch, GenericDispatchable
<1> QED BY <1>3, <1>4, <1>5, <1>7, <1>8, <1>9, <1>10, <1>11, <1>12 DEF Dispatch

\* The documents a settled operation leaves.
LEMMA SettledDocuments ==
    ASSUME session \in Snapshots
    PROVE  /\ AttachmentUnderLease \in Attachments
           /\ LET d == [session EXCEPT !.lifecycle = "ATTACHED",
                                       !.attachment = AttachmentUnderLease]
              IN d \in Snapshots /\ d.revision = session.revision
           /\ NoWriterLeft \in Snapshots /\ NoWriterLeft.revision = session.revision
           /\ BlockedSession \in Snapshots /\ BlockedSession.revision = session.revision
           /\ WriterStopped \in Snapshots /\ WriterStopped.revision = session.revision
<1>1. AttachmentUnderLease \in Attachments
  BY DEF AttachmentUnderLease, Attachments, Snapshots, Leases
<1> USE DEF Snapshots, Lifecycles
<1>2. LET d == [session EXCEPT !.lifecycle = "ATTACHED",
                               !.attachment = AttachmentUnderLease]
      IN d \in Snapshots /\ d.revision = session.revision
  BY <1>1
<1>3. NoWriterLeft \in Snapshots /\ NoWriterLeft.revision = session.revision
  BY NullTypes DEF NoWriterLeft
<1>4. BlockedSession \in Snapshots /\ BlockedSession.revision = session.revision
  BY DEF BlockedSession
<1>5. WriterStopped \in Snapshots /\ WriterStopped.revision = session.revision
  BY NullTypes DEF WriterStopped
<1> QED BY <1>1, <1>2, <1>3, <1>4, <1>5

\* Enough revisions remain for a handoff to write two of them.
LEMMA HandoffSpace ==
    ASSUME TypedInv, NEW i \in OpId, Space(FinalizeSpace(ops[i].request)),
           \/ /\ ops[i].request.kind = "writer-force-fence"
              /\ ops[i].request.version = 2
           \/ /\ ops[i].request.kind = "restore-generation"
              /\ ops[i].request.version = 2
           \/ ops[i].request.kind = "restore-activation"
           \/ /\ ops[i].request.kind = "writer-launch-stop"
              /\ ops[i].request.version = 3
    PROVE  session.revision + 2 <= MaxRevision
<1>1. FinalizeSpace(ops[i].request) \in {2, 5}
  <2>1. CASE ops[i].request.kind = "restore-activation"
    <3>1. ops[i].request.version \in {1, 2}
      BY <2>1 DEF TypedInv, TypedRows, ActivationVersions
    <3> QED BY <2>1, <3>1 DEF FinalizeSpace, HandoffToTypedOperation
  <2>2. CASE ops[i].request.kind # "restore-activation"
    BY <2>2 DEF FinalizeSpace, HandoffToTypedOperation
  <2> QED BY <2>1, <2>2
<1> QED BY <1>1, BoundAssumption DEF Space, TypedInv, TypedRows, Snapshots

LEMMA HandoffRequestTypes ==
    ASSUME TypedInv, NEW i \in OpId
    PROVE  /\ CaptureHandoffRequest(i) \in Requests
           /\ CaptureHandoffRequest(i).kind = "checkpoint-capture"
           /\ AtomicHandoffRequest(i) \in Requests
           /\ AtomicHandoffRequest(i).kind = "atomic-crash-capture"
           /\ \A g \in IdOrNone :
                /\ LaunchHandoffRequest(g) \in Requests
                /\ LaunchHandoffRequest(g).kind = "writer-launch-attempt"
<1>1. ops[i].expected.attachment.id \in IdOrNone
  BY DEF TypedInv, TypedRows, Operations, Snapshots, Attachments
<1> QED BY <1>1, NullTypes DEF CaptureHandoffRequest, AtomicHandoffRequest,
  LaunchHandoffRequest, NoRequest, Requests, Kinds, IdOrNone

LEMMA SettleTyped ==
    ASSUME TypedInv, NEW i \in OpId, Settle(i)
    PROVE  TypedInv'
<1>0. /\ TypedRows /\ session \in Snapshots /\ ops[i] \in Operations
      /\ claims \in [OpId -> Claims] /\ leaseExpired \in BOOLEAN
      /\ ops[i].request \in Requests
      /\ session.epoch \in 0 .. MaxEpoch /\ session.lease \in Leases
      /\ session.attachment \in Attachments
      /\ ops[i].request.target \in IdOrNone /\ ops[i].request.source \in IdOrNone
      /\ None \in IdOrNone /\ i \in IdOrNone
  BY DEF TypedInv, TypedRows, Operations, Snapshots, Requests, IdOrNone
<1>1. ASSUME Space(FinalizeSpace(ops[i].request)) PROVE session.revision + 1 <= MaxRevision
  BY <1>0, <1>1, SpaceLemma, FinalizeSpaceType
<1>3. ASSUME NEW outcome \in Outcomes, NEW d \in Snapshots, d.revision = session.revision,
             Commit(i, Outcome(outcome), d), ops[i].state \in Dispatched,
             Space(FinalizeSpace(ops[i].request)), UNCHANGED <<claims, leaseExpired>>
      PROVE  TypedInv'
  <2>1. TypedRows'
    BY <1>0, <1>1, <1>3, OutcomeType, CommitTyped DEF Dispatched, ActivePhases
  <2> QED BY <1>0, <1>3, <2>1 DEF TypedInv
<1>4. ASSUME NEW result \in Results, NEW d \in Snapshots, d.revision = session.revision,
             NEW j \in OpId, NEW r \in Requests, r.kind # "restore-activation",
             CommitAndReserve(i, result, d, j, r), ops[i].state \in Dispatched,
             session.revision + 2 <= MaxRevision, leaseExpired' \in BOOLEAN
      PROVE  TypedInv'
  <2>1. TypedRows' /\ claims' \in [OpId -> Claims]
    BY <1>4, HandoffTyped DEF Dispatched, ActivePhases
  <2> QED BY <1>4, <2>1 DEF TypedInv
<1>5. {"writer-attached", "writer-released", "writer-fenced", "writer-blocked",
       "checkpoint-captured", "restore-generation-committed",
       "restore-attachment-activated", "writer-launch-stopped"} \subseteq Outcomes
      /\ LaunchOutcomes \subseteq Outcomes
  BY DEF Outcomes, LaunchOutcomes
<1>6. FencedResult(i) \in Results BY <1>0, <1>5, WriterResultType DEF FencedResult
<1>7. CASE FinalizeWriterAttachment(i)
  <2> DEFINE d == [session EXCEPT !.lifecycle = "ATTACHED",
                                  !.attachment = AttachmentUnderLease]
             result == WriterResult("writer-attached", session.epoch, session.lease,
                                    AttachmentUnderLease, None)
  <2>1. d \in Snapshots /\ d.revision = session.revision BY <1>0, SettledDocuments
  <2>2. result \in Results BY <1>0, <1>5, SettledDocuments, WriterResultType
  <2>3. /\ Commit(i, result, d) /\ ops[i].state \in ActivePhases
        /\ Space(FinalizeSpace(ops[i].request)) /\ UNCHANGED <<claims, leaseExpired>>
    BY <1>7 DEF FinalizeWriterAttachment, ActiveIn, Dispatched, ActivePhases
  <2> HIDE DEF d, result
  <2>4. TypedRows' BY <1>0, <1>1, <2>1, <2>2, <2>3, CommitTyped
  <2> QED BY <1>0, <2>3, <2>4 DEF TypedInv
<1>8. CASE FinalizeWriterRelease(i)
  <2> DEFINE result == WriterResult("writer-released", session.epoch, session.lease,
                                    session.attachment, ops[i].request.target)
  <2>1. result \in Results BY <1>0, <1>5, WriterResultType
  <2>2. /\ Commit(i, result, NoWriterLeft) /\ ops[i].state \in ActivePhases
        /\ Space(FinalizeSpace(ops[i].request))
        /\ claims' = claims /\ leaseExpired' = FALSE
    BY <1>8 DEF FinalizeWriterRelease, ActiveIn, Dispatched, ActivePhases
  <2> HIDE DEF result
  <2>3. TypedRows' BY <1>0, <1>1, <2>1, <2>2, SettledDocuments, CommitTyped
  <2> QED BY <1>0, <2>2, <2>3 DEF TypedInv
<1>9. CASE FinalizeWriterForceFence(i)
  <2>1. /\ Commit(i, FencedResult(i), NoWriterLeft) /\ ops[i].state \in ActivePhases
        /\ Space(FinalizeSpace(ops[i].request))
        /\ claims' = claims /\ leaseExpired' = FALSE
    BY <1>9 DEF FinalizeWriterForceFence, ActiveIn, Dispatched, ActivePhases
  <2>2. TypedRows' BY <1>0, <1>1, <1>6, <2>1, SettledDocuments, CommitTyped
  <2> QED BY <1>0, <2>1, <2>2 DEF TypedInv
<1>10. CASE FinalizeWriterForceFenceAndReserveAtomicCrashCapture(i)
  <2>1. session.revision + 2 <= MaxRevision
    BY <1>10, HandoffSpace DEF FinalizeWriterForceFenceAndReserveAtomicCrashCapture,
       ActiveIn
  <2> QED BY <1>0, <1>4, <1>6, <1>10, <2>1, SettledDocuments, HandoffRequestTypes DEF
    FinalizeWriterForceFenceAndReserveAtomicCrashCapture, ActiveIn, ClaimedBy
<1>11. CASE FinalizeWriterOperationBlocked(i)
  <2> DEFINE result == WriterResult("writer-blocked", session.epoch, session.lease,
                                    session.attachment, BlockedTarget(i))
  <2>1. BlockedTarget(i) \in IdOrNone BY <1>0 DEF BlockedTarget
  <2>2. result \in Results BY <1>0, <1>5, <2>1, WriterResultType
  <2>3. /\ Commit(i, result, BlockedSession) /\ ops[i].state \in ActivePhases
        /\ Space(1) /\ UNCHANGED <<claims, leaseExpired>>
    BY <1>11 DEF FinalizeWriterOperationBlocked, ActivePhases
  <2> HIDE DEF result
  <2>4. TypedRows' BY <1>0, <2>2, <2>3, SpaceLemma, SettledDocuments, CommitTyped
  <2> QED BY <1>0, <2>3, <2>4 DEF TypedInv
<1>12. CASE FinalizeCheckpointCapture(i)
  BY <1>0, <1>3, <1>5, <1>12 DEF FinalizeCheckpointCapture, ActiveIn
<1>13. CASE FinalizeRestoreDestinationGeneration(i)
  BY <1>0, <1>3, <1>5, <1>13 DEF FinalizeRestoreDestinationGeneration, ActiveIn
<1>14. CASE FinalizeRestoreGenerationAndReserveLaunch(i)
  <2>1. session.revision + 2 <= MaxRevision
    BY <1>14, HandoffSpace DEF FinalizeRestoreGenerationAndReserveLaunch, ActiveIn
  <2> QED BY <1>0, <1>4, <1>5, <1>14, <2>1, OutcomeType, HandoffRequestTypes DEF
    FinalizeRestoreGenerationAndReserveLaunch, ActiveIn, ClaimedBy
<1>15. CASE FinalizeActivationAndReserveLaunch(i)
  <2> DEFINE d == [session EXCEPT !.lifecycle = "ATTACHED",
                                  !.attachment = AttachmentUnderLease]
             result == WriterResult("restore-attachment-activated", session.epoch,
                                    session.lease, AttachmentUnderLease, None)
             j == ops[i].request.intent
             r == LaunchHandoffRequest(ops[i].request.source)
  <2>1. d \in Snapshots /\ d.revision = session.revision BY <1>0, SettledDocuments
  <2>2. result \in Results BY <1>0, <1>5, SettledDocuments, WriterResultType
  <2>3. r \in Requests /\ r.kind # "restore-activation" BY <1>0, HandoffRequestTypes
  <2>4. session.revision + 2 <= MaxRevision
    BY <1>15, HandoffSpace DEF FinalizeActivationAndReserveLaunch, ActiveIn
  <2>5. /\ CommitAndReserve(i, result, d, j, r) /\ ops[i].state \in Dispatched
        /\ j \in OpId /\ leaseExpired' = leaseExpired
    BY <1>15 DEF FinalizeActivationAndReserveLaunch, ActiveIn, ClaimedBy
  <2> HIDE DEF d, result, j, r
  <2> QED BY <1>0, <1>4, <2>1, <2>2, <2>3, <2>4, <2>5
<1>16. ASSUME NEW outcome \in LaunchOutcomes, FinalizeWriterLaunchAttempt(i, outcome)
       PROVE  TypedInv'
  <2>1. LaunchPointer(i, ops[i]) \in Launches
    BY <1>0 DEF LaunchPointer, Launches, Operations, Snapshots, Attachments
  <2>2. /\ LaunchedSession(i, outcome) \in Snapshots
        /\ LaunchedSession(i, outcome).revision = session.revision
    BY <1>0, <2>1 DEF LaunchedSession, Snapshots
  <2> QED BY <1>3, <1>5, <1>16, <2>2 DEF FinalizeWriterLaunchAttempt, ActiveIn
<1>17. CASE FinalizeWriterLaunchStop(i)
  BY <1>0, <1>3, <1>5, <1>17, SettledDocuments DEF FinalizeWriterLaunchStop, ActiveIn
<1>18. CASE FinalizeWriterLaunchStopAndReserveCapture(i)
  <2>1. session.revision + 2 <= MaxRevision
    BY <1>18, HandoffSpace DEF FinalizeWriterLaunchStopAndReserveCapture, ActiveIn
  <2> QED BY <1>0, <1>4, <1>5, <1>18, <2>1, OutcomeType, SettledDocuments,
    HandoffRequestTypes DEF FinalizeWriterLaunchStopAndReserveCapture, ActiveIn, ClaimedBy
<1> QED BY <1>7, <1>8, <1>9, <1>10, <1>11, <1>12, <1>13, <1>14, <1>15, <1>16, <1>17, <1>18
  DEF Settle

LEMMA RenewTyped ==
    ASSUME TypedInv, NEW i \in OpId, RenewWriterLease(i)
    PROVE  TypedInv'
<1> DEFINE lease == RenewedLease(i)
           request == [NoRequest EXCEPT !.kind = "writer-lease-renew"]
           result == WriterResult("writer-lease-renewed", session.epoch, lease,
                                  session.attachment, None)
           row == PreparedRow(request, session)
           o == [row EXCEPT !.state = "committed", !.result = result]
           d == [session EXCEPT !.lease = lease]
<1>0. /\ session \in Snapshots /\ session.epoch \in 0 .. MaxEpoch
      /\ session.lease \in Leases /\ session.attachment \in Attachments
      /\ None \in IdOrNone
  BY DEF TypedInv, TypedRows, Snapshots, IdOrNone
<1>1. lease \in Leases BY <1>0 DEF RenewedLease, Leases
<1>2. request \in Requests /\ request.kind = "writer-lease-renew"
  BY NullTypes DEF Requests, Kinds, NoRequest
<1>3. result \in Results BY <1>0, <1>1, WriterResultType DEF Outcomes
<1>4. /\ ops' = [ops EXCEPT ![i] = o]
      /\ reservations' = [reservations EXCEPT ![i] = "released"]
      /\ session' = Settled(d, i, o)
      /\ leaseExpired' = leaseExpired
      /\ Space(1)
  BY DEF RenewWriterLease
<1>5. d \in Snapshots /\ d.revision = session.revision BY <1>0, <1>1 DEF Snapshots
<1> HIDE DEF lease, request, result, d
<1>6. row \in Operations /\ row.request = request
  BY <1>0, <1>2, PreparedRowType DEF PreparedRow
<1> HIDE DEF row
<1>7. o \in Operations /\ o.state = "committed" /\ o.request.kind = "writer-lease-renew"
  BY <1>2, <1>3, <1>6 DEF Operations, Phases
<1> HIDE DEF o
<1>8. session' \in Snapshots BY <1>0, <1>4, <1>5, <1>7, SpaceLemma, SettledType
<1>9. ops' \in [OpId -> Operations] /\ PhaseRevisions' /\ ActivationVersions'
  BY <1>4, <1>7 DEF TypedInv, TypedRows, PhaseRevisions, ActivationVersions
<1>10. reservations' \in [OpId -> ActivePhases \cup {"absent", "released"}]
  BY <1>4 DEF TypedInv, TypedRows
<1>11. claims' \in [OpId -> Claims]
  <2>1. [type |-> "direct", claimant |-> i, materialized |-> TRUE] \in Claims
    BY DEF Claims, ClaimTypes, IdOrNone
  <2> QED BY <2>1 DEF RenewWriterLease, TypedInv
<1> QED BY <1>4, <1>8, <1>9, <1>10, <1>11 DEF TypedInv, TypedRows

LEMMA UncertainTyped ==
    ASSUME TypedInv, NEW i \in OpId, MarkOperationUncertain(i)
    PROVE  TypedInv'
<1> DEFINE n == 2
           o == PhaseRow(ops[i], "uncertain", n)
<1>a. ops[i] \in Operations BY DEF TypedInv, TypedRows
<1>b. "uncertain" \in Phases BY DEF Phases, ActivePhases
<1>c. n \in 0 .. 3
  OBVIOUS
<1> HIDE DEF n
<1>1. /\ o \in Operations
      /\ o.state = "uncertain" /\ o.revision = n
      /\ o.request = ops[i].request
  BY <1>a, <1>b, <1>c, PhaseRowType
<1>2. /\ ops' = [ops EXCEPT ![i] = o]
      /\ reservations' = [reservations EXCEPT ![i] = "uncertain"]
      /\ session' = Activated(session, i, o)
      /\ UNCHANGED <<claims, leaseExpired>>
      /\ Space(1) \/ Space(2)
  BY DEF MarkOperationUncertain, PhaseRow, n
<1>3. session \in Snapshots BY DEF TypedInv, TypedRows
<1> HIDE DEF o
<1>4. session' \in Snapshots BY <1>1, <1>2, <1>3, SpaceLemma, ActivatedType
<1>5. ops' \in [OpId -> Operations] /\ PhaseRevisions' /\ ActivationVersions'
  BY <1>1, <1>2 DEF TypedInv, TypedRows, PhaseRevisions, ActivationVersions, n
<1>6. reservations' \in [OpId -> ActivePhases \cup {"absent", "released"}]
  BY <1>2 DEF TypedInv, TypedRows, ActivePhases
<1> QED BY <1>2, <1>4, <1>5, <1>6 DEF TypedInv, TypedRows

LEMMA CancelTyped ==
    ASSUME TypedInv, NEW i \in OpId, CancelPreparedOperation(i)
    PROVE  TypedInv'
<1>1. Outcome("cancelled-before-dispatch") \in Results BY OutcomeType DEF Outcomes
<1>2. session.revision + 1 <= MaxRevision
  BY SpaceLemma DEF CancelPreparedOperation, Cancellable, TypedInv, TypedRows
<1>3. TypedRows'
  BY <1>1, <1>2, CommitTyped DEF CancelPreparedOperation, Cancellable, ActivePhases,
     TypedInv, TypedRows
<1> QED BY <1>3 DEF CancelPreparedOperation, TypedInv

LEMMA WorldTyped ==
    ASSUME TypedInv,
           \/ LeaseExpires
           \/ \E j \in OpId, type \in {"foreign", "stable-plan"} : ForeignClaim(j, type)
    PROVE  TypedInv'
<1>1. CASE LeaseExpires
  BY <1>1 DEF LeaseExpires, TypedInv, TypedRows, PhaseRevisions, ActivationVersions
<1>2. ASSUME NEW j \in OpId, NEW type \in {"foreign", "stable-plan"}, ForeignClaim(j, type)
      PROVE  TypedInv'
  <2>1. [type |-> type, claimant |-> None, materialized |-> FALSE] \in Claims
    BY DEF Claims, ClaimTypes, IdOrNone
  <2>2. claims' \in [OpId -> Claims] BY <1>2, <2>1 DEF ForeignClaim, TypedInv
  <2> QED BY <1>2, <2>2 DEF ForeignClaim, TypedInv, TypedRows, PhaseRevisions,
    ActivationVersions
<1> QED BY <1>1, <1>2

LEMMA NextTyped ==
    ASSUME TypedInv, [Next]_vars
    PROVE  TypedInv'
<1>1. ASSUME NEW i \in OpId, Step(i) PROVE TypedInv'
  BY <1>1, ReserveTyped, RenewTyped, DispatchTyped, UncertainTyped, SettleTyped, CancelTyped
     DEF Step
<1>2. CASE UNCHANGED vars
  BY <1>2 DEF vars, TypedInv, TypedRows, PhaseRevisions, ActivationVersions
<1> QED BY <1>1, <1>2, WorldTyped DEF Next

LEMMA TypedInvariance == Spec => []TypedInv
BY InitTyped, NextTyped, PTL DEF Spec

\* Every row keeps its type whatever the callers do: in particular no sequence
\* of methods takes the session revision past MAX_POSTGRES_BIGINT (revisionAfter),
\* the writer epoch past UINT64_MAX (nextWriterEpoch) or the revision of an
\* operation past its last phase.
THEOREM TypeCorrect == Spec => []TypeOK
<1>1. TypedInv => TypeOK BY DEF TypedInv, TypedRows, TypeOK
<1> QED BY <1>1, TypedInvariance, PTL

--------------------------------------------------------------------------------
(* The authority implements the abstract fenced lease: whatever the callers *)
(* do, every dispatched acquisition or activation is a grant, every          *)
(* dispatched fence a revocation, and a release or a finished fence leaves   *)
(* the session to nobody.                                                    *)

\* At most one operation is in an active phase, the one the session points to.
OneActive ==
    \A i \in OpId : ops[i].state \in ActivePhases => session.active.id = i

\* An identifier that has an operation row is materialized in the registry.
OwnClaims == \A i \in OpId : ops[i].state # "absent" => claims[i].materialized

\* The lease in the document is the one its operation minted, and no grant is
\* of epoch 0, which stands for no grant.
LeaseHeld ==
    /\ \/ session.lease = NoLease
       \/ /\ session.lease.id \in Minters
          /\ session.lease.epoch = MintedEpoch(session.lease.id)
    /\ \A k \in Minters : MintedEpoch(k) # 0

AuthorityInv == TypedInv /\ OneActive /\ OwnClaims /\ LeaseHeld

LEMMA InitAuthority == Init => AuthorityInv
<1> SUFFICES ASSUME Init PROVE OneActive /\ OwnClaims /\ LeaseHeld
  BY InitTyped DEF AuthorityInv
<1> QED BY DEF Init, OneActive, OwnClaims, LeaseHeld, Minters, NoOperation,
  RegisteredSession, ActivePhases

--------------------------------------------------------------------------------
(* What the transactions leave of the rows. *)

LEMMA StartEffect ==
    ASSUME TypedInv, NEW i \in OpId, NEW d \in Snapshots, Start(i, d)
    PROVE  /\ session'.lease = d.lease /\ session'.epoch = d.epoch
           /\ session'.active.id = i
           /\ ops'[i].state = "starting" /\ ops'[i].request = ops[i].request
           /\ \A k \in OpId \ {i} : ops'[k] = ops[k]
<1> DEFINE o == PhaseRow(ops[i], "starting", 1)
<1>a. ops[i] \in Operations /\ ops \in [OpId -> Operations] BY DEF TypedInv, TypedRows
<1>1. /\ ops' = [ops EXCEPT ![i] = o]
      /\ session' = Activated(d, i, o)
  BY DEF Start, PhaseRow
<1>2. o.state = "starting" /\ o.request = ops[i].request BY <1>a DEF PhaseRow, Operations
<1> HIDE DEF o
<1>3. /\ session'.lease = d.lease /\ session'.epoch = d.epoch
      /\ session'.active.id = i
  BY <1>1 DEF Activated, Pointer, Snapshots
<1> QED BY <1>a, <1>1, <1>2, <1>3

LEMMA CommitEffect ==
    ASSUME TypedInv, NEW i \in OpId, NEW result, NEW d \in Snapshots,
           Commit(i, result, d)
    PROVE  /\ session'.lease = d.lease /\ session'.epoch = d.epoch
           /\ session'.active = NoPointer
           /\ ops'[i].state = "committed" /\ ops'[i].request = ops[i].request
           /\ ops'[i].result = result
           /\ \A k \in OpId \ {i} : ops'[k] = ops[k]
<1> DEFINE o == CommittedRow(ops[i], result)
<1>a. ops[i] \in Operations /\ ops \in [OpId -> Operations] BY DEF TypedInv, TypedRows
<1>1. /\ ops' = [ops EXCEPT ![i] = o]
      /\ session' = Settled(d, i, o)
  BY DEF Commit
<1>2. o.state = "committed" /\ o.request = ops[i].request /\ o.result = result
  BY <1>a DEF CommittedRow, Operations
<1> HIDE DEF o
<1>3. /\ session'.lease = d.lease /\ session'.epoch = d.epoch
      /\ session'.active = NoPointer
  BY <1>1 DEF Settled, Snapshots
<1> QED BY <1>a, <1>1, <1>2, <1>3

LEMMA HandoffEffect ==
    ASSUME TypedInv, NEW i \in OpId, NEW result, NEW d \in Snapshots, NEW j \in OpId,
           NEW r, j # i, CommitAndReserve(i, result, d, j, r)
    PROVE  /\ session'.lease = d.lease /\ session'.epoch = d.epoch
           /\ session'.active.id = j
           /\ ops'[i].state = "committed" /\ ops'[i].request = ops[i].request
           /\ ops'[i].result = result
           /\ ops'[j].state = "prepared" /\ ops'[j].request = r
           /\ \A k \in OpId \ {i, j} : ops'[k] = ops[k]
           /\ claims'[j].materialized
           /\ \A k \in OpId \ {j} : claims'[k] = claims[k]
<1> DEFINE o == CommittedRow(ops[i], result)
           settled == Settled(d, i, o)
           next == PreparedRow(r, settled)
<1>a. /\ ops[i] \in Operations /\ ops \in [OpId -> Operations]
      /\ claims \in [OpId -> Claims] /\ claims[j] \in Claims
  BY DEF TypedInv, TypedRows
<1>1. /\ ops' = [ops EXCEPT ![i] = o, ![j] = next]
      /\ claims' = [claims EXCEPT ![j] = [claims[j] EXCEPT !.materialized = TRUE]]
      /\ session' = Activated(settled, j, next)
  BY DEF CommitAndReserve
<1>2. o.state = "committed" /\ o.request = ops[i].request /\ o.result = result
  BY <1>a DEF CommittedRow, Operations
<1>3. settled = [d EXCEPT !.revision = d.revision + 1, !.active = NoPointer,
                          !.last = Pointer(i, o)]
  BY DEF Settled
<1>4. next.state = "prepared" /\ next.request = r BY DEF PreparedRow
<1> HIDE DEF o, settled, next
<1>5. /\ session'.lease = d.lease /\ session'.epoch = d.epoch
      /\ session'.active.id = j
  BY <1>1, <1>3 DEF Activated, Pointer, Snapshots
<1>6. claims'[j].materialized /\ \A k \in OpId \ {j} : claims'[k] = claims[k]
  BY <1>a, <1>1 DEF Claims
<1> QED BY <1>a, <1>1, <1>2, <1>4, <1>5, <1>6

--------------------------------------------------------------------------------
(* Grants.  A step changes at most the grant of the operation it is about:   *)
(* every other operation is settled, and its grant is in its result.         *)

KeepsGrant(k) ==
    /\ k \in Minters' <=> k \in Minters
    /\ k \in Minters => MintedEpoch(k)' = MintedEpoch(k)

LEMMA OtherKeepsGrant ==
    ASSUME OneActive, NEW k \in OpId, session.active.id # k, ops[k].state \in Phases,
           ops'[k] = ops[k]
    PROVE  KeepsGrant(k)
<1>1. ops[k].state \in {"absent", "committed"} BY DEF OneActive, Phases
<1> QED BY <1>1 DEF KeepsGrant, Minters, MintedEpoch, Undispatched, Cancelled

LEMMA GrantsKept ==
    ASSUME \A k \in OpId : KeepsGrant(k)
    PROVE  Granted' = Granted
BY DEF KeepsGrant, Granted

LEMMA LeaseKept ==
    ASSUME LeaseHeld, \A k \in OpId : KeepsGrant(k),
           session'.epoch = session.epoch,
           session'.lease.id = session.lease.id,
           session'.lease.epoch = session.lease.epoch,
           session.lease = NoLease => session'.lease = NoLease
    PROVE  LeaseHeld' /\ UNCHANGED Lease!leaseVars
<1>1. LeaseHeld' BY DEF LeaseHeld, KeepsGrant, Minters
<1>2. Granted' = Granted BY GrantsKept
<1> QED BY <1>1, <1>2 DEF Lease!leaseVars

LEMMA LeaseVacated ==
    ASSUME LeaseHeld, \A k \in OpId : KeepsGrant(k),
           session'.epoch = session.epoch, session.lease # NoLease,
           session'.lease = NoLease
    PROVE  LeaseHeld' /\ Lease!Vacate
<1>1. session.lease.id # None BY NoneAssumption DEF LeaseHeld, Minters
<1>2. Granted' = Granted BY GrantsKept
<1>3. LeaseHeld' BY DEF LeaseHeld, KeepsGrant, Minters
<1> QED BY <1>1, <1>2, <1>3 DEF Lease!Vacate, NoLease

LEMMA LeaseRevoked ==
    ASSUME LeaseHeld, \A k \in OpId : KeepsGrant(k),
           EpochLeft, session'.epoch = session.epoch + 1, session.lease # NoLease,
           session'.lease = session.lease
    PROVE  LeaseHeld' /\ Lease!Revoke
<1>1. session.lease.id # None BY NoneAssumption DEF LeaseHeld, Minters
<1>2. Granted' = Granted BY GrantsKept
<1>3. LeaseHeld' BY DEF LeaseHeld, KeepsGrant, Minters
<1> QED BY <1>1, <1>2, <1>3 DEF Lease!Revoke, EpochLeft

LEMMA LeaseGranted ==
    ASSUME LeaseHeld, session.epoch \in Nat,
           NEW i \in OpId, \A k \in OpId \ {i} : KeepsGrant(k),
           EpochLeft, session'.epoch = session.epoch + 1,
           session.lease = NoLease, session'.lease = MintedLease(i),
           i \notin Minters, i \in Minters', MintedEpoch(i)' = session.epoch + 1
    PROVE  LeaseHeld' /\ Lease!Grant(i)
<1>1. session'.lease.id = i /\ session'.lease.epoch = session.epoch + 1
  BY DEF MintedLease, NextEpoch
<1>2. LeaseHeld' BY <1>1 DEF LeaseHeld, KeepsGrant, Minters
<1>3. Granted' = [Granted EXCEPT ![i] = session.epoch + 1] BY DEF KeepsGrant, Granted
<1>4. Granted[i] = 0 /\ session.lease.id = None BY DEF Granted, NoLease
<1> QED BY <1>1, <1>2, <1>3, <1>4 DEF Lease!Grant, EpochLeft

--------------------------------------------------------------------------------
(* The invariant, step by step. *)

LeaseStep == Lease!LeaseNext \/ UNCHANGED Lease!leaseVars

LEMMA RowsKept ==
    ASSUME AuthorityInv, NEW i \in OpId, session.active.id \in {i, None},
           \A k \in OpId \ {i} : ops'[k] = ops[k],
           session'.active.id = i \/ ops'[i].state \notin ActivePhases
    PROVE  OneActive' /\ \A k \in OpId \ {i} : KeepsGrant(k)
<1>1. \A k \in OpId \ {i} : session.active.id # k /\ ops[k].state \in Phases
  BY NoneAssumption DEF AuthorityInv, TypedInv, TypedRows, Operations
<1>2. OneActive' BY <1>1 DEF AuthorityInv, OneActive
<1> QED BY <1>1, <1>2, OtherKeepsGrant DEF AuthorityInv

LEMMA ClaimsOwned ==
    ASSUME OwnClaims, NEW i \in OpId, \A k \in OpId \ {i} : ops'[k] = ops[k],
           ops[i].state # "absent", claims' = claims
    PROVE  OwnClaims'
BY DEF OwnClaims

LEMMA IntentOwned ==
    ASSUME AuthorityInv, NEW i \in OpId, \A k \in OpId \ {i} : ops'[k] = ops[k],
           ops[i].state # "absent", NEW j, NEW type, IntentFree(j, i),
           claims' = ClaimFor(j, type, i)
    PROVE  OwnClaims'
<1>1. claims \in [OpId -> Claims] /\ OwnClaims BY DEF AuthorityInv, TypedInv
<1>2. CASE j \notin OpId
  <2>1. claims' = claims BY <1>1, <1>2 DEF ClaimFor
  <2> QED BY <1>1, <2>1, ClaimsOwned
<1>3. CASE j \in OpId
  <2>1. ops[j].state = "absent" /\ j # i BY <1>1, <1>3 DEF IntentFree, NoClaim, OwnClaims
  <2>2. \A k \in OpId \ {j} : claims'[k] = claims[k] BY <1>1, <1>3 DEF ClaimFor
  <2> QED BY <1>1, <1>3, <2>1, <2>2 DEF OwnClaims
<1> QED BY <1>2, <1>3

\* An operation that mints no lease keeps having no grant.
LEMMA OutsiderKeepsGrant ==
    ASSUME NEW i \in OpId, ops'[i].request = ops[i].request,
           ops[i].request.kind \notin {"writer-attachment-acquire", "restore-activation"}
    PROVE  KeepsGrant(i)
BY DEF KeepsGrant, Minters

\* Dispatch of an operation that leaves the writer alone.
LEMMA StartQuietly ==
    ASSUME AuthorityInv, NEW i \in OpId, session.active.id = i,
           ops[i].request.kind \notin {"writer-attachment-acquire", "restore-activation"},
           NEW d \in Snapshots, d.lease = session.lease, d.epoch = session.epoch,
           Start(i, d)
    PROVE  OneActive' /\ LeaseHeld' /\ UNCHANGED Lease!leaseVars
<1>0. TypedInv /\ LeaseHeld BY DEF AuthorityInv
<1>1. /\ session'.lease = d.lease /\ session'.epoch = d.epoch
      /\ session'.active.id = i
      /\ ops'[i].request = ops[i].request
      /\ \A k \in OpId \ {i} : ops'[k] = ops[k]
  BY <1>0, StartEffect
<1>2. OneActive' /\ \A k \in OpId \ {i} : KeepsGrant(k) BY <1>1, RowsKept
<1>3. KeepsGrant(i) BY <1>1, OutsiderKeepsGrant
<1>4. LeaseHeld' /\ UNCHANGED Lease!leaseVars BY <1>0, <1>1, <1>2, <1>3, LeaseKept
<1> QED BY <1>2, <1>4

\* Settlement of an operation: its row keeps its grant.
LEMMA CommitQuietly ==
    ASSUME AuthorityInv, NEW i \in OpId, session.active.id = i, NEW result,
           NEW d \in Snapshots, d.epoch = session.epoch, Commit(i, result, d),
           KeepsGrant(i)
    PROVE  /\ OneActive'
           /\ d.lease = session.lease => LeaseHeld' /\ UNCHANGED Lease!leaseVars
           /\ (session.lease # NoLease /\ d.lease = NoLease) => LeaseHeld' /\ Lease!Vacate
<1>0. TypedInv /\ LeaseHeld BY DEF AuthorityInv
<1>1. /\ session'.lease = d.lease /\ session'.epoch = d.epoch
      /\ ops'[i].state = "committed"
      /\ \A k \in OpId \ {i} : ops'[k] = ops[k]
  BY <1>0, CommitEffect
<1>2. OneActive' /\ \A k \in OpId \ {i} : KeepsGrant(k) BY <1>1, RowsKept DEF ActivePhases
<1>3. \A k \in OpId : KeepsGrant(k) BY <1>2
<1>4. ASSUME d.lease = session.lease PROVE LeaseHeld' /\ UNCHANGED Lease!leaseVars
  BY <1>0, <1>1, <1>3, <1>4, LeaseKept
<1>5. ASSUME session.lease # NoLease, d.lease = NoLease PROVE LeaseHeld' /\ Lease!Vacate
  BY <1>0, <1>1, <1>3, <1>5, LeaseVacated
<1> QED BY <1>2, <1>4, <1>5

\* A handoff: the operation it reserves was absent and mints nothing.
LEMMA HandoffQuietly ==
    ASSUME AuthorityInv, NEW i \in OpId, session.active.id = i, ops[i].state # "absent",
           NEW result, NEW d \in Snapshots, d.epoch = session.epoch, NEW j, NEW type,
           ClaimedBy(j, type, i, FALSE), NEW r, CommitAndReserve(i, result, d, j, r),
           j # i => KeepsGrant(i)
    PROVE  /\ OneActive' /\ OwnClaims'
           /\ d.lease = session.lease => LeaseHeld' /\ UNCHANGED Lease!leaseVars
           /\ (session.lease # NoLease /\ d.lease = NoLease) => LeaseHeld' /\ Lease!Vacate
<1>0. TypedInv /\ OneActive /\ OwnClaims /\ LeaseHeld BY DEF AuthorityInv
<1>1. j \in OpId /\ ops[j].state = "absent" /\ j # i BY <1>0 DEF ClaimedBy, OwnClaims
<1>2. /\ session'.lease = d.lease /\ session'.epoch = d.epoch
      /\ session'.active.id = j
      /\ ops'[i].state = "committed"
      /\ ops'[j].state = "prepared"
      /\ \A k \in OpId \ {i, j} : ops'[k] = ops[k]
  <2>1. session'.lease = d.lease /\ session'.epoch = d.epoch /\ session'.active.id = j
    BY <1>0, <1>1, HandoffEffect
  <2>2. ops'[i].state = "committed" /\ ops'[j].state = "prepared"
    BY <1>0, <1>1, HandoffEffect
  <2>3. \A k \in OpId \ {i, j} : ops'[k] = ops[k] BY <1>0, <1>1, HandoffEffect
  <2> QED BY <2>1, <2>2, <2>3
<1>3. OwnClaims'
  <2>1. claims'[j].materialized /\ \A k \in OpId \ {j} : claims'[k] = claims[k]
    BY <1>0, <1>1, HandoffEffect
  <2> QED BY <1>0, <1>1, <1>2, <2>1 DEF OwnClaims
<1>4. \A k \in OpId \ {i, j} : session.active.id # k /\ ops[k].state \in Phases
  BY DEF AuthorityInv, TypedInv, TypedRows, Operations
<1>5. OneActive' BY <1>0, <1>2, <1>4 DEF OneActive, ActivePhases
<1>6. KeepsGrant(j) BY <1>1, <1>2 DEF KeepsGrant, Minters, Undispatched
<1>7. \A k \in OpId : KeepsGrant(k) BY <1>0, <1>1, <1>2, <1>4, <1>6, OtherKeepsGrant
<1>8. ASSUME d.lease = session.lease PROVE LeaseHeld' /\ UNCHANGED Lease!leaseVars
  BY <1>0, <1>2, <1>7, <1>8, LeaseKept
<1>9. ASSUME session.lease # NoLease, d.lease = NoLease PROVE LeaseHeld' /\ Lease!Vacate
  BY <1>0, <1>2, <1>7, <1>9, LeaseVacated
<1> QED BY <1>3, <1>5, <1>8, <1>9

LEMMA DetachedIsFree ==
    ASSUME SessionReadable, Detached
    PROVE  session.lease = NoLease
BY DEF SessionReadable, CanonicalDocument, LifecycleRule, Detached, NoWriter

LEMMA BusyIsHeld ==
    ASSUME SessionReadable,
           session.lifecycle \in {"ATTACHED", "RELEASING", "FENCING", "BLOCKED"}
    PROVE  session.lease # NoLease
BY DEF SessionReadable, CanonicalDocument, LifecycleRule, HasWriter

LEMMA MintAuthority ==
    ASSUME AuthorityInv, SessionReadable, NEW i \in OpId, session.active.id = i,
           ops[i].state = "prepared", Detached, EpochLeft,
           ops[i].request.kind \in {"writer-attachment-acquire", "restore-activation"},
           Start(i, [session EXCEPT !.lifecycle = "ATTACHING", !.epoch = NextEpoch,
                                    !.lease = MintedLease(i)])
    PROVE  OneActive' /\ LeaseHeld' /\ Lease!Grant(i)
<1> DEFINE d == [session EXCEPT !.lifecycle = "ATTACHING", !.epoch = NextEpoch,
                                !.lease = MintedLease(i)]
<1>0. TypedInv /\ session \in Snapshots BY DEF AuthorityInv, TypedInv, TypedRows
<1>1. d \in Snapshots /\ Start(i, d) BY <1>0, MintTyped
<1>2. d.lease = MintedLease(i) /\ d.epoch = session.epoch + 1
  BY <1>0 DEF Snapshots, NextEpoch
<1> HIDE DEF d
<1>3. /\ session'.lease = MintedLease(i) /\ session'.epoch = session.epoch + 1
      /\ session'.active.id = i
      /\ ops'[i].state = "starting" /\ ops'[i].request = ops[i].request
      /\ \A k \in OpId \ {i} : ops'[k] = ops[k]
  BY <1>0, <1>1, <1>2, StartEffect
<1>4. OneActive' /\ \A k \in OpId \ {i} : KeepsGrant(k) BY <1>3, RowsKept
<1>5. i \notin Minters /\ i \in Minters' /\ MintedEpoch(i)' = session.epoch + 1
  BY <1>3 DEF Minters, MintedEpoch, Undispatched, Cancelled, MintedLease, NextEpoch
<1>6. session.lease = NoLease /\ LeaseHeld /\ session.epoch \in Nat
  BY <1>0, DetachedIsFree DEF AuthorityInv, Snapshots
<1> QED BY <1>3, <1>4, <1>5, <1>6, LeaseGranted

LEMMA FenceAuthority ==
    ASSUME AuthorityInv, SessionReadable, NEW i \in OpId, session.active.id = i,
           session.lifecycle \in {"ATTACHED", "BLOCKED"}, EpochLeft,
           ops[i].request.kind = "writer-force-fence",
           Start(i, [session EXCEPT !.lifecycle = "FENCING", !.epoch = NextEpoch])
    PROVE  OneActive' /\ LeaseHeld' /\ Lease!Revoke
<1> DEFINE d == [session EXCEPT !.lifecycle = "FENCING", !.epoch = NextEpoch]
<1>0. TypedInv /\ session \in Snapshots /\ LeaseHeld
  BY DEF AuthorityInv, TypedInv, TypedRows
<1>a. NextEpoch \in 0 .. MaxEpoch
  BY <1>0, BoundAssumption DEF EpochLeft, NextEpoch, Snapshots
<1>1. d \in Snapshots /\ Start(i, d) BY <1>0, <1>a DEF Snapshots, Lifecycles
<1>2. d.lease = session.lease /\ d.epoch = session.epoch + 1
  BY <1>0 DEF Snapshots, NextEpoch
<1> HIDE DEF d
<1>3. /\ session'.lease = session.lease /\ session'.epoch = session.epoch + 1
      /\ session'.active.id = i
      /\ ops'[i].request = ops[i].request
      /\ \A k \in OpId \ {i} : ops'[k] = ops[k]
  BY <1>0, <1>1, <1>2, StartEffect
<1>4. OneActive' /\ \A k \in OpId \ {i} : KeepsGrant(k) BY <1>3, RowsKept
<1>5. KeepsGrant(i) BY <1>3, OutsiderKeepsGrant
<1>6. session.lease # NoLease BY BusyIsHeld
<1> QED BY <1>0, <1>3, <1>4, <1>5, <1>6, LeaseRevoked

\* The methods that grant a dispatch: two of them grant a lease and one revokes
\* the writer's.
LEMMA DispatchAuthority ==
    ASSUME AuthorityInv, SessionReadable, NEW i \in OpId, Dispatch(i)
    PROVE  OneActive' /\ OwnClaims' /\ LeaseHeld' /\ LeaseStep
<1> DEFINE Goal == OneActive' /\ OwnClaims' /\ LeaseHeld' /\ LeaseStep
<1>0. TypedInv /\ session \in Snapshots /\ OwnClaims
  BY DEF AuthorityInv, TypedInv, TypedRows
<1>r. \A d \in Snapshots : Start(i, d) => \A k \in OpId \ {i} : ops'[k] = ops[k]
  BY <1>0, StartEffect
<1>q. ASSUME session.active.id = i, ops[i].state = "prepared",
             ops[i].request.kind \notin {"writer-attachment-acquire", "restore-activation"},
             Start(i, session),
             \/ claims' = claims
             \/ \E type : /\ IntentFree(ops[i].request.intent, i)
                          /\ claims' = ClaimFor(ops[i].request.intent, type, i)
      PROVE  Goal
  <2>1. OneActive' /\ LeaseHeld' /\ UNCHANGED Lease!leaseVars BY <1>0, <1>q, StartQuietly
  <2>2. \A k \in OpId \ {i} : ops'[k] = ops[k] BY <1>0, <1>r, <1>q
  <2>3. OwnClaims' BY <1>0, <1>q, <2>2, ClaimsOwned, IntentOwned
  <2> QED BY <2>1, <2>3 DEF LeaseStep
<1>1. CASE ClaimWriterAttachmentDispatch(i)
  <2>1. OneActive' /\ LeaseHeld' /\ Lease!Grant(i)
    BY <1>1, MintAuthority DEF ClaimWriterAttachmentDispatch, AcquireDispatchable, ActiveIn
  <2> DEFINE d == [session EXCEPT !.lifecycle = "ATTACHING", !.epoch = NextEpoch,
                                  !.lease = MintedLease(i)]
  <2>2. d \in Snapshots /\ Start(i, d)
    BY <1>0, <1>1, MintTyped DEF ClaimWriterAttachmentDispatch, AcquireDispatchable
  <2> HIDE DEF d
  <2>3. \A k \in OpId \ {i} : ops'[k] = ops[k] BY <1>r, <2>2
  <2>4. OwnClaims'
    BY <1>0, <1>1, <2>3, ClaimsOwned DEF ClaimWriterAttachmentDispatch, AcquireDispatchable,
       ActiveIn
  <2> QED BY <2>1, <2>4 DEF LeaseStep, Lease!LeaseNext
<1>2. CASE ClaimRestoreAttachmentActivationDispatch(i)
  <2>1. OneActive' /\ LeaseHeld' /\ Lease!Grant(i)
    BY <1>2, MintAuthority DEF ClaimRestoreAttachmentActivationDispatch,
       ActivationDispatchable, ActiveIn
  <2> DEFINE d == [session EXCEPT !.lifecycle = "ATTACHING", !.epoch = NextEpoch,
                                  !.lease = MintedLease(i)]
  <2>2. d \in Snapshots /\ Start(i, d)
    BY <1>0, <1>2, MintTyped DEF ClaimRestoreAttachmentActivationDispatch,
       ActivationDispatchable
  <2> HIDE DEF d
  <2>3. \A k \in OpId \ {i} : ops'[k] = ops[k] BY <1>r, <2>2
  <2>4. OwnClaims'
    BY <1>0, <1>2, <2>3, IntentOwned DEF ClaimRestoreAttachmentActivationDispatch,
       ActivationDispatchable, ActiveIn
  <2> QED BY <2>1, <2>4 DEF LeaseStep, Lease!LeaseNext
<1>3. CASE ClaimWriterForceFenceDispatch(i)
  <2>a. /\ ops[i].state = "prepared" /\ ops[i].request.kind = "writer-force-fence"
        /\ session.active.id = i /\ EpochLeft
        /\ session.lifecycle \in {"ATTACHED", "BLOCKED"}
    BY <1>3 DEF ClaimWriterForceFenceDispatch, FenceDispatchable, ActiveIn
  <2> DEFINE d == [session EXCEPT !.lifecycle = "FENCING", !.epoch = NextEpoch]
  <2>b. Start(i, d) BY <1>3 DEF ClaimWriterForceFenceDispatch
  <2>1. OneActive' /\ LeaseHeld' /\ Lease!Revoke BY <2>a, <2>b, FenceAuthority
  <2>c. NextEpoch \in 0 .. MaxEpoch
    BY <1>0, <2>a, BoundAssumption DEF EpochLeft, NextEpoch, Snapshots
  <2>2. d \in Snapshots BY <1>0, <2>c DEF Snapshots, Lifecycles
  <2> HIDE DEF d
  <2>3. \A k \in OpId \ {i} : ops'[k] = ops[k] BY <1>r, <2>2, <2>b
  <2>4. ASSUME ops[i].request.version = 2 PROVE OwnClaims'
    BY <1>3, <2>a, <2>3, <2>4, IntentOwned DEF ClaimWriterForceFenceDispatch,
       FenceDispatchable
  <2>5. ASSUME ops[i].request.version # 2 PROVE OwnClaims'
    BY <1>0, <1>3, <2>a, <2>3, <2>5, ClaimsOwned DEF ClaimWriterForceFenceDispatch
  <2> QED BY <2>1, <2>4, <2>5 DEF LeaseStep, Lease!LeaseNext
<1>4. CASE ClaimWriterReleaseDispatch(i)
  <2>a. /\ ops[i].state = "prepared" /\ ops[i].request.kind = "writer-release"
        /\ session.active.id = i /\ claims' = claims
    BY <1>4 DEF ClaimWriterReleaseDispatch, ReleaseDispatchable, ActiveIn
  <2> DEFINE d == [session EXCEPT !.lifecycle = "RELEASING"]
  <2>b. Start(i, d) BY <1>4 DEF ClaimWriterReleaseDispatch
  <2>c. d \in Snapshots /\ d.lease = session.lease /\ d.epoch = session.epoch
    BY <1>0 DEF Snapshots, Lifecycles
  <2> HIDE DEF d
  <2>1. OneActive' /\ LeaseHeld' /\ UNCHANGED Lease!leaseVars
    BY <2>a, <2>b, <2>c, StartQuietly
  <2>2. OwnClaims' BY <1>0, <1>r, <2>a, <2>b, <2>c, ClaimsOwned
  <2> QED BY <2>1, <2>2 DEF LeaseStep
<1>5. CASE ClaimCheckpointCaptureDispatch(i)
  BY <1>5, <1>q DEF ClaimCheckpointCaptureDispatch, CaptureDispatchable, ActiveIn
<1>6. CASE ClaimRestoreDestinationGenerationDispatch(i)
  <2>1. /\ ops[i].state = "prepared" /\ ops[i].request.kind = "restore-generation"
        /\ session.active.id = i /\ Start(i, session)
    BY <1>6 DEF ClaimRestoreDestinationGenerationDispatch, GenerationDispatchable, ActiveIn
  <2>2. CASE ops[i].request.version = 2
    BY <1>6, <1>q, <2>1, <2>2 DEF ClaimRestoreDestinationGenerationDispatch,
       GenerationDispatchable
  <2>3. CASE ops[i].request.version # 2
    BY <1>6, <1>q, <2>1, <2>3 DEF ClaimRestoreDestinationGenerationDispatch
  <2> QED BY <2>2, <2>3
<1>7. CASE ClaimWriterLaunchAttemptDispatch(i)
  BY <1>7, <1>q DEF ClaimWriterLaunchAttemptDispatch, LaunchDispatchable, ActiveIn
<1>8. CASE ClaimWriterLaunchStopDispatch(i)
  <2>1. /\ ops[i].state = "prepared" /\ ops[i].request.kind = "writer-launch-stop"
        /\ session.active.id = i /\ Start(i, session)
    BY <1>8 DEF ClaimWriterLaunchStopDispatch, StopDispatchable, ActiveIn
  <2>2. CASE ops[i].request.version = 3
    BY <1>8, <1>q, <2>1, <2>2 DEF ClaimWriterLaunchStopDispatch, StopDispatchable
  <2>3. CASE ops[i].request.version # 3
    BY <1>8, <1>q, <2>1, <2>3 DEF ClaimWriterLaunchStopDispatch
  <2> QED BY <2>2, <2>3
<1>9. CASE ClaimOperationDispatch(i)
  BY <1>9, <1>q DEF ClaimOperationDispatch, GenericDispatchable, ActiveIn
<1> QED BY <1>1, <1>2, <1>3, <1>4, <1>5, <1>6, <1>7, <1>8, <1>9 DEF Dispatch

\* A writer operation settles with the lease that the document held.
LEMMA WriterKeepsGrant ==
    ASSUME NEW i \in OpId, ops[i].state \in Dispatched,
           ops'[i].state = "committed", ops'[i].request = ops[i].request,
           ops'[i].result.outcome # "cancelled-before-dispatch",
           ops'[i].result.lease = session.lease
    PROVE  KeepsGrant(i)
BY DEF KeepsGrant, Minters, MintedEpoch, Undispatched, Cancelled, Dispatched

LEMMA WriterCommitKeepsGrant ==
    ASSUME TypedInv, NEW i \in OpId, ops[i].state \in Dispatched, NEW outcome, NEW a,
           NEW t, NEW d \in Snapshots, outcome # "cancelled-before-dispatch",
           Commit(i, WriterResult(outcome, session.epoch, session.lease, a, t), d)
    PROVE  KeepsGrant(i)
<1> DEFINE result == WriterResult(outcome, session.epoch, session.lease, a, t)
<1>1. result.outcome = outcome /\ result.lease = session.lease BY DEF WriterResult
<1> HIDE DEF result
<1>2. /\ ops'[i].state = "committed" /\ ops'[i].request = ops[i].request
      /\ ops'[i].result = result
  BY CommitEffect DEF result
<1> QED BY <1>1, <1>2, WriterKeepsGrant

\* Settlement of an operation that leaves the writer alone.
LEMMA CommitOutsider ==
    ASSUME AuthorityInv, NEW i \in OpId, session.active.id = i, ops[i].state # "absent",
           ops[i].request.kind \notin {"writer-attachment-acquire", "restore-activation"},
           NEW result, NEW d \in Snapshots, d.lease = session.lease,
           d.epoch = session.epoch, Commit(i, result, d), claims' = claims
    PROVE  OneActive' /\ OwnClaims' /\ LeaseHeld' /\ LeaseStep
<1>0. TypedInv /\ OwnClaims BY DEF AuthorityInv
<1>1. /\ ops'[i].request = ops[i].request
      /\ \A k \in OpId \ {i} : ops'[k] = ops[k]
  BY <1>0, CommitEffect
<1>2. KeepsGrant(i) BY <1>1, OutsiderKeepsGrant
<1>3. OneActive' /\ LeaseHeld' /\ UNCHANGED Lease!leaseVars BY <1>2, CommitQuietly
<1>4. OwnClaims' BY <1>0, <1>1, ClaimsOwned
<1> QED BY <1>3, <1>4 DEF LeaseStep

\* Settlement of a writer operation.
LEMMA CommitWriter ==
    ASSUME AuthorityInv, NEW i \in OpId, session.active.id = i,
           ops[i].state \in Dispatched, NEW outcome, NEW a, NEW t, NEW d \in Snapshots,
           outcome # "cancelled-before-dispatch", d.epoch = session.epoch,
           d.lease = session.lease \/ (session.lease # NoLease /\ d.lease = NoLease),
           Commit(i, WriterResult(outcome, session.epoch, session.lease, a, t), d),
           claims' = claims
    PROVE  OneActive' /\ OwnClaims' /\ LeaseHeld' /\ LeaseStep
<1> DEFINE result == WriterResult(outcome, session.epoch, session.lease, a, t)
<1>0. TypedInv /\ OwnClaims /\ ops[i].state # "absent" /\ Commit(i, result, d)
  BY DEF AuthorityInv, Dispatched
<1>1. KeepsGrant(i) BY <1>0, WriterCommitKeepsGrant
<1> HIDE DEF result
<1>2. \A k \in OpId \ {i} : ops'[k] = ops[k] BY <1>0, CommitEffect
<1>3. OneActive' /\ LeaseHeld' /\ (UNCHANGED Lease!leaseVars \/ Lease!Vacate)
  BY <1>0, <1>1, CommitQuietly
<1>4. OwnClaims' BY <1>0, <1>2, ClaimsOwned
<1> QED BY <1>3, <1>4 DEF LeaseStep, Lease!LeaseNext

\* The documents that settlements write keep the epoch, and the lease too
\* unless the writer is gone.
LEMMA SettledLeases ==
    ASSUME session \in Snapshots
    PROVE  /\ LET d == [session EXCEPT !.lifecycle = "ATTACHED",
                                       !.attachment = AttachmentUnderLease]
              IN d.lease = session.lease /\ d.epoch = session.epoch
           /\ BlockedSession.lease = session.lease /\ BlockedSession.epoch = session.epoch
           /\ WriterStopped.lease = session.lease /\ WriterStopped.epoch = session.epoch
           /\ NoWriterLeft.lease = NoLease /\ NoWriterLeft.epoch = session.epoch
BY DEF Snapshots, BlockedSession, WriterStopped, NoWriterLeft

LEMMA LaunchedLeases ==
    ASSUME TypedInv, NEW i \in OpId, NEW outcome
    PROVE  /\ LaunchedSession(i, outcome) \in Snapshots
           /\ LaunchedSession(i, outcome).lease = session.lease
           /\ LaunchedSession(i, outcome).epoch = session.epoch
<1>1. session \in Snapshots /\ ops[i] \in Operations BY DEF TypedInv, TypedRows
<1>2. LaunchPointer(i, ops[i]) \in Launches
  BY <1>1 DEF LaunchPointer, Launches, Operations, Requests, Snapshots, Attachments,
     IdOrNone
<1> DEFINE p == LaunchPointer(i, ops[i])
<1> HIDE DEF p
<1>3. /\ [session EXCEPT !.launch = p] \in Snapshots
      /\ [session EXCEPT !.launch = p].lease = session.lease
      /\ [session EXCEPT !.launch = p].epoch = session.epoch
  BY <1>1, <1>2 DEF Snapshots, p
<1> QED BY <1>1, <1>3 DEF LaunchedSession, p

\* A handoff of an operation that minted nothing, or that settles with the lease
\* it minted.
LEMMA HandoffAuthority ==
    ASSUME AuthorityInv, NEW i \in OpId, session.active.id = i,
           ops[i].state \in Dispatched, NEW result, NEW d \in Snapshots,
           d.epoch = session.epoch, NEW j, NEW type, ClaimedBy(j, type, i, FALSE), NEW r,
           CommitAndReserve(i, result, d, j, r),
           \/ ops[i].request.kind \notin {"writer-attachment-acquire", "restore-activation"}
           \/ /\ result.outcome # "cancelled-before-dispatch"
              /\ result.lease = session.lease,
           d.lease = session.lease \/ (session.lease # NoLease /\ d.lease = NoLease)
    PROVE  OneActive' /\ OwnClaims' /\ LeaseHeld' /\ LeaseStep
<1>0. TypedInv /\ j \in OpId /\ ops[i].state # "absent"
  BY DEF AuthorityInv, ClaimedBy, Dispatched
<1>1. ASSUME j # i PROVE KeepsGrant(i)
  <2>1. /\ ops'[i].state = "committed" /\ ops'[i].request = ops[i].request
        /\ ops'[i].result = result
    BY <1>0, <1>1, HandoffEffect
  <2> QED BY <2>1, OutsiderKeepsGrant, WriterKeepsGrant
<1>2. /\ OneActive' /\ OwnClaims' /\ LeaseHeld'
      /\ UNCHANGED Lease!leaseVars \/ Lease!Vacate
  BY <1>0, <1>1, HandoffQuietly
<1> QED BY <1>2 DEF LeaseStep, Lease!LeaseNext

\* The methods that record an outcome: a release and a fence vacate the session,
\* every other one leaves lease, epoch and grants as they are.
LEMMA SettleAuthority ==
    ASSUME AuthorityInv, SessionReadable, NEW i \in OpId, Settle(i)
    PROVE  OneActive' /\ OwnClaims' /\ LeaseHeld' /\ LeaseStep
<1>0. /\ TypedInv /\ session \in Snapshots /\ NoWriterLeft \in Snapshots
      /\ WriterStopped \in Snapshots /\ BlockedSession \in Snapshots
  BY SettledDocuments DEF AuthorityInv, TypedInv, TypedRows
<1>d. Dispatched = {"starting", "uncertain"} BY DEF Dispatched
<1> DEFINE attached == [session EXCEPT !.lifecycle = "ATTACHED",
                                       !.attachment = AttachmentUnderLease]
<1>a. /\ attached \in Snapshots /\ attached.lease = session.lease
      /\ attached.epoch = session.epoch
  BY <1>0, SettledDocuments, SettledLeases
<1>b. /\ BlockedSession.lease = session.lease /\ BlockedSession.epoch = session.epoch
      /\ WriterStopped.lease = session.lease /\ WriterStopped.epoch = session.epoch
      /\ NoWriterLeft.lease = NoLease /\ NoWriterLeft.epoch = session.epoch
  BY <1>0, SettledLeases
<1>1. CASE FinalizeWriterAttachment(i)
  <2>1. /\ session.active.id = i /\ ops[i].state \in Dispatched /\ claims' = claims
        /\ Commit(i, WriterResult("writer-attached", session.epoch, session.lease,
                                  AttachmentUnderLease, None), attached)
    BY <1>1 DEF FinalizeWriterAttachment, ActiveIn
  <2> HIDE DEF attached
  <2>2. "writer-attached" # "cancelled-before-dispatch"
    OBVIOUS
  <2> QED BY <1>a, <2>1, <2>2, CommitWriter
<1>2. CASE FinalizeWriterRelease(i)
  <2>1. /\ session.active.id = i /\ ops[i].state \in Dispatched /\ claims' = claims
        /\ Commit(i, WriterResult("writer-released", session.epoch, session.lease,
                                  session.attachment, ops[i].request.target), NoWriterLeft)
    BY <1>2 DEF FinalizeWriterRelease, ActiveIn
  <2>2. session.lease # NoLease BY <1>2, BusyIsHeld DEF FinalizeWriterRelease
  <2>3. "writer-released" # "cancelled-before-dispatch"
    OBVIOUS
  <2> QED BY <1>0, <1>b, <2>1, <2>2, <2>3, CommitWriter
<1>3. CASE FinalizeWriterForceFence(i)
  <2>1. /\ session.active.id = i /\ ops[i].state \in Dispatched /\ claims' = claims
        /\ Commit(i, WriterResult("writer-fenced", session.epoch, session.lease,
                                  session.attachment, ops[i].request.target), NoWriterLeft)
    BY <1>3 DEF FinalizeWriterForceFence, ActiveIn, FencedResult
  <2>2. session.lease # NoLease BY <1>3, BusyIsHeld DEF FinalizeWriterForceFence
  <2>3. "writer-fenced" # "cancelled-before-dispatch"
    OBVIOUS
  <2> QED BY <1>0, <1>b, <2>1, <2>2, <2>3, CommitWriter
<1>4. CASE FinalizeWriterForceFenceAndReserveAtomicCrashCapture(i)
  <2> DEFINE j == ops[i].request.intent
             result == FencedResult(i)
             request == AtomicHandoffRequest(i)
             type == "fence-capture-intent"
  <2>1. /\ session.active.id = i /\ ops[i].state \in Dispatched
        /\ ops[i].request.kind = "writer-force-fence"
        /\ ClaimedBy(j, type, i, FALSE)
        /\ CommitAndReserve(i, result, NoWriterLeft, j, request)
    BY <1>4 DEF FinalizeWriterForceFenceAndReserveAtomicCrashCapture, ActiveIn
  <2>2. session.lease # NoLease
    BY <1>4, BusyIsHeld DEF FinalizeWriterForceFenceAndReserveAtomicCrashCapture
  <2> HIDE DEF j, result, request, type
  <2> QED BY <1>0, <1>b, <2>1, <2>2, HandoffAuthority
<1>5. CASE FinalizeWriterOperationBlocked(i)
  <2>1. /\ session.active.id = i /\ ops[i].state \in Dispatched /\ claims' = claims
        /\ Commit(i, WriterResult("writer-blocked", session.epoch, session.lease,
                                  session.attachment, BlockedTarget(i)), BlockedSession)
    BY <1>5, <1>d DEF FinalizeWriterOperationBlocked
  <2>2. "writer-blocked" # "cancelled-before-dispatch"
    OBVIOUS
  <2> QED BY <1>0, <1>b, <2>1, <2>2, CommitWriter
<1>6. CASE FinalizeCheckpointCapture(i)
  BY <1>0, <1>6, <1>d, CommitOutsider DEF FinalizeCheckpointCapture, ActiveIn
<1>7. CASE FinalizeRestoreDestinationGeneration(i)
  BY <1>0, <1>7, <1>d, CommitOutsider DEF FinalizeRestoreDestinationGeneration, ActiveIn
<1>8. CASE FinalizeRestoreGenerationAndReserveLaunch(i)
  <2> DEFINE j == ops[i].request.intent
             result == Outcome("restore-generation-committed")
             request == LaunchHandoffRequest(i)
             type == "restore-launch-intent"
  <2>1. /\ session.active.id = i /\ ops[i].state \in Dispatched
        /\ ops[i].request.kind = "restore-generation"
        /\ ClaimedBy(j, type, i, FALSE)
        /\ CommitAndReserve(i, result, session, j, request)
    BY <1>8 DEF FinalizeRestoreGenerationAndReserveLaunch, ActiveIn
  <2> HIDE DEF j, result, request, type
  <2> QED BY <1>0, <2>1, HandoffAuthority
<1>9. CASE FinalizeActivationAndReserveLaunch(i)
  <2> DEFINE j == ops[i].request.intent
             result == WriterResult("restore-attachment-activated", session.epoch,
                                    session.lease, AttachmentUnderLease, None)
             request == LaunchHandoffRequest(ops[i].request.source)
             type == "activation-launch-intent"
  <2>1. /\ session.active.id = i /\ ops[i].state \in Dispatched
        /\ ClaimedBy(j, type, i, FALSE)
        /\ CommitAndReserve(i, result, attached, j, request)
    BY <1>9 DEF FinalizeActivationAndReserveLaunch, ActiveIn
  <2>2. result.outcome # "cancelled-before-dispatch" /\ result.lease = session.lease
    BY DEF WriterResult
  <2> HIDE DEF j, result, request, type, attached
  <2> QED BY <1>a, <2>1, <2>2, HandoffAuthority
<1>10. ASSUME NEW outcome \in LaunchOutcomes, FinalizeWriterLaunchAttempt(i, outcome)
       PROVE  OneActive' /\ OwnClaims' /\ LeaseHeld' /\ LeaseStep
  <2> DEFINE d == LaunchedSession(i, outcome)
             result == Outcome(outcome)
  <2>1. /\ session.active.id = i /\ ops[i].state \in Dispatched
        /\ ops[i].request.kind = "writer-launch-attempt"
        /\ Commit(i, result, d) /\ claims' = claims
    BY <1>10 DEF FinalizeWriterLaunchAttempt, ActiveIn
  <2>2. d \in Snapshots /\ d.lease = session.lease /\ d.epoch = session.epoch
    BY <1>0, LaunchedLeases
  <2> HIDE DEF d, result
  <2> QED BY <1>d, <2>1, <2>2, CommitOutsider
<1>11. CASE FinalizeWriterLaunchStop(i)
  BY <1>0, <1>b, <1>11, <1>d, CommitOutsider DEF FinalizeWriterLaunchStop, ActiveIn
<1>12. CASE FinalizeWriterLaunchStopAndReserveCapture(i)
  <2> DEFINE j == ops[i].request.intent
             result == Outcome("writer-launch-stopped")
             request == CaptureHandoffRequest(i)
             type == "stop-capture-intent"
  <2>1. /\ session.active.id = i /\ ops[i].state \in Dispatched
        /\ ops[i].request.kind = "writer-launch-stop"
        /\ ClaimedBy(j, type, i, FALSE)
        /\ CommitAndReserve(i, result, WriterStopped, j, request)
    BY <1>12 DEF FinalizeWriterLaunchStopAndReserveCapture, ActiveIn
  <2> HIDE DEF j, result, request, type
  <2> QED BY <1>0, <1>b, <2>1, HandoffAuthority
<1> QED BY <1>1, <1>2, <1>3, <1>4, <1>5, <1>6, <1>7, <1>8, <1>9, <1>10, <1>11, <1>12 DEF
  Settle

\* A reservation takes an absent row, on a session with nothing active.
LEMMA ReserveAuthority ==
    ASSUME AuthorityInv, NEW i \in OpId, NEW r, ReserveOperation(i, r)
    PROVE  OneActive' /\ OwnClaims' /\ LeaseHeld' /\ LeaseStep
<1> DEFINE o == PreparedRow(r, session)
<1>0. /\ OwnClaims /\ LeaseHeld /\ session \in Snapshots
      /\ ops \in [OpId -> Operations] /\ claims \in [OpId -> Claims]
  BY DEF AuthorityInv, TypedInv, TypedRows
<1>1. /\ ops[i].state = "absent" /\ session.active.id = None
      /\ ops' = [ops EXCEPT ![i] = o]
      /\ session' = Activated(session, i, o)
  BY DEF ReserveOperation, NoPointer
<1>2. o.state = "prepared" BY DEF PreparedRow
<1> HIDE DEF o
<1>3. /\ session'.lease = session.lease /\ session'.epoch = session.epoch
      /\ session'.active.id = i
  BY <1>0, <1>1 DEF Activated, Pointer, Snapshots
<1>4. ops'[i] = o /\ \A k \in OpId \ {i} : ops'[k] = ops[k] BY <1>0, <1>1
<1>5. OneActive' /\ \A k \in OpId \ {i} : KeepsGrant(k) BY <1>1, <1>3, <1>4, RowsKept
<1>6. KeepsGrant(i) BY <1>1, <1>2, <1>4 DEF KeepsGrant, Minters, Undispatched
<1>7. LeaseHeld' /\ UNCHANGED Lease!leaseVars BY <1>0, <1>3, <1>5, <1>6, LeaseKept
<1>8. claims'[i].materialized /\ \A k \in OpId \ {i} : claims'[k] = claims[k]
  BY <1>0 DEF ReserveOperation, Claims
<1>9. OwnClaims' BY <1>0, <1>4, <1>8 DEF OwnClaims
<1> QED BY <1>5, <1>7, <1>9 DEF LeaseStep

\* A renewal extends the lease and grants nothing.
LEMMA RenewAuthority ==
    ASSUME AuthorityInv, SessionReadable, NEW i \in OpId, RenewWriterLease(i)
    PROVE  OneActive' /\ OwnClaims' /\ LeaseHeld' /\ LeaseStep
<1> DEFINE lease == RenewedLease(i)
           request == [NoRequest EXCEPT !.kind = "writer-lease-renew"]
           result == WriterResult("writer-lease-renewed", session.epoch, lease,
                                  session.attachment, None)
           o == [PreparedRow(request, session) EXCEPT !.state = "committed",
                                                      !.result = result]
           d == [session EXCEPT !.lease = lease]
<1>0. /\ OwnClaims /\ LeaseHeld /\ session \in Snapshots /\ session.lease \in Leases
      /\ ops \in [OpId -> Operations] /\ claims \in [OpId -> Claims]
  BY DEF AuthorityInv, TypedInv, TypedRows, Snapshots
<1>1. /\ ops[i].state = "absent" /\ session.active.id = None
      /\ ops' = [ops EXCEPT ![i] = o]
      /\ session' = Settled(d, i, o)
  BY DEF RenewWriterLease, NoPointer
<1>2. o.state = "committed" /\ o.request = request BY DEF PreparedRow
<1>3. request.kind = "writer-lease-renew" BY DEF NoRequest
<1>4. lease.id = session.lease.id /\ lease.epoch = session.lease.epoch
  BY <1>0 DEF RenewedLease, Leases
<1> HIDE DEF o, request, lease
<1>5. /\ session'.lease = lease /\ session'.epoch = session.epoch
  BY <1>0, <1>1 DEF Settled, Snapshots
<1>6. ops'[i] = o /\ \A k \in OpId \ {i} : ops'[k] = ops[k] BY <1>0, <1>1
<1>7. OneActive' /\ \A k \in OpId \ {i} : KeepsGrant(k)
  BY <1>1, <1>2, <1>6, RowsKept DEF ActivePhases
<1>8. KeepsGrant(i) BY <1>1, <1>2, <1>3, <1>6 DEF KeepsGrant, Minters
<1>9. session.lease # NoLease BY BusyIsHeld DEF RenewWriterLease, Attached
<1>10. LeaseHeld' /\ UNCHANGED Lease!leaseVars
  BY <1>0, <1>4, <1>5, <1>7, <1>8, <1>9, LeaseKept
<1>11. claims'[i].materialized /\ \A k \in OpId \ {i} : claims'[k] = claims[k]
  BY <1>0 DEF RenewWriterLease
<1>12. OwnClaims' BY <1>0, <1>6, <1>11 DEF OwnClaims
<1> QED BY <1>7, <1>10, <1>12 DEF LeaseStep

LEMMA UncertainAuthority ==
    ASSUME AuthorityInv, NEW i \in OpId, MarkOperationUncertain(i)
    PROVE  OneActive' /\ OwnClaims' /\ LeaseHeld' /\ LeaseStep
<1> DEFINE n == 2
           o == PhaseRow(ops[i], "uncertain", n)
<1>0. /\ OwnClaims /\ LeaseHeld /\ session \in Snapshots
      /\ ops \in [OpId -> Operations] /\ ops[i] \in Operations
  BY DEF AuthorityInv, TypedInv, TypedRows
<1>1. /\ session.active.id = i /\ ops[i].state = "starting" /\ claims' = claims
      /\ ops' = [ops EXCEPT ![i] = o]
      /\ session' = Activated(session, i, o)
  BY DEF MarkOperationUncertain, PhaseRow
<1>2. o.state = "uncertain" /\ o.request = ops[i].request BY <1>0 DEF PhaseRow, Operations
<1> HIDE DEF o
<1>3. /\ session'.lease = session.lease /\ session'.epoch = session.epoch
      /\ session'.active.id = i
  BY <1>0, <1>1 DEF Activated, Pointer, Snapshots
<1>4. ops'[i] = o /\ \A k \in OpId \ {i} : ops'[k] = ops[k] BY <1>0, <1>1
<1>5. OneActive' /\ \A k \in OpId \ {i} : KeepsGrant(k) BY <1>1, <1>3, <1>4, RowsKept
<1>6. KeepsGrant(i)
  BY <1>1, <1>2, <1>3, <1>4 DEF KeepsGrant, Minters, MintedEpoch, Undispatched, Cancelled
<1>7. LeaseHeld' /\ UNCHANGED Lease!leaseVars BY <1>0, <1>3, <1>5, <1>6, LeaseKept
<1>8. OwnClaims' BY <1>0, <1>1, <1>4, ClaimsOwned
<1> QED BY <1>5, <1>7, <1>8 DEF LeaseStep

\* A cancelled operation never was a minter: it had not been dispatched.
LEMMA CancelAuthority ==
    ASSUME AuthorityInv, NEW i \in OpId, CancelPreparedOperation(i)
    PROVE  OneActive' /\ OwnClaims' /\ LeaseHeld' /\ LeaseStep
<1> DEFINE result == Outcome("cancelled-before-dispatch")
<1>0. TypedInv /\ OwnClaims /\ session \in Snapshots
  BY DEF AuthorityInv, TypedInv, TypedRows
<1>1. /\ session.active.id = i /\ ops[i].state = "prepared" /\ claims' = claims
      /\ Commit(i, result, session)
  BY DEF CancelPreparedOperation, Cancellable
<1>2. result.outcome = "cancelled-before-dispatch" BY DEF Outcome, NoResult
<1> HIDE DEF result
<1>3. /\ ops'[i].state = "committed" /\ ops'[i].result = result
      /\ \A k \in OpId \ {i} : ops'[k] = ops[k]
  BY <1>0, <1>1, CommitEffect
<1>4. KeepsGrant(i) BY <1>1, <1>2, <1>3 DEF KeepsGrant, Minters, Undispatched, Cancelled
<1>5. OneActive' /\ LeaseHeld' /\ UNCHANGED Lease!leaseVars
  BY <1>0, <1>1, <1>4, CommitQuietly
<1>6. OwnClaims' BY <1>0, <1>1, <1>3, ClaimsOwned
<1> QED BY <1>5, <1>6 DEF LeaseStep

LEMMA WorldAuthority ==
    ASSUME AuthorityInv,
           \/ LeaseExpires
           \/ \E j \in OpId, type \in {"foreign", "stable-plan"} : ForeignClaim(j, type)
           \/ UNCHANGED vars
    PROVE  OneActive' /\ OwnClaims' /\ LeaseHeld' /\ LeaseStep
<1>0. OneActive /\ OwnClaims /\ LeaseHeld /\ claims \in [OpId -> Claims]
  BY DEF AuthorityInv, TypedInv
<1>1. session' = session /\ ops' = ops BY DEF LeaseExpires, ForeignClaim, vars
<1>2. OneActive' BY <1>0, <1>1 DEF OneActive
<1>3. \A k \in OpId : KeepsGrant(k)
  BY <1>1 DEF KeepsGrant, Minters, MintedEpoch, Undispatched, Cancelled
<1>4. LeaseHeld' /\ UNCHANGED Lease!leaseVars BY <1>0, <1>1, <1>3, LeaseKept
<1>5. CASE claims' = claims BY <1>0, <1>1, <1>2, <1>4, <1>5 DEF OwnClaims, LeaseStep
<1>6. ASSUME NEW j \in OpId, NEW type, ForeignClaim(j, type) PROVE OwnClaims'
  <2>1. ops[j].state = "absent"
    BY <1>0, <1>6 DEF ForeignClaim, IntentFree, NoClaim, OwnClaims
  <2>2. \A k \in OpId \ {j} : claims'[k] = claims[k] BY <1>0, <1>6 DEF ForeignClaim
  <2> QED BY <1>0, <1>1, <2>1, <2>2 DEF OwnClaims
<1>7. claims' = claims \/ OwnClaims' BY <1>6 DEF LeaseExpires, vars
<1> QED BY <1>2, <1>4, <1>5, <1>7 DEF LeaseStep

LEMMA NextAuthority ==
    ASSUME AuthorityInv, [Next]_vars
    PROVE  AuthorityInv' /\ LeaseStep
<1>1. ASSUME SessionReadable, NEW i \in OpId, Step(i)
      PROVE  OneActive' /\ OwnClaims' /\ LeaseHeld' /\ LeaseStep
  BY <1>1, ReserveAuthority, RenewAuthority, DispatchAuthority, UncertainAuthority,
     SettleAuthority, CancelAuthority DEF Step
<1>2. OneActive' /\ OwnClaims' /\ LeaseHeld' /\ LeaseStep BY <1>1, WorldAuthority DEF Next
<1>3. TypedInv' BY NextTyped DEF AuthorityInv
<1> QED BY <1>2, <1>3 DEF AuthorityInv

LEMMA AuthorityInvariance == Spec => []AuthorityInv
BY InitAuthority, NextAuthority, PTL DEF Spec

--------------------------------------------------------------------------------
(* The theorems. *)

\* The session authority implements the abstract fenced lease, whatever its
\* callers do and however its methods interleave: only a dispatched acquisition
\* or activation is granted an epoch, only on a session nobody holds, and only a
\* finished release or fence takes the session from its holder.
THEOREM Refinement == Spec => ImplementsFencedLease
<1>1. Init => Lease!LeaseInit
  BY DEF Init, Lease!LeaseInit, RegisteredSession, NoLease, Granted, Minters, NoOperation
<1>2. AuthorityInv /\ [Next]_vars => [Lease!LeaseNext]_(Lease!leaseVars)
  BY NextAuthority DEF LeaseStep
<1> QED BY <1>1, <1>2, AuthorityInvariance, PTL DEF Spec, ImplementsFencedLease,
  Lease!LeaseSpec

\* Every dispatched writer got an epoch of its own, above those of all the
\* writers before it, whatever the callers do (nextWriterEpoch): a provider that
\* compares epochs can tell a superseded writer from the current one.
THEOREM EpochsFence == Spec => []EpochsFenceWriters
<1> DEFINE Grants == Lease!OneGrantPerEpoch /\ Lease!HolderIsLatest
<1>1. ASSUME Init PROVE Grants
  <2>1. Minters = {} /\ session.lease.id = None /\ session.epoch = 0
    BY <1>1 DEF Init, RegisteredSession, NoLease, Minters, NoOperation
  <2>2. \A k \in OpId : Granted[k] = 0 BY <2>1 DEF Granted
  <2> QED BY <2>1, <2>2 DEF Lease!OneGrantPerEpoch, Lease!HolderIsLatest
<1>2. AuthorityInv /\ Grants /\ LeaseStep => Grants'
  <2> SUFFICES ASSUME AuthorityInv, Grants, LeaseStep PROVE Grants'
    OBVIOUS
  <2>0. /\ session.epoch \in Nat /\ session.lease.id \in IdOrNone
        /\ \A k \in OpId : Granted[k] \in Nat
    BY DEF AuthorityInv, TypedInv, TypedRows, Snapshots, Leases, Lease!HolderIsLatest
  <2>1. CASE UNCHANGED Lease!leaseVars
    BY <2>1 DEF Lease!leaseVars, Lease!OneGrantPerEpoch, Lease!HolderIsLatest
  <2>2. ASSUME NEW h \in OpId, Lease!Grant(h) PROVE Grants'
    <3>1. DOMAIN Granted = OpId BY DEF Granted
    <3>2. /\ Granted'[h] = session.epoch + 1
          /\ \A k \in OpId \ {h} : Granted'[k] = Granted[k]
          /\ session'.epoch = session.epoch + 1 /\ session'.lease.id = h
      BY <2>2, <3>1 DEF Lease!Grant
    <3>3. \A k \in OpId : Granted[k] \in 0 .. session.epoch BY DEF Lease!HolderIsLatest
    <3> QED BY <2>0, <3>2, <3>3, NoneAssumption DEF Lease!OneGrantPerEpoch,
      Lease!HolderIsLatest
  <2>3. CASE Lease!Revoke
    BY <2>0, <2>3 DEF Lease!Revoke, Lease!OneGrantPerEpoch, Lease!HolderIsLatest
  <2>4. CASE Lease!Vacate
    BY <2>0, <2>4 DEF Lease!Vacate, Lease!OneGrantPerEpoch, Lease!HolderIsLatest
  <2> QED BY <2>1, <2>2, <2>3, <2>4 DEF LeaseStep, Lease!LeaseNext
<1>3. AuthorityInv /\ Grants => EpochsFenceWriters
  <2> SUFFICES ASSUME AuthorityInv, Grants PROVE EpochsFenceWriters
    OBVIOUS
  <2>1. \A k \in Minters : k \in OpId /\ Granted[k] = MintedEpoch(k) /\ Granted[k] # 0
    BY DEF Granted, Minters, AuthorityInv, LeaseHeld
  <2>2. \A i, j \in Minters : MintedEpoch(i) = MintedEpoch(j) => i = j
    BY <2>1 DEF Lease!OneGrantPerEpoch
  <2>3. \A i \in Minters : MintedEpoch(i) <= session.epoch BY <2>1 DEF Lease!HolderIsLatest
  <2>4. ASSUME session.lease # NoLease
        PROVE  /\ session.lease.id \in Minters
               /\ session.lease.epoch = MintedEpoch(session.lease.id)
               /\ \A i \in Minters : MintedEpoch(i) <= session.lease.epoch
    <3>1. /\ session.lease.id \in Minters
          /\ session.lease.epoch = MintedEpoch(session.lease.id)
      BY <2>4 DEF AuthorityInv, LeaseHeld
    <3>2. session.lease.id # None BY <2>1, <3>1, NoneAssumption
    <3> QED BY <2>1, <3>1, <3>2 DEF Lease!HolderIsLatest
  <2> QED BY <2>2, <2>3, <2>4 DEF EpochsFenceWriters
<1>4. AuthorityInv /\ [Next]_vars => LeaseStep BY NextAuthority
<1> HIDE DEF Grants
<1> QED BY <1>1, <1>2, <1>3, <1>4, AuthorityInvariance, PTL DEF Spec

--------------------------------------------------------------------------------
(***************************************************************************)
(* The session and its writer, whatever the callers do: a fence always      *)
(* names the writer whose lease the session holds, the writer leaves only   *)
(* by a release or a fence of its own, a writer process that may run is     *)
(* never forgotten, and what was dispatched can be recorded.                *)
(*                                                                          *)
(* A method acts only on a session that it can read, so what                *)
(* validateSessionRelations says of the state before a step is at hand;     *)
(* the invariants below say what the state after it must keep.              *)
(***************************************************************************)
\* The contracts whose operations hand over to another operation.
HandoffContracts == HandoffToTypedOperation \cup {<<"writer-force-fence", 2>>}

\* Such an operation, and no other, names an operation to hand over to.
IntentsNamed ==
    \A i \in OpId : ops[i].request.intent # None <=> Contract(ops[i]) \in HandoffContracts

\* The target that a blocked operation left, and the one that an active release
\* or fence names, is the writer whose lease the session holds.
Anchored ==
    /\ session.lifecycle = "BLOCKED" =>
         /\ session.last.id \in OpId /\ ops[session.last.id].state = "committed"
         /\ ops[session.last.id].result.target = session.lease.id
    /\ \A i \in OpId :
         session.active.id = i =>
           /\ ops[i].request.kind \in {"writer-release", "writer-force-fence"} =>
                ops[i].request.target = session.lease.id
    /\ session.lifecycle = "FENCING" =>
         /\ session.active.id \in OpId
         /\ ops[session.active.id].request.kind = "writer-force-fence"

\* The active pointer names an operation.
ActiveNamed == session.active # NoPointer => session.active.id \in OpId

WriterInv ==
    /\ AuthorityInv /\ ActiveNamed /\ IntentsNamed /\ Anchored
    /\ RunningWriterTracked /\ DispatchedRecoverable

--------------------------------------------------------------------------------
(* What a transaction leaves in the document and in the rows. *)

\* The session shows the writer of the document d.
Shows(d) ==
    /\ session'.lifecycle = d.lifecycle /\ session'.epoch = d.epoch
    /\ session'.lease = d.lease /\ session'.attachment = d.attachment
    /\ session'.launch = d.launch

\* The row of operation i is in another phase and otherwise what it was.
SameOperation(i) ==
    ops'[i].request = ops[i].request /\ ops'[i].expected = ops[i].expected

\* Operation i is dispatched, on the document d.
Starts(i, d) ==
    /\ Shows(d) /\ session'.last = d.last /\ session'.revision = d.revision + 1
    /\ session'.active = Pointer(i, ops'[i]) /\ session'.active.id = i
    /\ ops'[i].state = "starting" /\ ops'[i].revision = 1 /\ SameOperation(i)
    /\ ops'[i].result = ops[i].result
    /\ \A k \in OpId \ {i} : ops'[k] = ops[k]

\* Operation i is settled, and leaves the document d.
Commits(i, result, d) ==
    /\ Shows(d) /\ session'.revision = d.revision + 1
    /\ session'.active = NoPointer /\ session'.active.id = None
    /\ session'.last = Pointer(i, ops'[i]) /\ session'.last.id = i
    /\ ops'[i].state = "committed" /\ ops'[i].revision = ops[i].revision + 1
    /\ SameOperation(i) /\ ops'[i].result = result
    /\ \A k \in OpId \ {i} : ops'[k] = ops[k]

\* Operation i is settled, leaves the document d and hands over to operation j.
HandsOver(i, result, d, j, r) ==
    /\ Shows(d) /\ session'.revision = d.revision + 2
    /\ session'.active = Pointer(j, ops'[j]) /\ session'.active.id = j
    /\ session'.last = Pointer(i, ops'[i]) /\ session'.last.id = i
    /\ ops'[i].state = "committed" /\ ops'[i].revision = ops[i].revision + 1
    /\ SameOperation(i) /\ ops'[i].result = result
    /\ ops'[j].state = "prepared" /\ ops'[j].revision = 0 /\ ops'[j].request = r
    /\ ops'[j].expected = Settled(d, i, ops'[i])
    /\ \A k \in OpId \ {i, j} : ops'[k] = ops[k]

LEMMA StartWrites ==
    ASSUME TypedInv, NEW i \in OpId, NEW d \in Snapshots, Start(i, d)
    PROVE  Starts(i, d)
<1> DEFINE o == PhaseRow(ops[i], "starting", 1)
<1>a. ops[i] \in Operations /\ ops \in [OpId -> Operations] BY DEF TypedInv, TypedRows
<1>1. /\ ops' = [ops EXCEPT ![i] = o]
      /\ session' = Activated(d, i, o)
  BY DEF Start, PhaseRow
<1>2. /\ o.state = "starting" /\ o.revision = 1 /\ o.request = ops[i].request
      /\ o.expected = ops[i].expected /\ o.result = ops[i].result
  BY <1>a DEF PhaseRow, Operations
<1> HIDE DEF o
<1>3. /\ Shows(d) /\ session'.last = d.last /\ session'.revision = d.revision + 1
      /\ session'.active = Pointer(i, o)
  BY <1>1 DEF Activated, Snapshots, Shows
<1>4. ops'[i] = o /\ \A k \in OpId \ {i} : ops'[k] = ops[k] BY <1>a, <1>1
<1>5. Pointer(i, o).id = i BY DEF Pointer
<1> QED BY <1>2, <1>3, <1>4, <1>5 DEF Starts, SameOperation

LEMMA CommitWrites ==
    ASSUME TypedInv, NEW i \in OpId, NEW result, NEW d \in Snapshots,
           Commit(i, result, d)
    PROVE  Commits(i, result, d)
<1> DEFINE o == CommittedRow(ops[i], result)
<1>a. ops[i] \in Operations /\ ops \in [OpId -> Operations] BY DEF TypedInv, TypedRows
<1>1. /\ ops' = [ops EXCEPT ![i] = o]
      /\ session' = Settled(d, i, o)
  BY DEF Commit
<1>2. /\ o.state = "committed" /\ o.revision = ops[i].revision + 1
      /\ o.request = ops[i].request /\ o.expected = ops[i].expected /\ o.result = result
  BY <1>a DEF CommittedRow, Operations
<1> HIDE DEF o
<1>3. /\ Shows(d) /\ session'.revision = d.revision + 1 /\ session'.active = NoPointer
      /\ session'.last = Pointer(i, o)
  BY <1>1 DEF Settled, Snapshots, Shows
<1>4. ops'[i] = o /\ \A k \in OpId \ {i} : ops'[k] = ops[k] BY <1>a, <1>1
<1>5. Pointer(i, o).id = i /\ NoPointer.id = None BY DEF Pointer, NoPointer
<1> QED BY <1>2, <1>3, <1>4, <1>5 DEF Commits, SameOperation

LEMMA HandoffWrites ==
    ASSUME TypedInv, NEW i \in OpId, NEW result, NEW d \in Snapshots, NEW j \in OpId,
           NEW r, j # i, CommitAndReserve(i, result, d, j, r)
    PROVE  HandsOver(i, result, d, j, r)
<1> DEFINE o == CommittedRow(ops[i], result)
           settled == Settled(d, i, o)
           next == PreparedRow(r, settled)
<1>a. ops[i] \in Operations /\ ops \in [OpId -> Operations] BY DEF TypedInv, TypedRows
<1>1. /\ ops' = [ops EXCEPT ![i] = o, ![j] = next]
      /\ session' = Activated(settled, j, next)
  BY DEF CommitAndReserve
<1>2. /\ o.state = "committed" /\ o.revision = ops[i].revision + 1
      /\ o.request = ops[i].request /\ o.expected = ops[i].expected /\ o.result = result
  BY <1>a DEF CommittedRow, Operations
<1>3. /\ next.state = "prepared" /\ next.revision = 0 /\ next.request = r
      /\ next.expected = settled
  BY DEF PreparedRow
<1>4. settled = [d EXCEPT !.revision = d.revision + 1, !.active = NoPointer,
                          !.last = Pointer(i, o)]
  BY DEF Settled
<1>s. settled = Settled(d, i, o)
  OBVIOUS
<1> HIDE DEF o, next, settled
<1>5. /\ Shows(d) /\ session'.revision = d.revision + 1 + 1
      /\ session'.active = Pointer(j, next) /\ session'.last = Pointer(i, o)
  BY <1>1, <1>4 DEF Activated, Snapshots, Shows
<1>6. session'.revision = d.revision + 2 BY <1>5 DEF Snapshots
<1>7. ops'[i] = o /\ ops'[j] = next /\ \A k \in OpId \ {i, j} : ops'[k] = ops[k]
  BY <1>a, <1>1
<1>8. Pointer(i, o).id = i /\ Pointer(j, next).id = j BY DEF Pointer
<1>9. ops'[j].expected = Settled(d, i, ops'[i]) BY <1>3, <1>7, <1>s
<1> QED BY <1>2, <1>3, <1>5, <1>6, <1>7, <1>8, <1>9 DEF HandsOver, SameOperation

\* The row of operation i is inserted as o, next to the others.
Inserts(i, o) ==
    /\ ops[i].state = "absent" /\ ops'[i] = o
    /\ \A k \in OpId \ {i} : ops'[k] = ops[k]
    /\ session.active = NoPointer
    /\ claims'[i].materialized /\ \A k \in OpId \ {i} : claims'[k] = claims[k]

\* reserveOperation writes the prepared row of request r.
Reserves(i, r) ==
    /\ Inserts(i, PreparedRow(r, session))
    /\ Shows(session) /\ session'.last = session.last
    /\ session'.revision = session.revision + 1
    /\ session'.active = Pointer(i, ops'[i]) /\ session'.active.id = i

LEMMA ReserveWrites ==
    ASSUME TypedInv, NEW i \in OpId, NEW r, ReserveOperation(i, r)
    PROVE  Reserves(i, r)
<1> DEFINE o == PreparedRow(r, session)
<1>0. /\ session \in Snapshots /\ ops \in [OpId -> Operations]
      /\ claims \in [OpId -> Claims]
  BY DEF TypedInv, TypedRows
<1>1. /\ ops[i].state = "absent" /\ session.active = NoPointer
      /\ ops' = [ops EXCEPT ![i] = o]
      /\ session' = Activated(session, i, o)
  BY DEF ReserveOperation
<1> HIDE DEF o
<1>2. /\ Shows(session) /\ session'.last = session.last
      /\ session'.revision = session.revision + 1 /\ session'.active = Pointer(i, o)
  BY <1>0, <1>1 DEF Activated, Snapshots, Shows
<1>3. ops'[i] = o /\ \A k \in OpId \ {i} : ops'[k] = ops[k] BY <1>0, <1>1
<1>4. Pointer(i, o).id = i BY DEF Pointer
<1>5. claims'[i].materialized /\ \A k \in OpId \ {i} : claims'[k] = claims[k]
  BY <1>0 DEF ReserveOperation, Claims
<1> QED BY <1>1, <1>2, <1>3, <1>4, <1>5 DEF Reserves, Inserts, o

\* renewWriterLease writes the committed row of the renewal.
RenewalRow(i) ==
    [PreparedRow([NoRequest EXCEPT !.kind = "writer-lease-renew"], session)
       EXCEPT !.state = "committed",
              !.result = WriterResult("writer-lease-renewed", session.epoch,
                                      RenewedLease(i), session.attachment, None)]

Renews(i) ==
    /\ Inserts(i, RenewalRow(i))
    /\ Attached /\ session'.lease = RenewedLease(i)
    /\ session'.lifecycle = session.lifecycle /\ session'.epoch = session.epoch
    /\ session'.attachment = session.attachment /\ session'.launch = session.launch
    /\ session'.revision = session.revision + 1
    /\ session'.active = NoPointer /\ session'.active.id = None
    /\ session'.last = Pointer(i, ops'[i]) /\ session'.last.id = i

LEMMA RenewWrites ==
    ASSUME TypedInv, NEW i \in OpId, RenewWriterLease(i)
    PROVE  Renews(i)
<1> DEFINE o == RenewalRow(i)
           lease == RenewedLease(i)
<1>0. /\ session \in Snapshots /\ ops \in [OpId -> Operations]
      /\ claims \in [OpId -> Claims]
  BY DEF TypedInv, TypedRows
<1>1. /\ ops[i].state = "absent" /\ session.active = NoPointer /\ Attached
      /\ ops' = [ops EXCEPT ![i] = o]
      /\ session' = Settled([session EXCEPT !.lease = lease], i, o)
  BY DEF RenewWriterLease, RenewalRow
<1> HIDE DEF o, lease
<1>2. /\ session'.lease = lease
      /\ session'.lifecycle = session.lifecycle /\ session'.epoch = session.epoch
      /\ session'.attachment = session.attachment /\ session'.launch = session.launch
      /\ session'.revision = session.revision + 1
      /\ session'.active = NoPointer /\ session'.last = Pointer(i, o)
  BY <1>0, <1>1 DEF Settled, Snapshots
<1>3. ops'[i] = o /\ \A k \in OpId \ {i} : ops'[k] = ops[k] BY <1>0, <1>1
<1>4. Pointer(i, o).id = i /\ NoPointer.id = None BY DEF Pointer, NoPointer
<1>5. claims'[i].materialized /\ \A k \in OpId \ {i} : claims'[k] = claims[k]
  BY <1>0 DEF RenewWriterLease
<1> QED BY <1>1, <1>2, <1>3, <1>4, <1>5 DEF Renews, Inserts, o, lease

\* markOperationUncertain writes the next phase of the active operation.
Doubts(i) ==
    /\ session.active.id = i /\ ops[i].state = "starting" /\ claims' = claims
    /\ Space(IF ops[i].request.kind \in TypedKinds THEN 2 ELSE 1)
    /\ Shows(session) /\ session'.last = session.last
    /\ session'.revision = session.revision + 1
    /\ session'.active = Pointer(i, ops'[i]) /\ session'.active.id = i
    /\ ops'[i].state = "uncertain" /\ ops'[i].revision = 2 /\ SameOperation(i)
    /\ ops'[i].result = ops[i].result
    /\ \A k \in OpId \ {i} : ops'[k] = ops[k]

LEMMA UncertainWrites ==
    ASSUME TypedInv, NEW i \in OpId, MarkOperationUncertain(i)
    PROVE  Doubts(i)
<1> DEFINE n == 2
           o == PhaseRow(ops[i], "uncertain", n)
<1>0. /\ session \in Snapshots /\ ops \in [OpId -> Operations] /\ ops[i] \in Operations
  BY DEF TypedInv, TypedRows
<1>1. /\ session.active.id = i /\ ops[i].state = "starting" /\ claims' = claims
      /\ Space(IF ops[i].request.kind \in TypedKinds THEN 2 ELSE 1)
      /\ ops' = [ops EXCEPT ![i] = o]
      /\ session' = Activated(session, i, o)
  BY DEF MarkOperationUncertain, PhaseRow
<1>2. /\ o.state = "uncertain" /\ o.revision = 2 /\ o.request = ops[i].request
      /\ o.expected = ops[i].expected /\ o.result = ops[i].result
  BY <1>0 DEF PhaseRow, Operations
<1> HIDE DEF o
<1>3. /\ Shows(session) /\ session'.last = session.last
      /\ session'.revision = session.revision + 1 /\ session'.active = Pointer(i, o)
  BY <1>0, <1>1 DEF Activated, Snapshots, Shows
<1>4. ops'[i] = o /\ \A k \in OpId \ {i} : ops'[k] = ops[k] BY <1>0, <1>1
<1>5. Pointer(i, o).id = i BY DEF Pointer
<1> QED BY <1>1, <1>2, <1>3, <1>4, <1>5 DEF Doubts, SameOperation

\* cancelPreparedOperation settles the prepared operation on the session.
LEMMA CancelWrites ==
    ASSUME TypedInv, NEW i \in OpId, CancelPreparedOperation(i)
    PROVE  /\ Cancellable(i) /\ claims' = claims
           /\ Commits(i, Outcome("cancelled-before-dispatch"), session)
<1> DEFINE result == Outcome("cancelled-before-dispatch")
<1>1. /\ session \in Snapshots /\ Commit(i, result, session)
      /\ Cancellable(i) /\ claims' = claims
  BY DEF TypedInv, TypedRows, CancelPreparedOperation
<1> HIDE DEF result
<1>2. Commits(i, result, session) BY <1>1, CommitWrites
<1> QED BY <1>1, <1>2 DEF result

--------------------------------------------------------------------------------
(* The dispatches. *)

\* The claim that a dispatch makes for the operation it will hand over to.
IntentType(kind) ==
    IF kind = "restore-generation" THEN "restore-launch-intent"
    ELSE IF kind = "restore-activation" THEN "activation-launch-intent"
    ELSE IF kind = "writer-launch-stop" THEN "stop-capture-intent"
    ELSE "fence-capture-intent"

MintingKinds == {"writer-attachment-acquire", "restore-activation"}

\* What a dispatch of operation i makes of the session.
DispatchDocument(i, d) ==
    LET kind == ops[i].request.kind IN
    \/ /\ kind \in MintingKinds /\ Detached /\ EpochLeft
       /\ d.lifecycle = "ATTACHING" /\ d.epoch = session.epoch + 1
       /\ d.lease = MintedLease(i)
    \/ /\ kind = "writer-release" /\ Attached /\ session.launch = NoLaunch
       /\ d.lifecycle = "RELEASING" /\ d.epoch = session.epoch /\ d.lease = session.lease
    \/ /\ kind = "writer-force-fence" /\ session.lifecycle \in {"ATTACHED", "BLOCKED"}
       /\ d.lifecycle = "FENCING" /\ d.epoch = session.epoch + 1
       /\ d.lease = session.lease
    \/ /\ kind = "generic" /\ d = session
    \/ /\ kind = "checkpoint-capture" /\ Attached /\ d = session
    \/ /\ kind = "restore-generation" /\ Attached /\ d = session
       /\ CheckpointSource(ops[i].request.source)
    \/ /\ kind = "writer-launch-attempt" /\ Attached /\ d = session
       /\ session.launch = NoLaunch /\ session.attachment = ops[i].expected.attachment
       /\ LaunchGeneration(ops[i].request, session.attachment)
    \/ /\ kind = "writer-launch-stop" /\ Attached /\ d = session
       /\ session.launch = ops[i].expected.launch

DispatchClaims(i) ==
    LET r == ops[i].request IN
    IF Contract(ops[i]) \in HandoffContracts
    THEN IntentFree(r.intent, i) /\ claims' = ClaimFor(r.intent, IntentType(r.kind), i)
    ELSE claims' = claims

Dispatches(i, d) ==
    /\ session.active.id = i /\ ops[i].state = "prepared"
    /\ Space(DispatchSpace(ops[i].request))
    /\ Starts(i, d)
    /\ d.attachment = session.attachment /\ d.launch = session.launch
    /\ d.last = session.last /\ d.revision = session.revision
    /\ DispatchDocument(i, d)
    /\ DispatchClaims(i)

LEMMA ContractFacts ==
    ASSUME TypedInv, NEW i \in OpId
    PROVE  LET r == ops[i].request IN
           /\ r.kind = "restore-activation" => Contract(ops[i]) \in HandoffContracts
           /\ r.kind = "restore-generation" =>
                (Contract(ops[i]) \in HandoffContracts <=> r.version = 2)
           /\ r.kind = "writer-launch-stop" =>
                (Contract(ops[i]) \in HandoffContracts <=> r.version = 3)
           /\ r.kind = "writer-force-fence" =>
                (Contract(ops[i]) \in HandoffContracts <=> r.version = 2)
           /\ r.kind \notin {"restore-activation", "restore-generation",
                             "writer-launch-stop", "writer-force-fence"} =>
                Contract(ops[i]) \notin HandoffContracts
<1>1. ops[i].request.kind = "restore-activation" => ops[i].request.version \in {1, 2}
  BY DEF TypedInv, TypedRows, ActivationVersions
<1> QED BY <1>1 DEF HandoffContracts, HandoffToTypedOperation, Contract

LEMMA DispatchWrites ==
    ASSUME TypedInv, NEW i \in OpId, Dispatch(i)
    PROVE  \E d \in Snapshots : Dispatches(i, d)
<1>0. session \in Snapshots BY DEF TypedInv, TypedRows
<1>q. ASSUME session.active.id = i, ops[i].state = "prepared",
             Space(DispatchSpace(ops[i].request)), Start(i, session),
             DispatchDocument(i, session), DispatchClaims(i)
      PROVE  \E d \in Snapshots : Dispatches(i, d)
  <2>1. Starts(i, session) BY <1>0, <1>q, StartWrites
  <2> QED BY <1>0, <1>q, <2>1 DEF Dispatches
<1>m. ASSUME session.active.id = i, ops[i].state = "prepared", Detached, EpochLeft,
             ops[i].request.kind \in MintingKinds, Space(DispatchSpace(ops[i].request)),
             Start(i, [session EXCEPT !.lifecycle = "ATTACHING", !.epoch = NextEpoch,
                                      !.lease = MintedLease(i)]),
             DispatchClaims(i)
      PROVE  \E d \in Snapshots : Dispatches(i, d)
  <2> DEFINE d == [session EXCEPT !.lifecycle = "ATTACHING", !.epoch = NextEpoch,
                                  !.lease = MintedLease(i)]
  <2>1. d \in Snapshots /\ Start(i, d) BY <1>0, <1>m, MintTyped
  <2>2. /\ d.lifecycle = "ATTACHING" /\ d.epoch = session.epoch + 1
        /\ d.lease = MintedLease(i)
        /\ d.attachment = session.attachment /\ d.launch = session.launch
        /\ d.last = session.last /\ d.revision = session.revision
    BY <1>0 DEF Snapshots, NextEpoch
  <2> HIDE DEF d
  <2>3. Starts(i, d) BY <2>1, StartWrites
  <2>4. DispatchDocument(i, d) BY <1>m, <2>2 DEF DispatchDocument
  <2> QED BY <1>m, <2>1, <2>2, <2>3, <2>4 DEF Dispatches
<1>1. CASE ClaimWriterAttachmentDispatch(i)
  <2>1. DispatchClaims(i)
    BY <1>1, ContractFacts DEF ClaimWriterAttachmentDispatch, AcquireDispatchable, ActiveIn,
       DispatchClaims
  <2> QED BY <1>1, <1>m, <2>1 DEF ClaimWriterAttachmentDispatch, AcquireDispatchable,
    ActiveIn, MintingKinds
<1>2. CASE ClaimRestoreAttachmentActivationDispatch(i)
  <2>1. DispatchClaims(i)
    BY <1>2, ContractFacts DEF ClaimRestoreAttachmentActivationDispatch,
       ActivationDispatchable, ActiveIn, DispatchClaims, IntentType
  <2> QED BY <1>2, <1>m, <2>1 DEF ClaimRestoreAttachmentActivationDispatch,
    ActivationDispatchable, ActiveIn, MintingKinds
<1>3. CASE ClaimWriterReleaseDispatch(i)
  <2> DEFINE d == [session EXCEPT !.lifecycle = "RELEASING"]
  <2>1. /\ session.active.id = i /\ ops[i].state = "prepared" /\ Start(i, d)
        /\ ops[i].request.kind = "writer-release" /\ Attached
        /\ session.launch = NoLaunch /\ Space(DispatchSpace(ops[i].request))
        /\ claims' = claims
    BY <1>3 DEF ClaimWriterReleaseDispatch, ReleaseDispatchable, ActiveIn
  <2>2. /\ d \in Snapshots /\ d.lifecycle = "RELEASING" /\ d.epoch = session.epoch
        /\ d.lease = session.lease
        /\ d.attachment = session.attachment /\ d.launch = session.launch
        /\ d.last = session.last /\ d.revision = session.revision
    BY <1>0 DEF Snapshots, Lifecycles
  <2> HIDE DEF d
  <2>3. Starts(i, d) BY <2>1, <2>2, StartWrites
  <2>4. DispatchDocument(i, d) BY <2>1, <2>2 DEF DispatchDocument
  <2>5. DispatchClaims(i) BY <2>1, ContractFacts DEF DispatchClaims
  <2> QED BY <2>1, <2>2, <2>3, <2>4, <2>5 DEF Dispatches
<1>4. CASE ClaimWriterForceFenceDispatch(i)
  <2> DEFINE d == [session EXCEPT !.lifecycle = "FENCING", !.epoch = NextEpoch]
  <2>1. /\ session.active.id = i /\ ops[i].state = "prepared" /\ Start(i, d)
        /\ ops[i].request.kind = "writer-force-fence" /\ EpochLeft
        /\ session.lifecycle \in {"ATTACHED", "BLOCKED"}
        /\ Space(DispatchSpace(ops[i].request))
    BY <1>4 DEF ClaimWriterForceFenceDispatch, FenceDispatchable, ActiveIn
  <2>a. NextEpoch \in 0 .. MaxEpoch
    BY <1>0, <2>1, BoundAssumption DEF EpochLeft, NextEpoch, Snapshots
  <2>2. /\ d \in Snapshots /\ d.lifecycle = "FENCING" /\ d.epoch = session.epoch + 1
        /\ d.lease = session.lease
        /\ d.attachment = session.attachment /\ d.launch = session.launch
        /\ d.last = session.last /\ d.revision = session.revision
    BY <1>0, <2>a DEF Snapshots, Lifecycles, NextEpoch
  <2> HIDE DEF d
  <2>3. Starts(i, d) BY <2>1, <2>2, StartWrites
  <2>4. DispatchDocument(i, d) BY <2>1, <2>2 DEF DispatchDocument
  <2>5. DispatchClaims(i)
    BY <1>4, <2>1, ContractFacts DEF DispatchClaims, ClaimWriterForceFenceDispatch,
       FenceDispatchable, IntentType
  <2> QED BY <2>1, <2>2, <2>3, <2>4, <2>5 DEF Dispatches
<1>5. CASE ClaimCheckpointCaptureDispatch(i)
  <2>1. DispatchClaims(i) /\ DispatchDocument(i, session)
    BY <1>5, ContractFacts DEF ClaimCheckpointCaptureDispatch, CaptureDispatchable,
       ActiveIn, DispatchClaims, DispatchDocument
  <2> QED BY <1>5, <1>q, <2>1 DEF ClaimCheckpointCaptureDispatch, CaptureDispatchable,
    ActiveIn
<1>6. CASE ClaimRestoreDestinationGenerationDispatch(i)
  <2>1. DispatchClaims(i) /\ DispatchDocument(i, session)
    BY <1>6, ContractFacts DEF ClaimRestoreDestinationGenerationDispatch,
       GenerationDispatchable, ActiveIn, DispatchClaims, DispatchDocument, IntentType
  <2> QED BY <1>6, <1>q, <2>1 DEF ClaimRestoreDestinationGenerationDispatch,
    GenerationDispatchable, ActiveIn
<1>7. CASE ClaimWriterLaunchAttemptDispatch(i)
  <2>1. DispatchClaims(i) /\ DispatchDocument(i, session)
    BY <1>7, ContractFacts DEF ClaimWriterLaunchAttemptDispatch, LaunchDispatchable,
       ActiveIn, DispatchClaims, DispatchDocument
  <2> QED BY <1>7, <1>q, <2>1 DEF ClaimWriterLaunchAttemptDispatch, LaunchDispatchable,
    ActiveIn
<1>8. CASE ClaimWriterLaunchStopDispatch(i)
  <2>1. DispatchClaims(i) /\ DispatchDocument(i, session)
    BY <1>8, ContractFacts DEF ClaimWriterLaunchStopDispatch, StopDispatchable, ActiveIn,
       DispatchClaims, DispatchDocument, IntentType
  <2> QED BY <1>8, <1>q, <2>1 DEF ClaimWriterLaunchStopDispatch, StopDispatchable, ActiveIn
<1>9. CASE ClaimOperationDispatch(i)
  <2>1. DispatchClaims(i) /\ DispatchDocument(i, session)
    BY <1>9, ContractFacts DEF ClaimOperationDispatch, GenericDispatchable, ActiveIn,
       DispatchClaims, DispatchDocument
  <2> QED BY <1>9, <1>q, <2>1 DEF ClaimOperationDispatch, GenericDispatchable, ActiveIn
<1> QED BY <1>1, <1>2, <1>3, <1>4, <1>5, <1>6, <1>7, <1>8, <1>9 DEF Dispatch

--------------------------------------------------------------------------------
(* The settlements. *)

\* What the outcome of operation i makes of the session.
SettleDocument(i, result, d) ==
    LET kind == ops[i].request.kind IN
    \/ /\ kind \in MintingKinds /\ session.lifecycle = "ATTACHING"
       /\ d = [session EXCEPT !.lifecycle = "ATTACHED", !.attachment = AttachmentUnderLease]
       /\ result = WriterResult(IF kind = "restore-activation"
                                THEN "restore-attachment-activated" ELSE "writer-attached",
                                session.epoch, session.lease, AttachmentUnderLease, None)
    \/ /\ kind = "writer-release" /\ session.lifecycle = "RELEASING"
       /\ d = NoWriterLeft
       /\ result = WriterResult("writer-released", session.epoch, session.lease,
                                session.attachment, ops[i].request.target)
    \/ /\ kind = "writer-force-fence" /\ session.lifecycle = "FENCING"
       /\ d = NoWriterLeft /\ result = FencedResult(i)
    \/ /\ kind \in WriterKinds /\ d = BlockedSession
       /\ result = WriterResult("writer-blocked", session.epoch, session.lease,
                                session.attachment, BlockedTarget(i))
    \/ /\ kind = "checkpoint-capture" /\ d = session
       /\ result = Outcome("checkpoint-captured")
    \/ /\ kind = "restore-generation" /\ d = session
       /\ result = Outcome("restore-generation-committed")
    \/ /\ kind = "writer-launch-attempt"
       /\ \E outcome \in LaunchOutcomes :
             d = LaunchedSession(i, outcome) /\ result = Outcome(outcome)
    \/ /\ kind = "writer-launch-stop" /\ d = WriterStopped
       /\ result = Outcome("writer-launch-stopped")

\* The operation that a handoff creates.
HandoffRequest(i) ==
    LET r == ops[i].request IN
    IF r.kind = "restore-generation" THEN LaunchHandoffRequest(i)
    ELSE IF r.kind = "restore-activation" THEN LaunchHandoffRequest(r.source)
    ELSE IF r.kind = "writer-launch-stop" THEN CaptureHandoffRequest(i)
    ELSE AtomicHandoffRequest(i)

SettlesAlone(i, result, d) ==
    /\ Contract(ops[i]) \notin HandoffContracts \/ result.outcome = "writer-blocked"
    /\ Commits(i, result, d) /\ claims' = claims

SettlesOver(i, result, d) ==
    LET j == ops[i].request.intent IN
    /\ Contract(ops[i]) \in HandoffContracts /\ result.outcome # "writer-blocked"
    /\ Space(FinalizeSpace(ops[i].request))
    /\ ClaimedBy(j, IntentType(ops[i].request.kind), i, FALSE)
    /\ j # i /\ ops[j].state = "absent"
    /\ HandsOver(i, result, d, j, HandoffRequest(i))
    /\ claims' = [claims EXCEPT ![j] = [claims[j] EXCEPT !.materialized = TRUE]]

Settles(i, result, d) ==
    /\ session.active.id = i /\ ops[i].state \in Dispatched
    /\ SettleDocument(i, result, d)
    /\ SettlesAlone(i, result, d) \/ SettlesOver(i, result, d)

LEMMA SettleWrites ==
    ASSUME AuthorityInv, NEW i \in OpId, Settle(i)
    PROVE  \E d \in Snapshots : \E result : Settles(i, result, d)
<1> DEFINE Goal == \E d \in Snapshots : \E result : Settles(i, result, d)
           attached == [session EXCEPT !.lifecycle = "ATTACHED",
                                       !.attachment = AttachmentUnderLease]
<1>0. /\ TypedInv /\ session \in Snapshots /\ NoWriterLeft \in Snapshots
      /\ WriterStopped \in Snapshots /\ BlockedSession \in Snapshots
      /\ attached \in Snapshots
  BY SettledDocuments DEF AuthorityInv, TypedInv, TypedRows
<1>a. ASSUME NEW d \in Snapshots, NEW result, SettleDocument(i, result, d),
             session.active.id = i, ops[i].state \in Dispatched, Commit(i, result, d),
             claims' = claims,
             Contract(ops[i]) \notin HandoffContracts \/ result.outcome = "writer-blocked"
      PROVE  Goal
  <2>1. Commits(i, result, d) BY <1>0, <1>a, CommitWrites
  <2> QED BY <1>a, <2>1 DEF Settles, SettlesAlone
<1>b. ASSUME NEW d \in Snapshots, NEW result, SettleDocument(i, result, d),
             session.active.id = i, ops[i].state \in Dispatched,
             Contract(ops[i]) \in HandoffContracts, result.outcome # "writer-blocked",
             Space(FinalizeSpace(ops[i].request)),
             ClaimedBy(ops[i].request.intent, IntentType(ops[i].request.kind), i, FALSE),
             CommitAndReserve(i, result, d, ops[i].request.intent, HandoffRequest(i))
      PROVE  Goal
  <2> DEFINE j == ops[i].request.intent
             r == HandoffRequest(i)
  <2>1. j \in OpId /\ ~claims[j].materialized BY <1>b DEF ClaimedBy
  <2>2. ops[j].state = "absent" /\ j # i
    BY <1>b, <2>1 DEF AuthorityInv, OwnClaims, Dispatched
  <2>3. claims' = [claims EXCEPT ![j] = [claims[j] EXCEPT !.materialized = TRUE]]
    BY <1>b DEF CommitAndReserve
  <2>4. CommitAndReserve(i, result, d, j, r) BY <1>b
  <2> HIDE DEF r
  <2>5. HandsOver(i, result, d, j, r) BY <1>0, <2>1, <2>2, <2>4, HandoffWrites
  <2> QED BY <1>b, <2>2, <2>3, <2>5 DEF Settles, SettlesOver, r
<1>1. CASE FinalizeWriterAttachment(i)
  <2> DEFINE result == WriterResult("writer-attached", session.epoch, session.lease,
                                    AttachmentUnderLease, None)
  <2>1. /\ session.active.id = i /\ ops[i].state \in Dispatched /\ claims' = claims
        /\ ops[i].request.kind = "writer-attachment-acquire"
        /\ session.lifecycle = "ATTACHING" /\ Commit(i, result, attached)
    BY <1>1 DEF FinalizeWriterAttachment, ActiveIn
  <2>2. SettleDocument(i, result, attached) BY <2>1 DEF SettleDocument, MintingKinds
  <2>3. Contract(ops[i]) \notin HandoffContracts BY <1>0, <2>1, ContractFacts
  <2> HIDE DEF result, attached
  <2> QED BY <1>0, <1>a, <2>1, <2>2, <2>3
<1>2. CASE FinalizeWriterRelease(i)
  <2> DEFINE result == WriterResult("writer-released", session.epoch, session.lease,
                                    session.attachment, ops[i].request.target)
  <2>1. /\ session.active.id = i /\ ops[i].state \in Dispatched /\ claims' = claims
        /\ ops[i].request.kind = "writer-release"
        /\ session.lifecycle = "RELEASING" /\ Commit(i, result, NoWriterLeft)
    BY <1>2 DEF FinalizeWriterRelease, ActiveIn
  <2>2. SettleDocument(i, result, NoWriterLeft) BY <2>1 DEF SettleDocument
  <2>3. Contract(ops[i]) \notin HandoffContracts BY <1>0, <2>1, ContractFacts
  <2> HIDE DEF result
  <2> QED BY <1>0, <1>a, <2>1, <2>2, <2>3
<1>3. CASE FinalizeWriterForceFence(i)
  <2>1. /\ session.active.id = i /\ ops[i].state \in Dispatched /\ claims' = claims
        /\ ops[i].request.kind = "writer-force-fence" /\ ops[i].request.version = 1
        /\ session.lifecycle = "FENCING" /\ Commit(i, FencedResult(i), NoWriterLeft)
    BY <1>3 DEF FinalizeWriterForceFence, ActiveIn
  <2>2. SettleDocument(i, FencedResult(i), NoWriterLeft) BY <2>1 DEF SettleDocument
  <2>3. Contract(ops[i]) \notin HandoffContracts BY <1>0, <2>1, ContractFacts
  <2> QED BY <1>0, <1>a, <2>1, <2>2, <2>3
<1>4. CASE FinalizeWriterForceFenceAndReserveAtomicCrashCapture(i)
  <2>1. /\ session.active.id = i /\ ops[i].state \in Dispatched
        /\ ops[i].request.kind = "writer-force-fence" /\ ops[i].request.version = 2
        /\ session.lifecycle = "FENCING"
        /\ Space(FinalizeSpace(ops[i].request))
        /\ ClaimedBy(ops[i].request.intent, "fence-capture-intent", i, FALSE)
        /\ CommitAndReserve(i, FencedResult(i), NoWriterLeft, ops[i].request.intent,
                            AtomicHandoffRequest(i))
    BY <1>4 DEF FinalizeWriterForceFenceAndReserveAtomicCrashCapture, ActiveIn
  <2>2. SettleDocument(i, FencedResult(i), NoWriterLeft) BY <2>1 DEF SettleDocument
  <2>3. Contract(ops[i]) \in HandoffContracts BY <1>0, <2>1, ContractFacts
  <2>4. /\ HandoffRequest(i) = AtomicHandoffRequest(i)
        /\ IntentType(ops[i].request.kind) = "fence-capture-intent"
    BY <2>1 DEF HandoffRequest, IntentType
  <2>5. FencedResult(i).outcome # "writer-blocked" BY DEF FencedResult, WriterResult
  <2> QED BY <1>0, <1>b, <2>1, <2>2, <2>3, <2>4, <2>5
<1>5. CASE FinalizeWriterOperationBlocked(i)
  <2> DEFINE result == WriterResult("writer-blocked", session.epoch, session.lease,
                                    session.attachment, BlockedTarget(i))
  <2>1. /\ session.active.id = i /\ ops[i].state \in Dispatched /\ claims' = claims
        /\ ops[i].request.kind \in WriterKinds /\ Commit(i, result, BlockedSession)
    BY <1>5 DEF FinalizeWriterOperationBlocked, Dispatched, WriterKinds
  <2>2. SettleDocument(i, result, BlockedSession) BY <2>1 DEF SettleDocument
  <2>3. result.outcome = "writer-blocked" BY DEF WriterResult
  <2> HIDE DEF result
  <2> QED BY <1>0, <1>a, <2>1, <2>2, <2>3
<1>6. CASE FinalizeCheckpointCapture(i)
  <2> DEFINE result == Outcome("checkpoint-captured")
  <2>1. /\ session.active.id = i /\ ops[i].state \in Dispatched /\ claims' = claims
        /\ ops[i].request.kind = "checkpoint-capture" /\ Commit(i, result, session)
    BY <1>6 DEF FinalizeCheckpointCapture, ActiveIn
  <2>2. SettleDocument(i, result, session) BY <2>1 DEF SettleDocument
  <2>3. Contract(ops[i]) \notin HandoffContracts BY <1>0, <2>1, ContractFacts
  <2> HIDE DEF result
  <2> QED BY <1>0, <1>a, <2>1, <2>2, <2>3
<1>7. CASE FinalizeRestoreDestinationGeneration(i)
  <2> DEFINE result == Outcome("restore-generation-committed")
  <2>1. /\ session.active.id = i /\ ops[i].state \in Dispatched /\ claims' = claims
        /\ ops[i].request.kind = "restore-generation" /\ ops[i].request.version = 1
        /\ Commit(i, result, session)
    BY <1>7 DEF FinalizeRestoreDestinationGeneration, ActiveIn
  <2>2. SettleDocument(i, result, session) BY <2>1 DEF SettleDocument
  <2>3. Contract(ops[i]) \notin HandoffContracts BY <1>0, <2>1, ContractFacts
  <2> HIDE DEF result
  <2> QED BY <1>0, <1>a, <2>1, <2>2, <2>3
<1>8. CASE FinalizeRestoreGenerationAndReserveLaunch(i)
  <2> DEFINE result == Outcome("restore-generation-committed")
  <2>1. /\ session.active.id = i /\ ops[i].state \in Dispatched
        /\ ops[i].request.kind = "restore-generation" /\ ops[i].request.version = 2
        /\ Space(FinalizeSpace(ops[i].request))
        /\ ClaimedBy(ops[i].request.intent, "restore-launch-intent", i, FALSE)
        /\ CommitAndReserve(i, result, session, ops[i].request.intent,
                            LaunchHandoffRequest(i))
    BY <1>8 DEF FinalizeRestoreGenerationAndReserveLaunch, ActiveIn
  <2>2. SettleDocument(i, result, session) BY <2>1 DEF SettleDocument
  <2>3. Contract(ops[i]) \in HandoffContracts BY <1>0, <2>1, ContractFacts
  <2>4. /\ HandoffRequest(i) = LaunchHandoffRequest(i)
        /\ IntentType(ops[i].request.kind) = "restore-launch-intent"
    BY <2>1 DEF HandoffRequest, IntentType
  <2>5. result.outcome # "writer-blocked" BY DEF WriterResult, Outcome, NoResult
  <2> HIDE DEF result
  <2> QED BY <1>0, <1>b, <2>1, <2>2, <2>3, <2>4, <2>5
<1>9. CASE FinalizeActivationAndReserveLaunch(i)
  <2> DEFINE result == WriterResult("restore-attachment-activated", session.epoch,
                                    session.lease, AttachmentUnderLease, None)
  <2>1. /\ session.active.id = i /\ ops[i].state \in Dispatched
        /\ ops[i].request.kind = "restore-activation" /\ session.lifecycle = "ATTACHING"
        /\ Space(FinalizeSpace(ops[i].request))
        /\ ClaimedBy(ops[i].request.intent, "activation-launch-intent", i, FALSE)
        /\ CommitAndReserve(i, result, attached, ops[i].request.intent,
                            LaunchHandoffRequest(ops[i].request.source))
    BY <1>9 DEF FinalizeActivationAndReserveLaunch, ActiveIn
  <2>2. SettleDocument(i, result, attached) BY <2>1 DEF SettleDocument, MintingKinds
  <2>3. Contract(ops[i]) \in HandoffContracts BY <1>0, <2>1, ContractFacts
  <2>4. /\ HandoffRequest(i) = LaunchHandoffRequest(ops[i].request.source)
        /\ IntentType(ops[i].request.kind) = "activation-launch-intent"
    BY <2>1 DEF HandoffRequest, IntentType
  <2>5. result.outcome # "writer-blocked" BY DEF WriterResult, Outcome, NoResult
  <2> HIDE DEF result, attached
  <2> QED BY <1>0, <1>b, <2>1, <2>2, <2>3, <2>4, <2>5
<1>10. ASSUME NEW outcome \in LaunchOutcomes, FinalizeWriterLaunchAttempt(i, outcome)
       PROVE  Goal
  <2> DEFINE d == LaunchedSession(i, outcome)
             result == Outcome(outcome)
  <2>1. /\ session.active.id = i /\ ops[i].state \in Dispatched /\ claims' = claims
        /\ ops[i].request.kind = "writer-launch-attempt" /\ Commit(i, result, d)
    BY <1>10 DEF FinalizeWriterLaunchAttempt, ActiveIn
  <2>2. d \in Snapshots BY <1>0, LaunchedLeases
  <2>3. SettleDocument(i, result, d) BY <2>1 DEF SettleDocument
  <2>4. Contract(ops[i]) \notin HandoffContracts BY <1>0, <2>1, ContractFacts
  <2> HIDE DEF d, result
  <2> QED BY <1>a, <2>1, <2>2, <2>3, <2>4
<1>11. CASE FinalizeWriterLaunchStop(i)
  <2> DEFINE result == Outcome("writer-launch-stopped")
  <2>1. /\ session.active.id = i /\ ops[i].state \in Dispatched /\ claims' = claims
        /\ ops[i].request.kind = "writer-launch-stop" /\ ops[i].request.version # 3
        /\ Commit(i, result, WriterStopped)
    BY <1>11 DEF FinalizeWriterLaunchStop, ActiveIn
  <2>2. SettleDocument(i, result, WriterStopped) BY <2>1 DEF SettleDocument
  <2>3. Contract(ops[i]) \notin HandoffContracts BY <1>0, <2>1, ContractFacts
  <2> HIDE DEF result
  <2> QED BY <1>0, <1>a, <2>1, <2>2, <2>3
<1>12. CASE FinalizeWriterLaunchStopAndReserveCapture(i)
  <2> DEFINE result == Outcome("writer-launch-stopped")
  <2>1. /\ session.active.id = i /\ ops[i].state \in Dispatched
        /\ ops[i].request.kind = "writer-launch-stop" /\ ops[i].request.version = 3
        /\ Space(FinalizeSpace(ops[i].request))
        /\ ClaimedBy(ops[i].request.intent, "stop-capture-intent", i, FALSE)
        /\ CommitAndReserve(i, result, WriterStopped, ops[i].request.intent,
                            CaptureHandoffRequest(i))
    BY <1>12 DEF FinalizeWriterLaunchStopAndReserveCapture, ActiveIn
  <2>2. SettleDocument(i, result, WriterStopped) BY <2>1 DEF SettleDocument
  <2>3. Contract(ops[i]) \in HandoffContracts BY <1>0, <2>1, ContractFacts
  <2>4. /\ HandoffRequest(i) = CaptureHandoffRequest(i)
        /\ IntentType(ops[i].request.kind) = "stop-capture-intent"
    BY <2>1 DEF HandoffRequest, IntentType
  <2>5. result.outcome # "writer-blocked" BY DEF WriterResult, Outcome, NoResult
  <2> HIDE DEF result
  <2> QED BY <1>0, <1>b, <2>1, <2>2, <2>3, <2>4, <2>5
<1> QED BY <1>1, <1>2, <1>3, <1>4, <1>5, <1>6, <1>7, <1>8, <1>9, <1>10, <1>11, <1>12 DEF
  Settle

--------------------------------------------------------------------------------
(* What a method knows of the session it has read. *)

LEMMA ReadableActive ==
    ASSUME SessionReadable, NEW i \in OpId, session.active.id = i
    PROVE  /\ ops[i].state \in ActivePhases
           /\ session.active.kind = ops[i].request.kind
           /\ session.active.state = ops[i].state
           /\ ActiveBusiness(session, i, ops[i])
           /\ Relations(i)
           /\ ops[i].request.kind = "writer-force-fence" =>
                FenceTargetSource(ops[i].request, ops[i].expected)
<1>1. session.active # NoPointer BY NoneAssumption DEF NoPointer
<1>2. /\ ActivePointerRule(session, i, ops[i]) /\ Relations(i)
      /\ ops[i].request.kind = "writer-force-fence" =>
           FenceTargetSource(ops[i].request, ops[i].expected)
  BY <1>1 DEF SessionReadable, ActiveRelations
<1> QED BY <1>2 DEF ActivePointerRule

LEMMA ReadableLast ==
    ASSUME SessionReadable, session.last # NoPointer
    PROVE  /\ LastPointerRule(SettledSession, session.last.id, ops[session.last.id])
           /\ ops[session.last.id].state = "committed"
BY DEF SessionReadable, TerminalRelations, LastPointerRule

LEMMA ReadableDocument ==
    ASSUME SessionReadable
    PROVE  /\ session.lifecycle = "DETACHED" => NoWriter(session)
           /\ session.lifecycle = "ATTACHING" =>
                /\ session.launch = NoLaunch /\ session.attachment = NoAttachment
                /\ session.active.kind \in MintingKinds
                /\ session.active.state \in Dispatched
           /\ session.lifecycle = "ATTACHED" =>
                /\ HasWriter(session) /\ session.attachment.id = session.lease.id
           /\ session.lifecycle = "RELEASING" =>
                /\ session.launch = NoLaunch
                /\ session.active.kind = "writer-release"
                /\ session.active.state \in Dispatched
           /\ session.lifecycle = "FENCING" =>
                /\ session.active.kind = "writer-force-fence"
                /\ session.active.state \in Dispatched
           /\ session.lifecycle = "BLOCKED" =>
                /\ session.attachment # NoAttachment =>
                     session.attachment.id = session.lease.id
                /\ session.last # NoPointer
                /\ \/ session.active = NoPointer
                   \/ /\ session.active.kind = "writer-force-fence"
                      /\ session.active.state = "prepared"
<1>1. LifecycleRule(session) BY DEF SessionReadable, CanonicalDocument
<1> USE DEF LifecycleRule, DispatchedAs, Dispatched, MintingKinds, LeaseBindsAttachment
<1>2. CASE session.lifecycle = "DETACHED" BY <1>1, <1>2
<1>3. CASE session.lifecycle = "ATTACHING" BY <1>1, <1>3
<1>4. CASE session.lifecycle = "ATTACHED" BY <1>1, <1>4
<1>5. CASE session.lifecycle = "RELEASING" BY <1>1, <1>5
<1>6. CASE session.lifecycle = "FENCING" BY <1>1, <1>6
<1>7. CASE session.lifecycle = "BLOCKED" BY <1>1, <1>7
<1> QED BY <1>2, <1>3, <1>4, <1>5, <1>6, <1>7

\* The writer of the documents that settlements write.
LEMMA DocumentFields ==
    ASSUME session \in Snapshots
    PROVE  /\ LET d == [session EXCEPT !.lifecycle = "ATTACHED",
                                       !.attachment = AttachmentUnderLease] IN
              /\ d.lifecycle = "ATTACHED" /\ d.attachment = AttachmentUnderLease
              /\ d.launch = session.launch /\ d.lease = session.lease
           /\ BlockedSession.lifecycle = "BLOCKED"
           /\ BlockedSession.attachment = session.attachment
           /\ BlockedSession.launch = session.launch
           /\ BlockedSession.lease = session.lease
           /\ NoWriterLeft.lifecycle = "DETACHED"
           /\ NoWriterLeft.attachment = NoAttachment /\ NoWriterLeft.launch = NoLaunch
           /\ NoWriterLeft.lease = NoLease
           /\ WriterStopped.lifecycle = session.lifecycle
           /\ WriterStopped.attachment = session.attachment
           /\ WriterStopped.launch = NoLaunch /\ WriterStopped.lease = session.lease
           /\ \A i, outcome :
                /\ LaunchedSession(i, outcome).lifecycle = session.lifecycle
                /\ LaunchedSession(i, outcome).attachment = session.attachment
                /\ LaunchedSession(i, outcome).lease = session.lease
                /\ LaunchedSession(i, outcome).launch =
                     IF outcome = "writer-launch-started" THEN LaunchPointer(i, ops[i])
                     ELSE session.launch
<1> USE DEF Snapshots
<1>1. \A p : /\ [session EXCEPT !.launch = p].lifecycle = session.lifecycle
             /\ [session EXCEPT !.launch = p].attachment = session.attachment
             /\ [session EXCEPT !.launch = p].lease = session.lease
             /\ [session EXCEPT !.launch = p].launch = p
  OBVIOUS
<1>2. \A a : LET d == [session EXCEPT !.lifecycle = "ATTACHED", !.attachment = a] IN
              /\ d.lifecycle = "ATTACHED" /\ d.attachment = a
              /\ d.launch = session.launch /\ d.lease = session.lease
  OBVIOUS
<1> QED BY <1>1, <1>2 DEF BlockedSession, NoWriterLeft, WriterStopped, LaunchedSession

--------------------------------------------------------------------------------
(* The target of a fence. *)

\* The kind of a request says which validator accepted it.
LEMMA RequestKinds ==
    ASSUME NEW i \in OpId, NEW r \in RequestsOf(i)
    PROVE  /\ r.kind = "writer-release" => r \in ReleaseRequests
           /\ r.kind = "writer-force-fence" => r \in FenceRequests(i)
<1>1. r \in AcquireRequests => r.kind = "writer-attachment-acquire"
  BY DEF AcquireRequests, NoRequest
<1>2. r \in ReleaseRequests => r.kind = "writer-release" BY DEF ReleaseRequests, NoRequest
<1>3. r \in FenceRequests(i) => r.kind = "writer-force-fence" BY DEF FenceRequests
<1>4. r \in CaptureRequests => r.kind = "checkpoint-capture" BY DEF CaptureRequests
<1>5. r \in GenerationRequests(i) => r.kind = "restore-generation" BY DEF GenerationRequests
<1>6. r \in ActivationRequests(i) => r.kind = "restore-activation" BY DEF ActivationRequests
<1>7. r \in LaunchRequests => r.kind = "writer-launch-attempt" BY DEF LaunchRequests
<1>8. r \in StopRequests(i) => r.kind = "writer-launch-stop" BY DEF StopRequests
<1>9. r = NoRequest => r.kind = "generic" BY DEF NoRequest
<1> QED BY <1>1, <1>2, <1>3, <1>4, <1>5, <1>6, <1>7, <1>8, <1>9 DEF RequestsOf

LEMMA ReserveAnchored ==
    ASSUME AuthorityInv, Anchored, SessionReadable, NEW i \in OpId,
           NEW r \in RequestsOf(i), ReserveOperation(i, r)
    PROVE  Anchored'
<1>1. TypedInv /\ Reserves(i, r) BY ReserveWrites DEF AuthorityInv
<1>2. /\ ops[i].state = "absent" /\ session.active = NoPointer
      /\ session'.lifecycle = session.lifecycle /\ session'.lease = session.lease
      /\ session'.last = session.last /\ session'.active.id = i
      /\ ops'[i].request = r /\ \A k \in OpId \ {i} : ops'[k] = ops[k]
  BY <1>1 DEF Reserves, Inserts, Shows, PreparedRow
<1>3. session.lifecycle # "FENCING" BY <1>2, ReadableDocument DEF NoPointer
<1>4. ASSUME r.kind = "writer-release" PROVE r.target = session.lease.id
  <2>1. r \in ReleaseRequests BY <1>4, RequestKinds
  <2>2. r.target = session.attachment.id /\ Attached BY <2>1 DEF ReleaseRequests, NoRequest
  <2> QED BY <2>2, ReadableDocument DEF Attached
<1>5. ASSUME r.kind = "writer-force-fence" PROVE r.target = session.lease.id
  <2>1. r \in FenceRequests(i) BY <1>5, RequestKinds
  <2>2. r.target \in FenceTargets /\ session.lifecycle \in {"ATTACHED", "BLOCKED"}
    BY <2>1 DEF FenceRequests, Attached
  <2>3. CASE session.attachment # NoAttachment
    BY <2>2, <2>3, ReadableDocument DEF FenceTargets
  <2>4. CASE session.attachment = NoAttachment
    <3>1. FenceTargetSource(r, session) BY <1>5 DEF ReserveOperation
    <3> QED BY <2>4, <3>1 DEF FenceTargetSource, Anchored
  <2> QED BY <2>3, <2>4
<1>6. session'.lifecycle = "BLOCKED" => session.last.id # i BY <1>2 DEF Anchored
<1> QED BY <1>2, <1>3, <1>4, <1>5, <1>6 DEF Anchored

LEMMA RenewAnchored ==
    ASSUME AuthorityInv, NEW i \in OpId, RenewWriterLease(i)
    PROVE  Anchored'
<1>1. Renews(i) BY RenewWrites DEF AuthorityInv
<1>2. session'.lifecycle = "ATTACHED" /\ session'.active.id = None
  BY <1>1 DEF Renews, Attached
<1> QED BY <1>2, NoneAssumption DEF Anchored

LEMMA DispatchAnchored ==
    ASSUME AuthorityInv, Anchored, SessionReadable, NEW i \in OpId, Dispatch(i)
    PROVE  Anchored'
<1>1. PICK d \in Snapshots : Dispatches(i, d) BY DispatchWrites DEF AuthorityInv
<1>2. /\ session.active.id = i /\ ops[i].state = "prepared"
      /\ session'.lifecycle = d.lifecycle /\ session'.lease = d.lease
      /\ session'.last = session.last /\ session'.active.id = i
      /\ ops'[i].request = ops[i].request /\ \A k \in OpId \ {i} : ops'[k] = ops[k]
      /\ DispatchDocument(i, d)
  BY <1>1 DEF Dispatches, Starts, Shows, SameOperation
<1>3. CASE d.lifecycle = "ATTACHING"
  BY <1>2, <1>3 DEF Anchored, DispatchDocument, MintingKinds
<1>4. CASE d.lifecycle = "FENCING" /\ ops[i].request.kind = "writer-force-fence"
  BY <1>2, <1>4 DEF Anchored, DispatchDocument, MintingKinds
<1>5. CASE d.lifecycle = "RELEASING" /\ ops[i].request.kind = "writer-release"
  BY <1>2, <1>5 DEF Anchored, DispatchDocument, MintingKinds
<1>6. CASE d = session
  <2>1. session.lifecycle = "BLOCKED" => session.last.id # i BY <1>2 DEF Anchored
  <2> QED BY <1>2, <1>6, <2>1 DEF Anchored
<1> QED BY <1>2, <1>3, <1>4, <1>5, <1>6 DEF DispatchDocument

LEMMA UncertainAnchored ==
    ASSUME AuthorityInv, Anchored, NEW i \in OpId, MarkOperationUncertain(i)
    PROVE  Anchored'
<1>1. Doubts(i) BY UncertainWrites DEF AuthorityInv
<1>2. /\ session.active.id = i /\ ops[i].state = "starting"
      /\ session'.lifecycle = session.lifecycle /\ session'.lease = session.lease
      /\ session'.last = session.last /\ session'.active.id = i
      /\ ops'[i].request = ops[i].request /\ \A k \in OpId \ {i} : ops'[k] = ops[k]
  BY <1>1 DEF Doubts, Shows, SameOperation
<1>3. session.lifecycle = "BLOCKED" => session.last.id # i BY <1>2 DEF Anchored
<1> QED BY <1>2, <1>3 DEF Anchored

\* A session that is settled on a document that is neither blocked nor fencing
\* has nothing to anchor.
LEMMA SettleAnchored ==
    ASSUME AuthorityInv, Anchored, SessionReadable, NEW i \in OpId, Settle(i)
    PROVE  Anchored'
<1>0. TypedInv /\ session \in Snapshots BY DEF AuthorityInv, TypedInv, TypedRows
<1>1. PICK d \in Snapshots : \E result : Settles(i, result, d) BY SettleWrites
<1>2. PICK result : Settles(i, result, d) BY <1>1
<1>3. /\ session.active.id = i /\ ops[i].state \in Dispatched
      /\ SettleDocument(i, result, d)
      /\ session'.lifecycle = d.lifecycle /\ session'.lease = d.lease
      /\ session'.last.id = i /\ ops'[i].state = "committed" /\ ops'[i].result = result
  BY <1>2 DEF Settles, SettlesAlone, SettlesOver, Commits, HandsOver, Shows
<1>4. \A k \in OpId : session'.active.id = k =>
         ops'[k].request.kind \notin {"writer-release", "writer-force-fence"}
  <2>1. CASE SettlesAlone(i, result, d) BY <2>1, NoneAssumption DEF SettlesAlone, Commits
  <2>2. CASE SettlesOver(i, result, d)
    <3>1. /\ session'.active.id = ops[i].request.intent
          /\ ops'[ops[i].request.intent].request = HandoffRequest(i)
      BY <2>2 DEF SettlesOver, HandsOver
    <3>2. HandoffRequest(i).kind \in
            {"writer-launch-attempt", "checkpoint-capture", "atomic-crash-capture"}
      BY DEF HandoffRequest, LaunchHandoffRequest, CaptureHandoffRequest,
         AtomicHandoffRequest, NoRequest
    <3> QED BY <3>1, <3>2
  <2> QED BY <1>2, <2>1, <2>2 DEF Settles
<1>5. /\ session.active.kind = ops[i].request.kind /\ session.active.state = ops[i].state
      /\ ActiveBusiness(session, i, ops[i])
  BY <1>3, ReadableActive
<1>6. CASE ops[i].request.kind \in WriterKinds /\ result.outcome = "writer-blocked"
  <2>1. d = BlockedSession /\ result.target = BlockedTarget(i)
    BY <1>3, <1>6 DEF SettleDocument, WriterResult, Outcome, NoResult, FencedResult,
       WriterKinds, MintingKinds
  <2>2. BlockedTarget(i) = session.lease.id
    <3>1. CASE ops[i].request.kind = "writer-attachment-acquire"
      BY <1>3, <1>5, <3>1 DEF BlockedTarget, ActiveBusiness, MintedBy, Dispatched,
         WriterKinds
    <3>2. CASE ops[i].request.kind \in {"writer-release", "writer-force-fence"}
      BY <1>3, <3>2 DEF BlockedTarget, Anchored
    <3> QED BY <1>6, <3>1, <3>2 DEF WriterKinds
  <2>3. d.lease = session.lease /\ d.lifecycle = "BLOCKED" BY <1>0, <2>1, DocumentFields
  <2> QED BY <1>3, <1>4, <2>1, <2>2, <2>3 DEF Anchored
<1>7. CASE ~(ops[i].request.kind \in WriterKinds /\ result.outcome = "writer-blocked")
  <2>1. d.lifecycle \notin {"BLOCKED", "FENCING"}
    <3>1. CASE d = NoWriterLeft BY <1>0, <3>1, DocumentFields
    <3>2. CASE d = [session EXCEPT !.lifecycle = "ATTACHED",
                                   !.attachment = AttachmentUnderLease]
      BY <1>0, <3>2, DocumentFields
    <3>3. CASE d.lifecycle = session.lifecycle /\ ops[i].request.kind # "writer-force-fence"
      BY <1>3, <1>5, <3>3, ReadableDocument, NoneAssumption DEF NoPointer
    <3>4. CASE d \in {session, WriterStopped} /\ ops[i].request.kind # "writer-force-fence"
      BY <1>0, <3>3, <3>4, DocumentFields
    <3>5. ASSUME NEW outcome, d = LaunchedSession(i, outcome),
                 ops[i].request.kind # "writer-force-fence"
          PROVE  d.lifecycle \notin {"BLOCKED", "FENCING"}
      BY <1>0, <3>3, <3>5, DocumentFields
    <3>6. result = WriterResult("writer-blocked", session.epoch, session.lease,
                                session.attachment, BlockedTarget(i))
            => result.outcome = "writer-blocked"
      BY DEF WriterResult
    <3> QED BY <1>3, <1>7, <3>1, <3>2, <3>4, <3>5, <3>6 DEF SettleDocument
  <2> QED BY <1>3, <1>4, <2>1 DEF Anchored
<1> QED BY <1>6, <1>7

LEMMA CancelAnchored ==
    ASSUME AuthorityInv, Anchored, SessionReadable, NEW i \in OpId,
           CancelPreparedOperation(i)
    PROVE  Anchored'
<1>1. Cancellable(i) /\ Commits(i, Outcome("cancelled-before-dispatch"), session)
  BY CancelWrites DEF AuthorityInv
<1>2. /\ session.active.id = i /\ ops[i].state = "prepared"
      /\ ops[i].expected.lifecycle # "BLOCKED"
      /\ session'.lifecycle = session.lifecycle /\ session'.active.id = None
  BY <1>1 DEF Cancellable, Commits, Shows
<1>3. session.active.state = "prepared" /\ ActiveBusiness(session, i, ops[i])
  BY <1>2, ReadableActive
<1>4. Business(session) = Business(ops[i].expected) BY <1>2, <1>3 DEF ActiveBusiness
<1>5. session.lifecycle # "BLOCKED" BY <1>2, <1>4 DEF Business
<1>6. session.lifecycle # "FENCING" BY <1>3, ReadableDocument DEF Dispatched
<1> QED BY <1>2, <1>5, <1>6, NoneAssumption DEF Anchored

--------------------------------------------------------------------------------
(* The writer process. *)

\* The launch k was stopped, or its writer fenced.
Ended(k) ==
    \E m \in OpId : /\ ops[m].expected.launch.id = k
                    /\ \/ Committed(m, "writer-launch-stopped")
                       \/ Committed(m, "writer-fenced")

LEMMA MayRunFacts ==
    ASSUME NEW k \in OpId
    PROVE  MayRun(k) <=>
             /\ ops[k].request.kind = "writer-launch-attempt"
             /\ \/ ops[k].state \in Dispatched
                \/ Committed(k, "writer-launch-started") /\ ~Ended(k)
BY DEF MayRun, Ended

\* Rows that were not committed before a step are the only ones it changes, so
\* what has ended stays so.
LEMMA StillRuns ==
    ASSUME NEW S \in SUBSET OpId, \A k \in OpId \ S : ops'[k] = ops[k],
           \A k \in S : ops[k].state # "committed",
           NEW k \in OpId \ S, MayRun(k)'
    PROVE  MayRun(k)
<1>1. ASSUME Ended(k) PROVE Ended(k)'
  <2>1. PICK m \in OpId : /\ ops[m].expected.launch.id = k
                          /\ \/ Committed(m, "writer-launch-stopped")
                             \/ Committed(m, "writer-fenced")
    BY <1>1 DEF Ended
  <2>2. ops'[m] = ops[m] BY <2>1 DEF Committed
  <2> QED BY <2>1, <2>2 DEF Ended, Committed
<1>2. ops'[k] = ops[k]
  OBVIOUS
<1>3. MayRun(k)' <=>
        /\ ops'[k].request.kind = "writer-launch-attempt"
        /\ \/ ops'[k].state \in Dispatched
           \/ Committed(k, "writer-launch-started")' /\ ~Ended(k)'
  BY DEF MayRun, Ended
<1> QED BY <1>1, <1>2, <1>3, MayRunFacts DEF Committed

\* A launch that may run and is not active is the one that is recorded.
LEMMA RecordedLaunch ==
    ASSUME RunningWriterTracked, NEW k \in OpId, MayRun(k), session.active.id # k
    PROVE  /\ session.attachment = ops[k].expected.attachment
           /\ session.launch.id = k /\ session.launch # NoLaunch
<1>1. session.attachment = ops[k].expected.attachment /\ session.launch.id = k
  BY DEF RunningWriterTracked, Active
<1> QED BY <1>1, NoneAssumption DEF NoLaunch

LEMMA InsertTracked ==
    ASSUME RunningWriterTracked, NEW i \in OpId, NEW o, Inserts(i, o),
           o.state = "prepared" \/ o.request.kind # "writer-launch-attempt",
           session'.attachment = session.attachment, session'.launch = session.launch,
           session'.active.id \in {i, None}
    PROVE  RunningWriterTracked'
<1>1. /\ ops[i].state = "absent" /\ ops'[i] = o /\ session.active = NoPointer
      /\ \A k \in OpId \ {i} : ops'[k] = ops[k]
  BY DEF Inserts
<1>2. ~MayRun(i)' BY <1>1 DEF MayRun, Dispatched, Committed
<1>3. ASSUME NEW k \in OpId \ {i}, MayRun(k)'
      PROVE  /\ session'.attachment = ops'[k].expected.attachment
             /\ session'.active.id # k /\ session'.launch.id = k
  <2>1. MayRun(k)
    <3> DEFINE S == {i}
    <3>1. /\ S \in SUBSET OpId /\ k \in OpId \ S /\ \A m \in OpId \ S : ops'[m] = ops[m]
          /\ \A m \in S : ops[m].state # "committed"
      BY <1>1
    <3> HIDE DEF S
    <3> QED BY <1>3, <3>1, StillRuns
  <2>2. session.active.id # k BY <1>1, NoneAssumption DEF NoPointer
  <2> QED BY <1>1, <2>1, <2>2, RecordedLaunch, NoneAssumption
<1> QED BY <1>2, <1>3 DEF RunningWriterTracked, Active

LEMMA ReserveTracked ==
    ASSUME AuthorityInv, RunningWriterTracked, NEW i \in OpId, NEW r,
           ReserveOperation(i, r)
    PROVE  RunningWriterTracked'
<1> DEFINE o == PreparedRow(r, session)
<1>1. Reserves(i, r) BY ReserveWrites DEF AuthorityInv
<1>2. /\ Inserts(i, o) /\ session'.attachment = session.attachment
      /\ session'.launch = session.launch /\ session'.active.id = i
  BY <1>1 DEF Reserves, Shows
<1>3. o.state = "prepared" BY DEF PreparedRow
<1> HIDE DEF o
<1> QED BY <1>2, <1>3, InsertTracked

LEMMA RenewTracked ==
    ASSUME AuthorityInv, RunningWriterTracked, NEW i \in OpId, RenewWriterLease(i)
    PROVE  RunningWriterTracked'
<1> DEFINE o == RenewalRow(i)
<1>1. Renews(i) BY RenewWrites DEF AuthorityInv
<1>2. /\ Inserts(i, o) /\ session'.attachment = session.attachment
      /\ session'.launch = session.launch /\ session'.active.id = None
  BY <1>1 DEF Renews
<1>3. o.request.kind = "writer-lease-renew" BY DEF RenewalRow, PreparedRow, NoRequest
<1> HIDE DEF o
<1> QED BY <1>2, <1>3, InsertTracked

LEMMA DispatchTracked ==
    ASSUME AuthorityInv, RunningWriterTracked, NEW i \in OpId, Dispatch(i)
    PROVE  RunningWriterTracked'
<1>1. PICK d \in Snapshots : Dispatches(i, d) BY DispatchWrites DEF AuthorityInv
<1>2. /\ session.active.id = i /\ ops[i].state = "prepared" /\ session'.active.id = i
      /\ session'.attachment = session.attachment /\ session'.launch = session.launch
      /\ SameOperation(i) /\ \A k \in OpId \ {i} : ops'[k] = ops[k]
      /\ DispatchDocument(i, d)
  BY <1>1 DEF Dispatches, Starts, Shows
<1>3. ASSUME MayRun(i)'
      PROVE  session.attachment = ops[i].expected.attachment /\ session.launch = NoLaunch
  <2>1. ops[i].request.kind = "writer-launch-attempt"
    BY <1>2, <1>3 DEF MayRun, SameOperation
  <2> QED BY <1>2, <2>1 DEF DispatchDocument, MintingKinds
<1>4. ASSUME NEW k \in OpId \ {i}, MayRun(k)'
      PROVE  session'.attachment = ops'[k].expected.attachment /\ session'.launch.id = k
  <2> DEFINE S == {i}
  <2>1. /\ S \in SUBSET OpId /\ k \in OpId \ S /\ \A m \in OpId \ S : ops'[m] = ops[m]
        /\ \A m \in S : ops[m].state # "committed"
    BY <1>2
  <2> HIDE DEF S
  <2>2. MayRun(k) BY <1>4, <2>1, StillRuns
  <2> QED BY <1>2, <2>2, RecordedLaunch
<1> QED BY <1>2, <1>3, <1>4 DEF RunningWriterTracked, Active, SameOperation

LEMMA UncertainTracked ==
    ASSUME AuthorityInv, RunningWriterTracked, NEW i \in OpId, MarkOperationUncertain(i)
    PROVE  RunningWriterTracked'
<1>1. Doubts(i) BY UncertainWrites DEF AuthorityInv
<1>2. /\ session.active.id = i /\ ops[i].state = "starting" /\ session'.active.id = i
      /\ session'.attachment = session.attachment /\ session'.launch = session.launch
      /\ SameOperation(i) /\ \A k \in OpId \ {i} : ops'[k] = ops[k]
  BY <1>1 DEF Doubts, Shows
<1>3. ASSUME MayRun(i)'
      PROVE  session.attachment = ops[i].expected.attachment /\ session.launch = NoLaunch
  <2>1. MayRun(i) BY <1>2, <1>3 DEF MayRun, SameOperation, Dispatched
  <2> QED BY <1>2, <2>1 DEF RunningWriterTracked, Active
<1>4. ASSUME NEW k \in OpId \ {i}, MayRun(k)'
      PROVE  session'.attachment = ops'[k].expected.attachment /\ session'.launch.id = k
  <2> DEFINE S == {i}
  <2>1. /\ S \in SUBSET OpId /\ k \in OpId \ S /\ \A m \in OpId \ S : ops'[m] = ops[m]
        /\ \A m \in S : ops[m].state # "committed"
    BY <1>2
  <2> HIDE DEF S
  <2>2. MayRun(k) BY <1>4, <2>1, StillRuns
  <2> QED BY <1>2, <2>2, RecordedLaunch
<1> QED BY <1>2, <1>3, <1>4 DEF RunningWriterTracked, Active, SameOperation

\* Whoever else may run after a settlement was recorded before it.
LEMMA OthersRun ==
    ASSUME AuthorityInv, RunningWriterTracked, NEW i \in OpId, NEW d, NEW result,
           Settles(i, result, d), NEW k \in OpId \ {i}, MayRun(k)'
    PROVE  /\ MayRun(k) /\ ops'[k] = ops[k] /\ session'.active.id # k
           /\ session.attachment = ops[k].expected.attachment
           /\ session.launch.id = k /\ session.launch # NoLaunch
<1>1. session.active.id = i /\ ops[i].state # "committed" BY DEF Settles, Dispatched
<1>2. /\ MayRun(k) /\ ops'[k] = ops[k] /\ session'.active.id # k
  <2>1. CASE SettlesAlone(i, result, d)
    <3> DEFINE S == {i}
    <3>1. /\ S \in SUBSET OpId /\ k \in OpId \ S /\ \A m \in OpId \ S : ops'[m] = ops[m]
          /\ \A m \in S : ops[m].state # "committed"
          /\ session'.active.id = None
      BY <1>1, <2>1 DEF SettlesAlone, Commits
    <3> HIDE DEF S
    <3> QED BY <3>1, StillRuns, NoneAssumption
  <2>2. CASE SettlesOver(i, result, d)
    <3> DEFINE j == ops[i].request.intent
               S == {i, j}
    <3>1. /\ j \in OpId /\ ops[j].state = "absent" /\ session'.active.id = j
          /\ ops'[j].state = "prepared" /\ \A m \in OpId \ {i, j} : ops'[m] = ops[m]
      BY <2>2 DEF SettlesOver, HandsOver, ClaimedBy
    <3>2. k # j BY <3>1 DEF MayRun, Dispatched, Committed
    <3>3. /\ S \in SUBSET OpId /\ k \in OpId \ S /\ \A m \in OpId \ S : ops'[m] = ops[m]
          /\ \A m \in S : ops[m].state # "committed"
      BY <1>1, <3>1, <3>2
    <3> HIDE DEF S, j
    <3> QED BY <3>1, <3>2, <3>3, StillRuns
  <2> QED BY <2>1, <2>2 DEF Settles
<1> QED BY <1>1, <1>2, RecordedLaunch

LEMMA SettleTracked ==
    ASSUME AuthorityInv, RunningWriterTracked, SessionReadable, NEW i \in OpId, Settle(i)
    PROVE  RunningWriterTracked'
<1>0. TypedInv /\ session \in Snapshots BY DEF AuthorityInv, TypedInv, TypedRows
<1>1. PICK d \in Snapshots : \E result : Settles(i, result, d) BY SettleWrites
<1>2. PICK result : Settles(i, result, d) BY <1>1
<1>3. /\ session.active.id = i /\ ops[i].state \in Dispatched
      /\ SettleDocument(i, result, d)
      /\ session'.attachment = d.attachment /\ session'.launch = d.launch
      /\ session'.active.id # i /\ SameOperation(i)
      /\ ops'[i].state = "committed" /\ ops'[i].result = result
  BY <1>2, NoneAssumption DEF Settles, SettlesAlone, SettlesOver, Commits, HandsOver, Shows
<1>4. ActiveBusiness(session, i, ops[i]) /\ Relations(i) BY <1>3, ReadableActive
<1>5. ASSUME ops[i].request.kind = "writer-launch-attempt"
      PROVE  session.attachment = ops[i].expected.attachment /\ session.launch = NoLaunch
  <2>1. MayRun(i) BY <1>3, <1>5 DEF MayRun
  <2> QED BY <1>3, <2>1 DEF RunningWriterTracked, Active
<1>6. ASSUME MayRun(i)'
      PROVE  /\ session'.attachment = ops'[i].expected.attachment
             /\ session'.launch.id = i
  <2>1. /\ ops[i].request.kind = "writer-launch-attempt"
        /\ result.outcome = "writer-launch-started"
    BY <1>3, <1>6 DEF MayRun, SameOperation, Committed, Dispatched
  <2>2. PICK outcome : d = LaunchedSession(i, outcome) /\ result = Outcome(outcome)
    BY <1>3, <2>1 DEF SettleDocument, MintingKinds, WriterKinds
  <2>3. outcome = "writer-launch-started" BY <2>1, <2>2 DEF Outcome, NoResult
  <2>4. d.launch = LaunchPointer(i, ops[i]) /\ d.attachment = session.attachment
    BY <1>0, <2>2, <2>3, DocumentFields
  <2> QED BY <1>3, <1>5, <2>1, <2>4 DEF LaunchPointer, SameOperation
<1>7. ASSUME NEW k \in OpId \ {i}, MayRun(k)'
      PROVE  /\ session'.attachment = ops'[k].expected.attachment
             /\ session'.active.id # k /\ session'.launch.id = k
  <2>1. /\ ops'[k] = ops[k] /\ session'.active.id # k
        /\ session.attachment = ops[k].expected.attachment
        /\ session.launch.id = k /\ session.launch # NoLaunch
    BY <1>2, <1>7, OthersRun
  <2>e. ASSUME ops[i].expected.launch = session.launch,
               result.outcome \in {"writer-launch-stopped", "writer-fenced"}
        PROVE  FALSE
    <3>1. ops'[i].expected.launch.id = k BY <1>3, <2>1, <2>e DEF SameOperation
    <3>2. Committed(i, "writer-launch-stopped")' \/ Committed(i, "writer-fenced")'
      BY <1>3, <2>e DEF Committed
    <3>3. ~(ops'[k].state \in Dispatched) => ~MayRun(k)' BY <3>1, <3>2 DEF MayRun
    <3>4. session.active.id = k
      BY <1>7, <2>1, <3>3 DEF AuthorityInv, OneActive, Dispatched, ActivePhases
    <3> QED BY <1>3, <3>4
  <2>2. CASE ops[i].request.kind \in MintingKinds /\ d # BlockedSession
    <3>1. session.lifecycle = "ATTACHING" BY <1>3, <2>2 DEF SettleDocument, MintingKinds
    <3> QED BY <2>1, <3>1, ReadableDocument
  <2>3. CASE ops[i].request.kind = "writer-release" /\ d # BlockedSession
    <3>1. session.lifecycle = "RELEASING" BY <1>3, <2>3 DEF SettleDocument, MintingKinds
    <3> QED BY <2>1, <3>1, ReadableDocument
  <2>4. CASE ops[i].request.kind = "writer-force-fence" /\ d # BlockedSession
    <3>1. result = FencedResult(i) BY <1>3, <2>4 DEF SettleDocument, MintingKinds
    <3>2. result.outcome = "writer-fenced" BY <3>1 DEF FencedResult, WriterResult
    <3>3. ops[i].expected.launch = session.launch
      BY <1>3, <1>4, <2>4 DEF ActiveBusiness, Dispatched, WriterKinds
    <3> QED BY <2>e, <3>2, <3>3
  <2>5. CASE d = BlockedSession BY <1>0, <1>3, <2>1, <2>5, DocumentFields
  <2>6. CASE ops[i].request.kind \in {"checkpoint-capture", "restore-generation"}
    <3>1. d = session BY <1>3, <2>6 DEF SettleDocument, MintingKinds, WriterKinds
    <3> QED BY <1>3, <2>1, <3>1
  <2>7. CASE ops[i].request.kind = "writer-launch-attempt" BY <1>5, <2>1, <2>7
  <2>8. CASE ops[i].request.kind = "writer-launch-stop"
    <3>1. result = Outcome("writer-launch-stopped")
      BY <1>3, <2>8 DEF SettleDocument, MintingKinds, WriterKinds
    <3>2. result.outcome = "writer-launch-stopped" BY <3>1 DEF Outcome, NoResult
    <3>3. StopRelations(i) BY <1>4, <2>8 DEF Relations
    <3>4. ops[i].expected.launch = session.launch
      BY <1>3, <3>3 DEF StopRelations, Dispatched
    <3> QED BY <2>e, <3>2, <3>4
  <2> QED BY <1>3, <2>2, <2>3, <2>4, <2>5, <2>6, <2>7, <2>8 DEF SettleDocument,
    MintingKinds, WriterKinds
<1> QED BY <1>3, <1>6, <1>7 DEF RunningWriterTracked, Active

LEMMA CancelTracked ==
    ASSUME AuthorityInv, RunningWriterTracked, NEW i \in OpId, CancelPreparedOperation(i)
    PROVE  RunningWriterTracked'
<1> DEFINE result == Outcome("cancelled-before-dispatch")
<1>1. Cancellable(i) /\ Commits(i, result, session) BY CancelWrites DEF AuthorityInv
<1>2. result.outcome = "cancelled-before-dispatch" BY DEF Outcome, NoResult
<1> HIDE DEF result
<1>3. /\ session.active.id = i /\ ops[i].state = "prepared" /\ session'.active.id = None
      /\ session'.attachment = session.attachment /\ session'.launch = session.launch
      /\ ops'[i].state = "committed" /\ ops'[i].result = result
      /\ \A k \in OpId \ {i} : ops'[k] = ops[k]
  BY <1>1 DEF Cancellable, Commits, Shows
<1>4. ~MayRun(i)' BY <1>2, <1>3 DEF MayRun, Dispatched, Committed
<1>5. ASSUME NEW k \in OpId \ {i}, MayRun(k)'
      PROVE  session'.attachment = ops'[k].expected.attachment /\ session'.launch.id = k
  <2> DEFINE S == {i}
  <2>1. /\ S \in SUBSET OpId /\ k \in OpId \ S /\ \A m \in OpId \ S : ops'[m] = ops[m]
        /\ \A m \in S : ops[m].state # "committed"
    BY <1>3
  <2> HIDE DEF S
  <2>2. MayRun(k) BY <1>5, <2>1, StillRuns
  <2> QED BY <1>3, <2>2, RecordedLaunch
<1> QED BY <1>3, <1>4, <1>5, NoneAssumption DEF RunningWriterTracked, Active

--------------------------------------------------------------------------------
(* What was dispatched can be recorded. *)

\* An operation that hands over, and no other, names one to hand over to.
LEMMA IntentRequests ==
    ASSUME NEW i \in OpId, NEW r \in RequestsOf(i)
    PROVE  r.intent # None <=> <<r.kind, r.version>> \in HandoffContracts
<1> USE DEF HandoffContracts, HandoffToTypedOperation
<1>1. CASE r \in AcquireRequests BY <1>1 DEF AcquireRequests, NoRequest
<1>7. CASE r \in ReleaseRequests BY <1>7 DEF ReleaseRequests, NoRequest
<1>8. CASE r = NoRequest BY <1>8 DEF NoRequest
<1>2. CASE r \in FenceRequests(i) BY <1>2 DEF FenceRequests
<1>3. CASE r \in CaptureRequests \cup LaunchRequests
  BY <1>3 DEF CaptureRequests, LaunchRequests
<1>4. CASE r \in GenerationRequests(i) BY <1>4 DEF GenerationRequests
<1>5. CASE r \in ActivationRequests(i)
  <2>1. /\ r.kind = "restore-activation" /\ r.version \in {1, 2}
        /\ r.intent \in Intended("writer-launch-attempt")
    BY <1>5 DEF ActivationRequests
  <2> QED BY <2>1, NoneAssumption DEF Intended
<1>6. CASE r \in StopRequests(i)
  <2>1. r.kind = "writer-launch-stop" /\ (r.version = 3 <=> r.intent # None)
    BY <1>6 DEF StopRequests
  <2> QED BY <2>1
<1> QED BY <1>1, <1>2, <1>3, <1>4, <1>5, <1>6, <1>7, <1>8 DEF RequestsOf

LEMMA HandoffNamesNone ==
    ASSUME NEW i
    PROVE  /\ HandoffRequest(i).intent = None
           /\ HandoffRequest(i).kind \in
                {"writer-launch-attempt", "checkpoint-capture", "atomic-crash-capture"}
BY DEF HandoffRequest, LaunchHandoffRequest, CaptureHandoffRequest, AtomicHandoffRequest,
   NoRequest

LEMMA StepNamed ==
    ASSUME AuthorityInv, IntentsNamed, NEW i \in OpId, Step(i)
    PROVE  IntentsNamed'
<1>0. TypedInv BY DEF AuthorityInv
<1>s. ASSUME SameOperation(i), \A k \in OpId \ {i} : ops'[k] = ops[k] PROVE IntentsNamed'
  BY <1>s DEF IntentsNamed, SameOperation, Contract
<1>n. ASSUME NEW o, ops'[i] = o, \A k \in OpId \ {i} : ops'[k] = ops[k],
             o.request.intent # None <=>
               <<o.request.kind, o.request.version>> \in HandoffContracts
      PROVE  IntentsNamed'
  BY <1>n DEF IntentsNamed, Contract
<1>1. ASSUME NEW r \in RequestsOf(i), ReserveOperation(i, r) PROVE IntentsNamed'
  <2>1. Reserves(i, r) BY <1>0, <1>1, ReserveWrites
  <2>2. /\ ops'[i] = PreparedRow(r, session) /\ \A k \in OpId \ {i} : ops'[k] = ops[k]
        /\ PreparedRow(r, session).request = r
    BY <2>1 DEF Reserves, Inserts, PreparedRow
  <2> QED BY <1>n, <2>2, IntentRequests
<1>2. CASE RenewWriterLease(i)
  <2>1. Renews(i) BY <1>0, <1>2, RenewWrites
  <2>2. ops'[i] = RenewalRow(i) /\ \A k \in OpId \ {i} : ops'[k] = ops[k]
    BY <2>1 DEF Renews, Inserts
  <2>3. /\ RenewalRow(i).request.intent = None
        /\ RenewalRow(i).request.kind = "writer-lease-renew"
    BY DEF RenewalRow, PreparedRow, NoRequest
  <2> QED BY <1>n, <2>2, <2>3 DEF HandoffContracts, HandoffToTypedOperation
<1>3. CASE Dispatch(i)
  <2>1. PICK d \in Snapshots : Dispatches(i, d) BY <1>0, <1>3, DispatchWrites
  <2> QED BY <1>s, <2>1 DEF Dispatches, Starts
<1>4. CASE MarkOperationUncertain(i) BY <1>0, <1>4, <1>s, UncertainWrites DEF Doubts
<1>5. CASE Settle(i)
  <2>1. PICK d \in Snapshots : \E result : Settles(i, result, d) BY <1>5, SettleWrites
  <2>2. PICK result : Settles(i, result, d) BY <2>1
  <2>3. CASE SettlesAlone(i, result, d) BY <1>s, <2>3 DEF SettlesAlone, Commits
  <2>4. CASE SettlesOver(i, result, d)
    <3> DEFINE j == ops[i].request.intent
    <3>1. /\ SameOperation(i) /\ ops'[j].request = HandoffRequest(i)
          /\ \A k \in OpId \ {i, j} : ops'[k] = ops[k]
      BY <2>4 DEF SettlesOver, HandsOver
    <3> HIDE DEF j
    <3>2. ops'[j].request.intent = None /\ Contract(ops'[j]) \notin HandoffContracts
      BY <3>1, HandoffNamesNone DEF Contract, HandoffContracts, HandoffToTypedOperation
    <3> QED BY SMTT(30), <3>1, <3>2 DEF IntentsNamed, SameOperation, Contract
  <2> QED BY <2>2, <2>3, <2>4 DEF Settles
<1>6. CASE CancelPreparedOperation(i) BY <1>0, <1>6, <1>s, CancelWrites DEF Commits
<1> QED BY <1>1, <1>2, <1>3, <1>4, <1>5, <1>6 DEF Step

\* The budget of a dispatch covers its doubt and its settlement.
LEMMA SpaceBudget ==
    ASSUME NEW r, r.kind \in TypedKinds
    PROVE  DispatchSpace(r) = FinalizeSpace(r) + 2 /\ FinalizeSpace(r) \in {1, 2, 5}
BY DEF TypedKinds, WriterKinds, DispatchSpace, FinalizeSpace, HandoffToTypedOperation

\* The operation that is handed over to is claimed and does not exist yet.
IntentHeld(i) ==
    LET j == ops[i].request.intent IN
    j # None => claims[j].claimant = i /\ ~claims[j].materialized
                  /\ ops[j].state = "absent"

Room(i) ==
    LET o == ops[i] IN
    Space(FinalizeSpace(o.request) + IF o.state = "starting" THEN 1 ELSE 0)

LEMMA RecoverableForm ==
    ASSUME NEW i \in OpId
    PROVE  /\ (DispatchedRecoverable /\ session.active.id = i /\ ops[i].state \in Dispatched
                 /\ ops[i].request.kind \in TypedKinds) => Room(i) /\ IntentHeld(i)
           /\ (session.active.id = i /\ Room(i) /\ IntentHeld(i)) => DispatchedRecoverable
<1>1. session.active.id = i => session.active # NoPointer BY NoneAssumption DEF NoPointer
<1> QED BY <1>1 DEF DispatchedRecoverable, Active, Room, IntentHeld

\* Nothing dispatched is active.
LEMMA NothingDispatched ==
    ASSUME \/ session'.active = NoPointer
           \/ ops'[session'.active.id].state \notin Dispatched
           \/ ops'[session'.active.id].request.kind \notin TypedKinds
    PROVE  DispatchedRecoverable'
BY DEF DispatchedRecoverable, Active

LEMMA DispatchRecoverable ==
    ASSUME AuthorityInv, IntentsNamed, NEW i \in OpId, Dispatch(i)
    PROVE  DispatchedRecoverable'
<1>0. /\ TypedInv /\ OwnClaims /\ session \in Snapshots /\ claims \in [OpId -> Claims]
      /\ ops[i] \in Operations
  BY DEF AuthorityInv, TypedInv, TypedRows
<1>1. PICK d \in Snapshots : Dispatches(i, d) BY <1>0, DispatchWrites
<1>2. /\ session.active.id = i /\ ops[i].state = "prepared" /\ session'.active.id = i
      /\ session'.revision = session.revision + 1 /\ ops'[i].state = "starting"
      /\ SameOperation(i) /\ \A k \in OpId \ {i} : ops'[k] = ops[k]
      /\ Space(DispatchSpace(ops[i].request)) /\ DispatchClaims(i)
  BY <1>1 DEF Dispatches, Starts
<1>3. CASE ops[i].request.kind \notin TypedKinds
  BY <1>2, <1>3, NothingDispatched DEF SameOperation
<1>4. CASE ops[i].request.kind \in TypedKinds
  <2>1. Room(i)'
    <3> DEFINE n == FinalizeSpace(ops[i].request)
    <3>1. DispatchSpace(ops[i].request) = n + 2 /\ n \in {1, 2, 5} BY <1>4, SpaceBudget
    <3>2. session.revision \in Nat /\ MaxRevision \in Nat
      BY <1>0, BoundAssumption DEF Snapshots
    <3>3. session.revision + (n + 2) <= MaxRevision BY <1>2, <3>1 DEF Space
    <3>5. Room(i)' <=> session'.revision + (FinalizeSpace(ops'[i].request)
                         + IF ops'[i].state = "starting" THEN 1 ELSE 0) <= MaxRevision
      BY DEF Room, Space, FinalizeSpace, HandoffToTypedOperation
    <3>4. Room(i)' <=> session'.revision + (n + 1) <= MaxRevision
      BY <1>2, <3>5 DEF SameOperation
    <3> HIDE DEF n
    <3> QED BY <1>2, <3>1, <3>2, <3>3, <3>4
  <2>2. IntentHeld(i)'
    <3> SUFFICES ASSUME ops[i].request.intent # None PROVE IntentHeld(i)'
      BY <1>2 DEF IntentHeld, SameOperation
    <3> DEFINE j == ops[i].request.intent
    <3>1. /\ Contract(ops[i]) \in HandoffContracts /\ j \in OpId
      BY <1>0 DEF IntentsNamed, Operations, Requests, IdOrNone
    <3>2. PICK type : claims' = ClaimFor(j, type, i) /\ claims[j] = NoClaim
      BY <1>2, <3>1 DEF DispatchClaims, IntentFree
    <3>3. claims'[j].claimant = i /\ ~claims'[j].materialized
      BY <1>0, <3>1, <3>2 DEF ClaimFor
    <3>4. ops[j].state = "absent" /\ j # i BY <1>0, <1>2, <3>1, <3>2 DEF OwnClaims, NoClaim
    <3> QED BY <1>2, <3>1, <3>3, <3>4 DEF IntentHeld, SameOperation
  <2>3. (session.active.id = i /\ Room(i) /\ IntentHeld(i) => DispatchedRecoverable)'
    <3>1. session'.active # NoPointer BY <1>2, NoneAssumption DEF NoPointer
    <3> QED BY <3>1 DEF DispatchedRecoverable, Active, Room, IntentHeld
  <2> QED BY <1>2, <2>1, <2>2, <2>3
<1> QED BY <1>3, <1>4

LEMMA UncertainRecoverable ==
    ASSUME AuthorityInv, DispatchedRecoverable, NEW i \in OpId, MarkOperationUncertain(i)
    PROVE  DispatchedRecoverable'
<1>0. TypedInv /\ session \in Snapshots BY DEF AuthorityInv, TypedInv, TypedRows
<1>1. Doubts(i) BY <1>0, UncertainWrites
<1>2. /\ session.active.id = i /\ ops[i].state = "starting" /\ session'.active.id = i
      /\ session'.revision = session.revision + 1 /\ ops'[i].state = "uncertain"
      /\ SameOperation(i) /\ claims' = claims /\ \A k \in OpId \ {i} : ops'[k] = ops[k]
  BY <1>1 DEF Doubts
<1>3. CASE ops[i].request.kind \notin TypedKinds
  BY <1>2, <1>3, NothingDispatched DEF SameOperation
<1>4. CASE ops[i].request.kind \in TypedKinds
  <2>0. Room(i) /\ IntentHeld(i) BY <1>2, <1>4, RecoverableForm DEF Dispatched
  <2>1. Room(i)'
    <3> DEFINE n == FinalizeSpace(ops[i].request)
    <3>1. n \in {1, 2, 5} BY <1>4, SpaceBudget
    <3>2. session.revision \in Nat /\ MaxRevision \in Nat
      BY <1>0, BoundAssumption DEF Snapshots
    <3>3. session.revision + (n + 1) <= MaxRevision BY <1>2, <2>0, <3>1 DEF Space, Room
    <3>5. Room(i)' <=> session'.revision + (FinalizeSpace(ops'[i].request)
                         + IF ops'[i].state = "starting" THEN 1 ELSE 0) <= MaxRevision
      BY DEF Room, Space, FinalizeSpace, HandoffToTypedOperation
    <3>4. Room(i)' <=> session'.revision + (n + 0) <= MaxRevision
      BY <1>2, <3>5 DEF SameOperation
    <3> HIDE DEF n
    <3> QED BY <1>2, <3>1, <3>2, <3>3, <3>4
  <2>2. IntentHeld(i)'
    <3> SUFFICES ASSUME ops[i].request.intent # None PROVE IntentHeld(i)'
      BY <1>2 DEF IntentHeld, SameOperation
    <3> DEFINE j == ops[i].request.intent
    <3>1. /\ claims[j].claimant = i /\ ~claims[j].materialized /\ ops[j].state = "absent"
          /\ j \in OpId /\ j # i
      BY <1>0, <1>2, <2>0 DEF IntentHeld, TypedInv, TypedRows, Operations, Requests,
         IdOrNone
    <3> QED BY <1>2, <3>1 DEF IntentHeld, SameOperation
  <2>3. (session.active.id = i /\ Room(i) /\ IntentHeld(i) => DispatchedRecoverable)'
    <3>1. session'.active # NoPointer BY <1>2, NoneAssumption DEF NoPointer
    <3> QED BY <3>1 DEF DispatchedRecoverable, Active, Room, IntentHeld
  <2> QED BY <1>2, <2>1, <2>2, <2>3
<1> QED BY <1>3, <1>4

LEMMA StepRecoverable ==
    ASSUME AuthorityInv, IntentsNamed, DispatchedRecoverable, NEW i \in OpId, Step(i)
    PROVE  DispatchedRecoverable'
<1>0. TypedInv BY DEF AuthorityInv
<1>1. ASSUME NEW r, ReserveOperation(i, r) PROVE DispatchedRecoverable'
  <2>1. Reserves(i, r) BY <1>0, <1>1, ReserveWrites
  <2>2. session'.active.id = i /\ ops'[i].state = "prepared"
    BY <2>1 DEF Reserves, Inserts, PreparedRow
  <2> QED BY <2>2, NothingDispatched DEF Dispatched
<1>2. CASE RenewWriterLease(i) BY <1>0, <1>2, RenewWrites, NothingDispatched DEF Renews
<1>3. CASE Settle(i)
  <2>1. PICK d \in Snapshots : \E result : Settles(i, result, d) BY <1>3, SettleWrites
  <2>2. PICK result : Settles(i, result, d) BY <2>1
  <2>3. CASE SettlesAlone(i, result, d) BY <2>3, NothingDispatched DEF SettlesAlone, Commits
  <2>4. CASE SettlesOver(i, result, d)
    <3>1. /\ session'.active.id = ops[i].request.intent
          /\ ops'[ops[i].request.intent].state = "prepared"
      BY <2>4 DEF SettlesOver, HandsOver
    <3> QED BY <3>1, NothingDispatched DEF Dispatched
  <2> QED BY <2>2, <2>3, <2>4 DEF Settles
<1>4. CASE CancelPreparedOperation(i)
  BY <1>0, <1>4, CancelWrites, NothingDispatched DEF Commits
<1> QED BY <1>1, <1>2, <1>3, <1>4, DispatchRecoverable, UncertainRecoverable DEF Step

\* Nobody else can take the identifier that a dispatched operation has claimed.
LEMMA WorldRecoverable ==
    ASSUME AuthorityInv, ActiveNamed, DispatchedRecoverable, session' = session, ops' = ops,
           \/ claims' = claims
           \/ \E j \in OpId, type \in {"foreign", "stable-plan"} : ForeignClaim(j, type)
    PROVE  DispatchedRecoverable'
<1>0. claims \in [OpId -> Claims] /\ ops \in [OpId -> Operations]
  BY DEF AuthorityInv, TypedInv, TypedRows
<1>1. ASSUME NEW k \in OpId, claims[k].claimant # None
      PROVE  claims'[k] = claims[k]
  <2>1. ASSUME NEW j \in OpId, NEW type, ForeignClaim(j, type) PROVE claims'[k] = claims[k]
    BY <1>0, <1>1, <2>1 DEF ForeignClaim, IntentFree, NoClaim
  <2> QED BY <2>1
<1>2. CASE \/ session.active = NoPointer
           \/ ops[session.active.id].state \notin Dispatched
           \/ ops[session.active.id].request.kind \notin TypedKinds
  BY <1>2, NothingDispatched
<1>3. CASE /\ session.active # NoPointer
           /\ ops[session.active.id].state \in Dispatched
           /\ ops[session.active.id].request.kind \in TypedKinds
  <2>1. PICK i \in OpId : i = session.active.id BY <1>3 DEF ActiveNamed
  <2> DEFINE j == ops[i].request.intent
  <2>2. Room(i) /\ IntentHeld(i) BY <1>3, <2>1, RecoverableForm
  <2>3. j \in IdOrNone BY <1>0, <2>1 DEF Operations, Requests
  <2>4. j # None => claims'[j] = claims[j]
    BY <1>1, <2>1, <2>2, <2>3, NoneAssumption DEF IntentHeld, IdOrNone
  <2>5. Room(i)' BY <2>2 DEF Room, Space, FinalizeSpace, HandoffToTypedOperation
  <2>6. IntentHeld(i)' BY SMTT(30), <2>2, <2>4 DEF IntentHeld
  <2>7. (session.active.id = i /\ Room(i) /\ IntentHeld(i) => DispatchedRecoverable)'
    BY <2>1, NoneAssumption DEF DispatchedRecoverable, Active, Room, IntentHeld, NoPointer
  <2> QED BY <2>1, <2>5, <2>6, <2>7
<1> QED BY <1>2, <1>3

--------------------------------------------------------------------------------
(* The invariant. *)

LEMMA StepActive ==
    ASSUME AuthorityInv, NEW i \in OpId, Step(i)
    PROVE  ActiveNamed'
<1>0. TypedInv BY DEF AuthorityInv
<1>1. ASSUME NEW r, ReserveOperation(i, r) PROVE ActiveNamed'
  BY <1>0, <1>1, ReserveWrites DEF Reserves, ActiveNamed
<1>2. CASE RenewWriterLease(i) BY <1>0, <1>2, RenewWrites DEF Renews, ActiveNamed
<1>3. CASE Dispatch(i) BY <1>0, <1>3, DispatchWrites DEF Dispatches, Starts, ActiveNamed
<1>4. CASE MarkOperationUncertain(i) BY <1>0, <1>4, UncertainWrites DEF Doubts, ActiveNamed
<1>5. CASE Settle(i)
  <2>1. PICK d \in Snapshots : \E result : Settles(i, result, d) BY <1>5, SettleWrites
  <2>2. PICK result : Settles(i, result, d) BY <2>1
  <2>3. CASE SettlesAlone(i, result, d) BY <2>3 DEF SettlesAlone, Commits, ActiveNamed
  <2>4. CASE SettlesOver(i, result, d)
    <3>1. session'.active.id = ops[i].request.intent /\ ops[i].request.intent \in OpId
      BY <2>4 DEF SettlesOver, HandsOver, ClaimedBy
    <3> QED BY <3>1 DEF ActiveNamed
  <2> QED BY <2>2, <2>3, <2>4 DEF Settles
<1>6. CASE CancelPreparedOperation(i) BY <1>0, <1>6, CancelWrites DEF Commits, ActiveNamed
<1> QED BY <1>1, <1>2, <1>3, <1>4, <1>5, <1>6 DEF Step

LEMMA StepAnchored ==
    ASSUME AuthorityInv, Anchored, SessionReadable, NEW i \in OpId, Step(i)
    PROVE  Anchored'
BY ReserveAnchored, RenewAnchored, DispatchAnchored, UncertainAnchored, SettleAnchored,
   CancelAnchored DEF Step

LEMMA StepTracked ==
    ASSUME AuthorityInv, RunningWriterTracked, SessionReadable, NEW i \in OpId, Step(i)
    PROVE  RunningWriterTracked'
BY ReserveTracked, RenewTracked, DispatchTracked, UncertainTracked, SettleTracked,
   CancelTracked DEF Step

LEMMA InitWriter == Init => WriterInv
<1> SUFFICES ASSUME Init PROVE WriterInv
  OBVIOUS
<1>1. AuthorityInv BY InitAuthority
<1>2. /\ session.active = NoPointer /\ session.active.id = None
      /\ session.lifecycle = "DETACHED"
  BY DEF Init, RegisteredSession, NoPointer
<1>3. \A i \in OpId : /\ ops[i].request.intent = None /\ ops[i].state = "absent"
                      /\ ops[i].request.kind = "generic"
  BY DEF Init, NoOperation, NoRequest
<1>4. ActiveNamed /\ IntentsNamed /\ DispatchedRecoverable
  BY <1>2, <1>3 DEF ActiveNamed, IntentsNamed, DispatchedRecoverable, Contract,
     HandoffContracts, HandoffToTypedOperation
<1>5. Anchored BY <1>2, NoneAssumption DEF Anchored
<1>6. RunningWriterTracked BY <1>3 DEF RunningWriterTracked, MayRun, Dispatched, Committed
<1> QED BY <1>1, <1>4, <1>5, <1>6 DEF WriterInv

\* The world claims identifiers and lets leases expire; it writes no row.
LEMMA WorldWriter ==
    ASSUME WriterInv, AuthorityInv', session' = session, ops' = ops,
           \/ claims' = claims
           \/ \E j \in OpId, type \in {"foreign", "stable-plan"} : ForeignClaim(j, type)
    PROVE  WriterInv'
<1>1. DispatchedRecoverable' BY WorldRecoverable DEF WriterInv
<1>2. ActiveNamed' /\ IntentsNamed' BY DEF WriterInv, ActiveNamed, IntentsNamed, Contract
<1>3. Anchored' BY DEF WriterInv, Anchored
<1>4. RunningWriterTracked'
  BY DEF WriterInv, RunningWriterTracked, MayRun, Committed, Active
<1> QED BY <1>1, <1>2, <1>3, <1>4 DEF WriterInv

LEMMA NextWriter ==
    ASSUME WriterInv, [Next]_vars
    PROVE  WriterInv'
<1>0. AuthorityInv /\ AuthorityInv' BY NextAuthority DEF WriterInv
<1>1. ASSUME SessionReadable, NEW i \in OpId, Step(i) PROVE WriterInv'
  BY <1>0, <1>1, StepActive, StepNamed, StepAnchored, StepTracked, StepRecoverable DEF
     WriterInv
<1>2. CASE UNCHANGED vars BY <1>0, <1>2, WorldWriter DEF vars
<1>3. CASE LeaseExpires BY <1>0, <1>3, WorldWriter DEF LeaseExpires
<1>4. ASSUME NEW j \in OpId, NEW type \in {"foreign", "stable-plan"}, ForeignClaim(j, type)
      PROVE  WriterInv'
  <2>1. session' = session /\ ops' = ops BY <1>4 DEF ForeignClaim
  <2> QED BY <1>0, <1>4, <2>1, WorldWriter
<1> QED BY <1>1, <1>2, <1>3, <1>4 DEF Next

LEMMA WriterInvariance == Spec => []WriterInv
BY InitWriter, NextWriter, PTL DEF Spec

\* However often a fence blocks and is tried again, the target of the fence in
\* flight, and the one finalizeWriterOperationBlocked leaves for the next, is the
\* writer whose lease the session holds.
THEOREM FenceAnchored == Spec => []FenceTargetAnchored
<1>1. ASSUME WriterInv PROVE FenceTargetAnchored
  <2>1. Anchored BY <1>1 DEF WriterInv
  <2> QED BY <2>1 DEF Anchored, FenceTargetAnchored, Active
<1> QED BY <1>1, WriterInvariance, PTL

\* No launch attempt that may still have a process is forgotten by the session:
\* it is the one in flight or the recorded launch, on the attachment that is
\* still held, whatever finalizeWriterLaunchAttempt, finalizeWriterLaunchStop,
\* the fences and the restores do in between.
THEOREM WriterTracked == Spec => []RunningWriterTracked
<1>1. WriterInv => RunningWriterTracked BY DEF WriterInv
<1> QED BY <1>1, WriterInvariance, PTL

\* A typed operation that was dispatched keeps the revisions to be marked
\* uncertain and settled, and the identifier of the operation it hands over to
\* (revisionAfter, the operation id registry), whoever else claims identifiers.
THEOREM DispatchedIsRecoverable == Spec => []DispatchedRecoverable
<1>1. WriterInv => DispatchedRecoverable BY DEF WriterInv
<1> QED BY <1>1, WriterInvariance, PTL

--------------------------------------------------------------------------------
(* How a writer leaves. *)

\* The lease stays, at most renewed, and a blocked session only starts to fence.
LeaseStays ==
    /\ session'.lease.id = session.lease.id
    /\ session'.lease.term >= session.lease.term
    /\ session.lifecycle = "BLOCKED" => session'.lifecycle \in {"BLOCKED", "FENCING"}

LeavesByProof ==
    /\ session'.lease = NoLease /\ session'.lifecycle = "DETACHED"
    /\ session.lifecycle \in {"RELEASING", "FENCING"}
    /\ ops[Active].request.target = session.lease.id

LEMMA LeaseUntouched ==
    ASSUME TypedInv, session'.lease = session.lease,
           session.lifecycle = "BLOCKED" => session'.lifecycle \in {"BLOCKED", "FENCING"}
    PROVE  LeaseStays
<1>1. session.lease.term \in Int BY DEF TypedInv, TypedRows, Snapshots, Leases
<1> QED BY <1>1 DEF LeaseStays

LEMMA SettleLeaves ==
    ASSUME WriterInv, SessionReadable, NEW i \in OpId, Settle(i), session.lease # NoLease
    PROVE  LeaseStays \/ LeavesByProof
<1>0. TypedInv /\ session \in Snapshots /\ Anchored /\ AuthorityInv
  BY DEF WriterInv, AuthorityInv, TypedInv, TypedRows
<1>1. PICK d \in Snapshots : \E result : Settles(i, result, d) BY <1>0, SettleWrites
<1>2. PICK result : Settles(i, result, d) BY <1>1
<1>3. /\ session.active.id = i /\ ops[i].state \in Dispatched
      /\ session'.lease = d.lease /\ session'.lifecycle = d.lifecycle
  BY <1>2 DEF Settles, SettlesAlone, SettlesOver, Commits, HandsOver, Shows
<1>4. session.lifecycle # "BLOCKED"
  BY <1>0, <1>3, ReadableActive, ReadableDocument, NoneAssumption DEF Dispatched, NoPointer
<1>5. CASE d.lease = session.lease BY <1>0, <1>3, <1>4, <1>5, LeaseUntouched
<1>6. CASE d.lease # session.lease
  <2>1. /\ ops[i].request.kind \in {"writer-release", "writer-force-fence"}
        /\ session.lifecycle \in {"RELEASING", "FENCING"} /\ d = NoWriterLeft
    <3>1. d # session /\ d # BlockedSession /\ d # WriterStopped
      BY <1>0, <1>6, DocumentFields
    <3>2. d # [session EXCEPT !.lifecycle = "ATTACHED", !.attachment = AttachmentUnderLease]
      BY <1>0, <1>6, DocumentFields
    <3>3. \A outcome : d # LaunchedSession(i, outcome) BY <1>0, <1>6, DocumentFields
    <3> QED BY <1>2, <3>1, <3>2, <3>3 DEF Settles, SettleDocument
  <2>2. ops[i].request.target = session.lease.id BY <1>0, <1>3, <2>1 DEF Anchored
  <2>3. d.lease = NoLease /\ d.lifecycle = "DETACHED" BY <1>0, <2>1, DocumentFields
  <2> QED BY <1>3, <2>1, <2>2, <2>3 DEF LeavesByProof, Active
<1> QED BY <1>5, <1>6

LEMMA StepLeaves ==
    ASSUME WriterInv, SessionReadable, NEW i \in OpId, Step(i), session.lease # NoLease
    PROVE  LeaseStays \/ LeavesByProof
<1>0. TypedInv /\ session \in Snapshots BY DEF WriterInv, AuthorityInv, TypedInv, TypedRows
<1>1. ASSUME NEW r, ReserveOperation(i, r) PROVE LeaseStays
  BY <1>0, <1>1, ReserveWrites, LeaseUntouched DEF Reserves, Shows
<1>2. CASE RenewWriterLease(i)
  <2>1. session'.lease = RenewedLease(i) /\ session'.lifecycle = session.lifecycle
    BY <1>0, <1>2, RenewWrites DEF Renews
  <2>2. /\ session.lease.term \in Int /\ RenewedLease(i).id = session.lease.id
        /\ RenewedLease(i).term = session.lease.term + 1
    BY <1>0 DEF RenewedLease, Snapshots, Leases
  <2> QED BY <2>1, <2>2 DEF LeaseStays
<1>3. CASE Dispatch(i)
  <2>1. PICK d \in Snapshots : Dispatches(i, d) BY <1>0, <1>3, DispatchWrites
  <2>2. session'.lease = d.lease /\ session'.lifecycle = d.lifecycle
    BY <2>1 DEF Dispatches, Starts, Shows
  <2>3. session.lifecycle # "DETACHED" BY ReadableDocument DEF NoWriter
  <2>4. /\ d.lease = session.lease
        /\ session.lifecycle = "BLOCKED" => d.lifecycle \in {"BLOCKED", "FENCING"}
    BY <2>1, <2>3 DEF Dispatches, DispatchDocument, Detached, Attached
  <2> QED BY <1>0, <2>2, <2>4, LeaseUntouched
<1>4. CASE MarkOperationUncertain(i)
  BY <1>0, <1>4, UncertainWrites, LeaseUntouched DEF Doubts, Shows
<1>5. CASE CancelPreparedOperation(i)
  BY <1>0, <1>5, CancelWrites, LeaseUntouched DEF Commits, Shows
<1> QED BY <1>1, <1>2, <1>3, <1>4, <1>5, SettleLeaves DEF Step

\* The lease of a writer leaves the document only with finalizeWriterRelease or
\* the finalization of a fence, of an operation already dispatched that names
\* this writer; a blocked session can do nothing but start to fence.
THEOREM WriterLeaves == Spec => WriterLeavesByProof
<1>1. ASSUME WriterInv, [Next]_vars, session.lease # NoLease
      PROVE  LeaseStays \/ LeavesByProof
  <2>0. TypedInv BY <1>1 DEF WriterInv, AuthorityInv
  <2>1. CASE session' = session BY <2>0, <2>1, LeaseUntouched
  <2>2. CASE LeaseExpires BY <2>1, <2>2 DEF LeaseExpires
  <2>3. ASSUME NEW j, NEW type, ForeignClaim(j, type) PROVE LeaseStays
    <3>1. session' = session BY <2>3 DEF ForeignClaim
    <3> QED BY <2>0, <3>1, LeaseUntouched
  <2>4. CASE UNCHANGED vars BY <2>1, <2>4 DEF vars
  <2>5. ASSUME SessionReadable, NEW i \in OpId, Step(i) PROVE LeaseStays \/ LeavesByProof
    BY <1>1, <2>5, StepLeaves
  <2> QED BY <1>1, <2>2, <2>3, <2>4, <2>5 DEF Next
<1>2. ASSUME WriterInv, [Next]_vars
      PROVE  [session.lease # NoLease =>
         \/ /\ session'.lease.id = session.lease.id
            /\ session'.lease.term >= session.lease.term
            /\ session.lifecycle = "BLOCKED" =>
                 session'.lifecycle \in {"BLOCKED", "FENCING"}
         \/ /\ session'.lease = NoLease
            /\ session'.lifecycle = "DETACHED"
            /\ session.lifecycle \in {"RELEASING", "FENCING"}
            /\ ops[Active].request.target = session.lease.id]_vars
  BY <1>1, <1>2 DEF LeaseStays, LeavesByProof
<1> QED BY <1>2, WriterInvariance, PTL DEF Spec, WriterLeavesByProof

--------------------------------------------------------------------------------
(***************************************************************************)
(* Whatever the callers promise: the authority writes no session that its   *)
(* own readers refuse, unless a request in it is one that they refuse, and  *)
(* what it has prepared can be dispatched or cancelled, unless it took the  *)
(* place of an operation that was to be handed over.                        *)
(*                                                                          *)
(* A reader looks at the document, the active and the last operation, their *)
(* reservations and the claims of identifiers.  Operations that are         *)
(* committed never change, and an identifier that is claimed stays with its *)
(* claimant, so what was found once is found again; what is left is what    *)
(* each method writes.                                                      *)
(***************************************************************************)

\* The reservation of an operation is in the phase of its row.
Reserved == \A i \in OpId : ReservationRelation(i)

\* An operation that hands over names an identifier other than its own.
IntentsFit ==
    \A i \in OpId :
        Contract(ops[i]) \in HandoffContracts => ops[i].request.intent \in OpId \ {i}

\* Whoever claims an identifier for another operation was dispatched for it.
IntentClaims ==
    \A i \in OpId : \A k \in OpId \ {i} :
        claims[k].claimant = i =>
            /\ ops[i].state # "absent" /\ ~Undispatched(ops[i])
            /\ ops[i].request.intent = k

AttachedKinds ==
    {"checkpoint-capture", "restore-generation", "writer-launch-attempt",
     "writer-launch-stop"}

\* The session that an active operation found, by its kind.
ActiveFits ==
    \A i \in OpId :
        session.active.id = i =>
            /\ ops[i].request.kind \in MintingKinds => NoWriter(ops[i].expected)
            /\ ops[i].request.kind = "writer-release" => ops[i].expected.launch = NoLaunch
            /\ ops[i].request.kind \in AttachedKinds => Attached

\* The anchor of the session names an operation.
LastNamed == session.last # NoPointer => session.last.id \in OpId

\* An identifier that nobody had is claimed, and not by this session.
ClaimedElsewhere(j) ==
    /\ claims[j] = NoClaim /\ claims'[j] # NoClaim /\ claims'[j].claimant = None
    /\ \A k \in OpId \ {j} : claims'[k] = claims[k]

ReadableInv ==
    /\ WriterInv /\ SessionReadable /\ LastNamed
    /\ Reserved /\ IntentsFit /\ IntentClaims /\ ActiveFits

--------------------------------------------------------------------------------
(* What stays. *)

\* Operations that are committed stay as they are.
HistoryKept == \A k \in OpId : ops[k].state = "committed" => ops'[k] = ops[k]

LEMMA CommittedKept ==
    ASSUME HistoryKept, NEW k, NEW outcome, Committed(k, outcome)
    PROVE  Committed(k, outcome)' /\ k \in OpId /\ ops'[k] = ops[k]
BY DEF HistoryKept, Committed

\* A rule on documents and rows says the same of the next state.
LEMMA LastRuleNext ==
    ASSUME NEW x, NEW k
    PROVE  LastPointerRule(x, k, ops[k])' <=> LastPointerRule(x, k, ops'[k])
BY DEF LastPointerRule, TerminalBusiness, Business

LEMMA StoppedKept ==
    ASSUME HistoryKept, NEW x, NEW stop, NEW attachment, StoppedAt(x, stop, attachment)
    PROVE  StoppedAt(x, stop, attachment)' /\ stop \in OpId /\ ops'[stop] = ops[stop]
<1>1. /\ Committed(stop, "writer-launch-stopped")' /\ stop \in OpId
      /\ ops'[stop] = ops[stop]
  BY CommittedKept DEF StoppedAt
<1>2. LastPointerRule(x, stop, ops[stop])' BY <1>1, LastRuleNext DEF StoppedAt
<1> QED BY <1>1, <1>2 DEF StoppedAt

LEMMA PredecessorV2Kept ==
    ASSUME HistoryKept, NEW r, NEW x, Committed(r.source, "restore-generation-committed"),
           PredecessorV2(r, x)
    PROVE  PredecessorV2(r, x)'
<1>1. r.source \in OpId /\ ops'[r.source] = ops[r.source] BY CommittedKept
<1>2. PICK base : base = IF GenerationPredecessor(r, x) THEN ops[r.source].expected ELSE x
  OBVIOUS
<1>3. PICK c : c = base.last.id
  OBVIOUS
<1>4. /\ base.last.kind = "checkpoint-capture" /\ base.lifecycle = "ATTACHED"
      /\ base.launch = NoLaunch /\ base.attachment.id = r.target
      /\ Committed(c, "checkpoint-captured") /\ LastPointerRule(base, c, ops[c])
      /\ ops[c].request.stop = r.stop /\ ops[c].request.target = r.target
      /\ StoppedAt(ops[c].expected, r.stop, r.target)
      /\ GenerationPredecessor(r, x) =>
           /\ ops[r.source].request.version = 1
           /\ LastPointerRule(x, r.source, ops[r.source])
  BY <1>2, <1>3 DEF PredecessorV2
<1>5. Committed(c, "checkpoint-captured")' /\ c \in OpId /\ ops'[c] = ops[c]
  BY <1>4, CommittedKept
<1>6. LastPointerRule(base, c, ops[c])' BY <1>4, <1>5, LastRuleNext
<1>7. PICK y : y = ops[c].expected
  OBVIOUS
<1>8. StoppedAt(y, r.stop, r.target)' BY <1>4, <1>7, StoppedKept
<1>9. PICK g : g = r.source
  OBVIOUS
<1>10. GenerationPredecessor(r, x) => LastPointerRule(x, g, ops[g])'
  BY <1>1, <1>4, <1>9, LastRuleNext
<1> QED BY <1>1, <1>2, <1>3, <1>4, <1>5, <1>6, <1>7, <1>8, <1>9, <1>10 DEF PredecessorV2,
  GenerationPredecessor

LEMMA CoreKept ==
    ASSUME HistoryKept, NEW r, NEW x, ActivationCore(r, x)
    PROVE  ActivationCore(r, x)'
<1>1. PICK detach : detach = x.last.id
  OBVIOUS
<1>2. /\ Committed(r.source, "restore-generation-committed")
      /\ Committed(detach, "writer-released") \/ Committed(detach, "writer-fenced")
      /\ LastPointerRule(x, detach, ops[detach])
      /\ ops[r.source].expected.attachment = ops[detach].expected.attachment
      /\ ops[detach].expected.attachment.id = r.target
      /\ IF r.version = 1 THEN PredecessorV1(r, ops[detach].expected)
                          ELSE PredecessorV2(r, ops[detach].expected)
  BY <1>1 DEF ActivationCore
<1>3. /\ Committed(r.source, "restore-generation-committed")'
      /\ ops'[r.source] = ops[r.source]
  BY <1>2, CommittedKept
<1>4. /\ Committed(detach, "writer-released")' \/ Committed(detach, "writer-fenced")'
      /\ ops'[detach] = ops[detach]
  BY <1>2, CommittedKept
<1>5. LastPointerRule(x, detach, ops[detach])' BY <1>2, <1>4, LastRuleNext
<1>6. PICK y : y = ops[detach].expected
  OBVIOUS
<1>7. r.version = 1 => PredecessorV1(r, y)'
  <2> SUFFICES ASSUME r.version = 1 PROVE PredecessorV1(r, y)'
    OBVIOUS
  <2>1. StoppedAt(y, r.stop, r.target) /\ ops[r.stop].expected.launch.generation = r.source
    BY <1>2, <1>6 DEF PredecessorV1
  <2>2. StoppedAt(y, r.stop, r.target)' /\ ops'[r.stop] = ops[r.stop] BY <2>1, StoppedKept
  <2> QED BY <2>1, <2>2 DEF PredecessorV1
<1>8. r.version # 1 => PredecessorV2(r, y)' BY <1>2, <1>6, PredecessorV2Kept
<1> QED BY <1>1, <1>2, <1>3, <1>4, <1>5, <1>6, <1>7, <1>8 DEF ActivationCore

\* With the rows as they were, an activation names the same history.
LEMMA StoppedSame ==
    ASSUME ops' = ops, NEW x, NEW stop, NEW attachment
    PROVE  StoppedAt(x, stop, attachment)' <=> StoppedAt(x, stop, attachment)
<1>1. LastPointerRule(x, stop, ops[stop])' <=> LastPointerRule(x, stop, ops[stop])
  BY LastRuleNext
<1> QED BY <1>1 DEF StoppedAt, Committed

LEMMA CoreSame ==
    ASSUME ops' = ops, NEW r, NEW x
    PROVE  ActivationCore(r, x)' <=> ActivationCore(r, x)
<1>1. ASSUME NEW y, NEW k PROVE LastPointerRule(y, k, ops[k])' <=> LastPointerRule(y, k, ops[k])
  BY LastRuleNext
<1>2. ASSUME NEW y PROVE PredecessorV1(r, y)' <=> PredecessorV1(r, y)
  BY StoppedSame DEF PredecessorV1
<1>3. ASSUME NEW y PROVE PredecessorV2(r, y)' <=> PredecessorV2(r, y)
  <2>1. PICK base : base = IF GenerationPredecessor(r, y) THEN ops[r.source].expected ELSE y
    OBVIOUS
  <2>2. PICK c : c = base.last.id
    OBVIOUS
  <2>3. PICK z : z = ops[c].expected
    OBVIOUS
  <2>4. PICK g : g = r.source
    OBVIOUS
  <2>5. /\ LastPointerRule(base, c, ops[c])' <=> LastPointerRule(base, c, ops[c])
        /\ LastPointerRule(y, g, ops[g])' <=> LastPointerRule(y, g, ops[g])
    BY <1>1
  <2>6. StoppedAt(z, r.stop, r.target)' <=> StoppedAt(z, r.stop, r.target) BY StoppedSame
  <2>7. GenerationPredecessor(r, y)' <=> GenerationPredecessor(r, y)
    BY DEF GenerationPredecessor
  <2>8. Committed(c, "checkpoint-captured")' <=> Committed(c, "checkpoint-captured")
    BY DEF Committed
  <2> QED BY <2>1, <2>2, <2>3, <2>4, <2>5, <2>6, <2>7, <2>8 DEF PredecessorV2
<1>4. PICK k : k = x.last.id
  OBVIOUS
<1>5. PICK y : y = ops[k].expected
  OBVIOUS
<1>6. /\ LastPointerRule(x, k, ops[k])' <=> LastPointerRule(x, k, ops[k])
      /\ PredecessorV1(r, y)' <=> PredecessorV1(r, y)
      /\ PredecessorV2(r, y)' <=> PredecessorV2(r, y)
  BY <1>1, <1>2, <1>3
<1> QED BY <1>4, <1>5, <1>6 DEF ActivationCore, Committed

LEMMA LaunchGenerationKept ==
    ASSUME HistoryKept, NEW r, NEW a, LaunchGeneration(r, a)
    PROVE  LaunchGeneration(r, a)'
<1>1. Committed(r.source, "restore-generation-committed")' /\ ops'[r.source] = ops[r.source]
  BY CommittedKept DEF LaunchGeneration
<1>2. Committed(a.id, "restore-attachment-activated") =>
        Committed(a.id, "restore-attachment-activated")' /\ ops'[a.id] = ops[a.id]
  BY CommittedKept
<1> QED BY <1>1, <1>2 DEF LaunchGeneration

LEMMA FenceSourceKept ==
    ASSUME HistoryKept, NEW r, NEW x, FenceTargetSource(r, x)
    PROVE  FenceTargetSource(r, x)'
<1>1. PICK k : k = x.last.id
  OBVIOUS
<1>2. Committed(k, "writer-blocked") => Committed(k, "writer-blocked")' /\ ops'[k] = ops[k]
  BY CommittedKept
<1> QED BY <1>1, <1>2 DEF FenceTargetSource

\* A recorded launch stays one under the same lease.
LEMMA CurrentLaunchKept ==
    ASSUME HistoryKept, NEW x, CurrentLaunchRelation(x)
    PROVE  CurrentLaunchRelation(x)'
<1> SUFFICES ASSUME x.launch # NoLaunch PROVE CurrentLaunchRelation(x)'
  BY DEF CurrentLaunchRelation
<1>1. PICK i : i = x.launch.id
  OBVIOUS
<1>2. Committed(i, "writer-launch-started")' /\ i \in OpId /\ ops'[i] = ops[i]
  BY <1>1, CommittedKept DEF CurrentLaunchRelation
<1>3. LaunchRelations(i)'
  <2>1. PICK o : o = ops[i]
    OBVIOUS
  <2>2. PICK r : r = o.request
    OBVIOUS
  <2>3. PICK a : a = o.expected.attachment
    OBVIOUS
  <2>4. ~Undispatched(o) => LaunchGeneration(r, a)
    BY <1>1, <2>1, <2>2, <2>3 DEF CurrentLaunchRelation, LaunchRelations
  <2>5. ~Undispatched(o) => LaunchGeneration(r, a)' BY <2>4, LaunchGenerationKept
  <2>6. o.state = "committed" /\ ~Undispatched(o) => o.result.outcome \in LaunchOutcomes
    BY <1>1, <2>1 DEF CurrentLaunchRelation, LaunchRelations
  <2> QED BY <1>2, <2>1, <2>2, <2>3, <2>5, <2>6 DEF LaunchRelations, Undispatched,
    Cancelled, LaunchOutcomes
<1> QED BY <1>1, <1>2, <1>3 DEF CurrentLaunchRelation, LaunchPointer

LEMMA StepHistory ==
    ASSUME AuthorityInv, NEW i \in OpId, Step(i)
    PROVE  HistoryKept
<1>0. TypedInv BY DEF AuthorityInv
<1> USE DEF HistoryKept
<1>1. ASSUME NEW r, ReserveOperation(i, r) PROVE HistoryKept
  BY <1>0, <1>1, ReserveWrites DEF Reserves, Inserts
<1>2. CASE RenewWriterLease(i) BY <1>0, <1>2, RenewWrites DEF Renews, Inserts
<1>3. CASE Dispatch(i) BY <1>0, <1>3, DispatchWrites DEF Dispatches, Starts
<1>4. CASE MarkOperationUncertain(i) BY <1>0, <1>4, UncertainWrites DEF Doubts
<1>5. CASE Settle(i)
  <2>1. PICK d \in Snapshots : \E result : Settles(i, result, d) BY <1>5, SettleWrites
  <2>2. PICK result : Settles(i, result, d) BY <2>1
  <2>3. CASE SettlesAlone(i, result, d)
    BY <2>2, <2>3 DEF Settles, SettlesAlone, Commits, Dispatched
  <2>4. CASE SettlesOver(i, result, d)
    <3>1. PICK j : j = ops[i].request.intent
      OBVIOUS
    <3>2. ops[j].state = "absent" /\ \A k \in OpId \ {i, j} : ops'[k] = ops[k]
      BY <2>4, <3>1 DEF SettlesOver, HandsOver
    <3> QED BY <2>2, <3>2 DEF Settles, Dispatched
  <2> QED BY <2>2, <2>3, <2>4 DEF Settles
<1>6. CASE CancelPreparedOperation(i) BY <1>0, <1>6, CancelWrites DEF Commits, Cancellable
<1> QED BY <1>1, <1>2, <1>3, <1>4, <1>5, <1>6 DEF Step

--------------------------------------------------------------------------------
(* Reservations. *)

LEMMA ReservationNext ==
    ASSUME NEW k
    PROVE  ReservationRelation(k)' <=>
             reservations'[k] = IF ops'[k].state = "committed" THEN "released"
                                ELSE ops'[k].state
BY DEF ReservationRelation

LEMMA PhaseReserved ==
    ASSUME TypedInv, Reserved, NEW i \in OpId, NEW o, NEW phase,
           ops' = [ops EXCEPT ![i] = o], reservations' = [reservations EXCEPT ![i] = phase],
           phase = IF o.state = "committed" THEN "released" ELSE o.state
    PROVE  Reserved'
<1>1. ops'[i] = o /\ reservations'[i] = phase BY DEF TypedInv, TypedRows
<1>2. \A k \in OpId \ {i} : ops'[k] = ops[k] /\ reservations'[k] = reservations[k]
  BY DEF TypedInv, TypedRows
<1> QED BY <1>1, <1>2, ReservationNext DEF Reserved, ReservationRelation

LEMMA StartReserved ==
    ASSUME TypedInv, Reserved, NEW i \in OpId, NEW d, Start(i, d)
    PROVE  Reserved'
<1>1. PICK o : o = [ops[i] EXCEPT !.state = "starting", !.revision = 1]
  OBVIOUS
<1>2. o.state = "starting" BY <1>1 DEF TypedInv, TypedRows, Operations
<1>3. ops' = [ops EXCEPT ![i] = o] /\ reservations' = [reservations EXCEPT ![i] = "starting"]
  BY <1>1 DEF Start
<1> QED BY <1>2, <1>3, PhaseReserved

LEMMA CommitReserved ==
    ASSUME TypedInv, Reserved, NEW i \in OpId, NEW result, NEW d, Commit(i, result, d)
    PROVE  Reserved'
<1>1. PICK o : o = CommittedRow(ops[i], result)
  OBVIOUS
<1>2. o.state = "committed" BY <1>1 DEF TypedInv, TypedRows, Operations, CommittedRow
<1>3. ops' = [ops EXCEPT ![i] = o] /\ reservations' = [reservations EXCEPT ![i] = "released"]
  BY <1>1 DEF Commit
<1> QED BY <1>2, <1>3, PhaseReserved

LEMMA HandoffReserved ==
    ASSUME TypedInv, Reserved, NEW i \in OpId, NEW result, NEW d, NEW j, NEW r,
           CommitAndReserve(i, result, d, j, r)
    PROVE  Reserved'
<1>1. PICK o : o = CommittedRow(ops[i], result)
  OBVIOUS
<1>2. PICK n : n = PreparedRow(r, Settled(d, i, o))
  OBVIOUS
<1>3. o.state = "committed" /\ n.state = "prepared"
  BY <1>1, <1>2 DEF TypedInv, TypedRows, Operations, CommittedRow, PreparedRow
<1>4. /\ ops' = [ops EXCEPT ![i] = o, ![j] = n]
      /\ reservations' = [reservations EXCEPT ![i] = "released", ![j] = "prepared"]
  BY <1>1, <1>2 DEF CommitAndReserve
<1>5. /\ j \in OpId => ops'[j] = n /\ reservations'[j] = "prepared"
      /\ j # i => ops'[i] = o /\ reservations'[i] = "released"
      /\ \A k \in OpId \ {i, j} : ops'[k] = ops[k] /\ reservations'[k] = reservations[k]
  BY <1>4 DEF TypedInv, TypedRows
<1>6. ASSUME NEW k \in OpId PROVE ReservationRelation(k)'
  BY <1>3, <1>5, ReservationNext DEF Reserved, ReservationRelation
<1> QED BY <1>6 DEF Reserved

LEMMA StepReserved ==
    ASSUME TypedInv, Reserved, NEW i \in OpId, Step(i)
    PROVE  Reserved'
<1>1. ASSUME NEW r, ReserveOperation(i, r) PROVE Reserved'
  <2>1. PICK o : o = PreparedRow(r, session)
    OBVIOUS
  <2>2. /\ ops' = [ops EXCEPT ![i] = o] /\ o.state = "prepared"
        /\ reservations' = [reservations EXCEPT ![i] = "prepared"]
    BY <1>1, <2>1 DEF ReserveOperation, PreparedRow
  <2> QED BY <2>2, PhaseReserved
<1>2. CASE RenewWriterLease(i)
  <2>1. PICK o : o = RenewalRow(i)
    OBVIOUS
  <2>2. /\ ops' = [ops EXCEPT ![i] = o] /\ o.state = "committed"
        /\ reservations' = [reservations EXCEPT ![i] = "released"]
    BY <1>2, <2>1 DEF RenewWriterLease, RenewalRow, PreparedRow
  <2> QED BY <2>2, PhaseReserved
<1>3. CASE Dispatch(i)
  <2>1. \E d : Start(i, d)
    BY <1>3 DEF Dispatch, ClaimWriterAttachmentDispatch, ClaimWriterReleaseDispatch,
       ClaimWriterForceFenceDispatch, ClaimCheckpointCaptureDispatch,
       ClaimRestoreDestinationGenerationDispatch, ClaimRestoreAttachmentActivationDispatch,
       ClaimWriterLaunchAttemptDispatch, ClaimWriterLaunchStopDispatch,
       ClaimOperationDispatch
  <2> QED BY <2>1, StartReserved
<1>4. CASE MarkOperationUncertain(i)
  <2>1. PICK o : o = [ops[i] EXCEPT !.state = "uncertain", !.revision = 2]
    OBVIOUS
  <2>2. o.state = "uncertain" BY <2>1 DEF TypedInv, TypedRows, Operations
  <2>3. /\ ops' = [ops EXCEPT ![i] = o]
        /\ reservations' = [reservations EXCEPT ![i] = "uncertain"]
    BY <1>4, <2>1 DEF MarkOperationUncertain
  <2> QED BY <2>2, <2>3, PhaseReserved
<1>5. CASE Settle(i)
  <2>1. \/ \E result, d : Commit(i, result, d)
        \/ \E result, d, j, r : CommitAndReserve(i, result, d, j, r)
    BY <1>5 DEF Settle, FinalizeWriterAttachment, FinalizeWriterRelease,
       FinalizeWriterForceFence, FinalizeWriterForceFenceAndReserveAtomicCrashCapture,
       FinalizeWriterOperationBlocked, FinalizeCheckpointCapture,
       FinalizeRestoreDestinationGeneration, FinalizeRestoreGenerationAndReserveLaunch,
       FinalizeActivationAndReserveLaunch, FinalizeWriterLaunchAttempt,
       FinalizeWriterLaunchStop, FinalizeWriterLaunchStopAndReserveCapture
  <2> QED BY <2>1, CommitReserved, HandoffReserved
<1>6. CASE CancelPreparedOperation(i) BY <1>6, CommitReserved DEF CancelPreparedOperation
<1> QED BY <1>1, <1>2, <1>3, <1>4, <1>5, <1>6 DEF Step

--------------------------------------------------------------------------------
(* Requests. *)

\* What the validator of its kind says of a request.
Admitted(i, r) ==
    /\ r.kind # "atomic-crash-capture"
    /\ <<r.kind, r.version>> \in HandoffContracts => r.intent \in OpId \ {i}
    /\ r.kind \in MintingKinds => Detached
    /\ r.kind = "writer-release" => Attached /\ session.launch = NoLaunch
    /\ r.kind \in AttachedKinds => Attached
    /\ r.kind = "writer-launch-stop" => session.launch # NoLaunch

LEMMA RequestAdmitted ==
    ASSUME NEW i \in OpId, NEW r \in RequestsOf(i),
           r.kind = "writer-launch-stop" => StopNamesItself(i, r)
    PROVE  Admitted(i, r)
<1> USE DEF Admitted, HandoffContracts, HandoffToTypedOperation, MintingKinds, AttachedKinds
<1>0. \A kind : Intended(kind) \subseteq OpId BY DEF Intended
<1>1. CASE r \in AcquireRequests BY <1>1 DEF AcquireRequests, NoRequest
<1>2. CASE r \in ReleaseRequests BY <1>2 DEF ReleaseRequests, NoRequest
<1>3. CASE r \in FenceRequests(i)
  <2>1. /\ r.kind = "writer-force-fence"
        /\ r.version = 1 \/ r.intent \notin {i, None}
        /\ r.intent \in Intended("atomic-crash-capture") \cup {None}
    BY <1>3 DEF FenceRequests
  <2> QED BY <1>0, <2>1
<1>4. CASE r \in CaptureRequests BY <1>4 DEF CaptureRequests
<1>5. CASE r \in GenerationRequests(i)
  <2>1. /\ r.kind = "restore-generation" /\ Attached
        /\ r.version = 1 \/ r.intent \notin {i, None}
        /\ r.intent \in Intended("writer-launch-attempt") \cup {None}
    BY <1>5 DEF GenerationRequests
  <2> QED BY <1>0, <2>1
<1>6. CASE r \in ActivationRequests(i)
  <2>1. /\ r.kind = "restore-activation" /\ Detached
        /\ r.intent \in Intended("writer-launch-attempt") \ {i}
    BY <1>6 DEF ActivationRequests
  <2> QED BY <1>0, <2>1
<1>7. CASE r \in LaunchRequests BY <1>7 DEF LaunchRequests
<1>8. CASE r \in StopRequests(i)
  <2>1. /\ r.kind = "writer-launch-stop" /\ Attached /\ session.launch # NoLaunch
        /\ r.version = 3 => r.intent # None
        /\ r.intent \in Intended("checkpoint-capture") \cup {None}
    BY <1>8 DEF StopRequests
  <2>2. r.version = 3 => r.intent # i BY <2>1 DEF StopNamesItself
  <2> QED BY <1>0, <2>1, <2>2
<1>9. CASE r = NoRequest BY <1>9 DEF NoRequest
<1> QED BY <1>1, <1>2, <1>3, <1>4, <1>5, <1>6, <1>7, <1>8, <1>9 DEF RequestsOf

\* What a reservation that leaves its request sound was told by the validators.
LEMMA ReserveFacts ==
    ASSUME TypedInv, RequestsSound', NEW i \in OpId, NEW r \in RequestsOf(i),
           ReserveOperation(i, r)
    PROVE  /\ Admitted(i, r)
           /\ r.kind = "writer-launch-stop" => StopNamesItself(i, r)
           /\ claims[i] = NoClaim \/ claims[i].type = "stable-plan"
           /\ claims[i] = NoClaim \/ r.kind = "restore-generation"
           /\ r.kind = "writer-force-fence" => FenceTargetSource(r, session)
           /\ session.lifecycle = "BLOCKED" => r.kind = "writer-force-fence"
<1>1. Reserves(i, r) BY ReserveWrites
<1>2. ops'[i].request = r /\ session'.active.id = i
  BY <1>1 DEF Reserves, Inserts, PreparedRow
<1>3. RequestSound(i)' BY <1>2 DEF RequestsSound, Read
<1>4. r.kind = "writer-launch-stop" => StopNamesItself(i, r)
  BY <1>2, <1>3 DEF RequestSound, StopNamesItself, Contract
<1>5. Admitted(i, r) BY <1>4, RequestAdmitted
<1> QED BY <1>4, <1>5 DEF ReserveOperation

--------------------------------------------------------------------------------
(* The identifiers that operations hand over to. *)

LEMMA StepIntents ==
    ASSUME RequestsSound', AuthorityInv, IntentsFit, NEW i \in OpId, Step(i)
    PROVE  IntentsFit'
<1>0. TypedInv BY DEF AuthorityInv
<1>s. ASSUME SameOperation(i), \A k \in OpId \ {i} : ops'[k] = ops[k] PROVE IntentsFit'
  BY <1>s DEF IntentsFit, SameOperation, Contract
<1>n. ASSUME NEW o, ops'[i] = o, \A k \in OpId \ {i} : ops'[k] = ops[k],
             <<o.request.kind, o.request.version>> \in HandoffContracts =>
               o.request.intent \in OpId \ {i}
      PROVE  IntentsFit'
  BY <1>n DEF IntentsFit, Contract
<1>1. ASSUME NEW r \in RequestsOf(i), ReserveOperation(i, r) PROVE IntentsFit'
  <2>1. Reserves(i, r) BY <1>0, <1>1, ReserveWrites
  <2>2. /\ ops'[i] = PreparedRow(r, session) /\ \A k \in OpId \ {i} : ops'[k] = ops[k]
        /\ PreparedRow(r, session).request = r
    BY <2>1 DEF Reserves, Inserts, PreparedRow
  <2>3. Admitted(i, r) BY <1>0, <1>1, ReserveFacts
  <2> QED BY <1>n, <2>2, <2>3 DEF Admitted
<1>2. CASE RenewWriterLease(i)
  <2>1. Renews(i) BY <1>0, <1>2, RenewWrites
  <2>2. ops'[i] = RenewalRow(i) /\ \A k \in OpId \ {i} : ops'[k] = ops[k]
    BY <2>1 DEF Renews, Inserts
  <2>3. RenewalRow(i).request.kind = "writer-lease-renew"
    BY DEF RenewalRow, PreparedRow, NoRequest
  <2> QED BY <1>n, <2>2, <2>3 DEF HandoffContracts, HandoffToTypedOperation
<1>3. CASE Dispatch(i)
  <2>1. PICK d \in Snapshots : Dispatches(i, d) BY <1>0, <1>3, DispatchWrites
  <2> QED BY <1>s, <2>1 DEF Dispatches, Starts
<1>4. CASE MarkOperationUncertain(i) BY <1>0, <1>4, <1>s, UncertainWrites DEF Doubts
<1>5. CASE Settle(i)
  <2>1. PICK d \in Snapshots : \E result : Settles(i, result, d) BY <1>5, SettleWrites
  <2>2. PICK result : Settles(i, result, d) BY <2>1
  <2>3. CASE SettlesAlone(i, result, d) BY <1>s, <2>3 DEF SettlesAlone, Commits
  <2>4. CASE SettlesOver(i, result, d)
    <3>1. PICK j : j = ops[i].request.intent
      OBVIOUS
    <3>2. /\ SameOperation(i) /\ ops'[j].request = HandoffRequest(i)
          /\ \A k \in OpId \ {i, j} : ops'[k] = ops[k]
      BY <2>4, <3>1 DEF SettlesOver, HandsOver
    <3>3. Contract(ops'[j]) \notin HandoffContracts
      BY <3>2, HandoffNamesNone DEF Contract, HandoffContracts, HandoffToTypedOperation
    <3> QED BY <3>2, <3>3 DEF IntentsFit, SameOperation, Contract
  <2> QED BY <2>2, <2>3, <2>4 DEF Settles
<1>6. CASE CancelPreparedOperation(i) BY <1>0, <1>6, <1>s, CancelWrites DEF Commits
<1> QED BY <1>1, <1>2, <1>3, <1>4, <1>5, <1>6 DEF Step


--------------------------------------------------------------------------------
(* The registry of identifiers. *)

\* What an operation has done it does not undo.
Forward(k) ==
    ops[k].state # "absent" =>
        /\ ops'[k].state # "absent" /\ SameOperation(k)
        /\ Undispatched(ops'[k]) => Undispatched(ops[k])

LEMMA SettleOutcome ==
    ASSUME NEW i, NEW result, NEW d, SettleDocument(i, result, d)
    PROVE  result.outcome # "cancelled-before-dispatch"
BY DEF SettleDocument, WriterResult, FencedResult, Outcome, NoResult, LaunchOutcomes

LEMMA StepForward ==
    ASSUME AuthorityInv, NEW i \in OpId, Step(i)
    PROVE  \A k \in OpId : Forward(k)
<1>0. TypedInv BY DEF AuthorityInv
<1> USE DEF Forward, SameOperation
<1>s. ASSUME NEW k \in OpId, ops'[k] = ops[k] PROVE Forward(k)
  BY <1>s
<1>1. ASSUME NEW r, ReserveOperation(i, r) PROVE \A k \in OpId : Forward(k)
  BY <1>0, <1>1, <1>s, ReserveWrites DEF Reserves, Inserts
<1>2. CASE RenewWriterLease(i) BY <1>0, <1>2, <1>s, RenewWrites DEF Renews, Inserts
<1>3. CASE Dispatch(i)
  <2>1. PICK d \in Snapshots : Dispatches(i, d) BY <1>0, <1>3, DispatchWrites
  <2>2. Forward(i) BY <2>1 DEF Dispatches, Starts, Undispatched, Cancelled
  <2> QED BY <1>s, <2>1, <2>2 DEF Dispatches, Starts
<1>4. CASE MarkOperationUncertain(i)
  <2>1. Doubts(i) BY <1>0, <1>4, UncertainWrites
  <2>2. Forward(i) BY <2>1 DEF Doubts, Undispatched, Cancelled
  <2> QED BY <1>s, <2>1, <2>2 DEF Doubts
<1>5. CASE Settle(i)
  <2>1. PICK d \in Snapshots : \E result : Settles(i, result, d) BY <1>5, SettleWrites
  <2>2. PICK result : Settles(i, result, d) BY <2>1
  <2>3. result.outcome # "cancelled-before-dispatch" BY <2>2, SettleOutcome DEF Settles
  <2>4. CASE SettlesAlone(i, result, d)
    <3>1. Forward(i) BY <2>3, <2>4 DEF SettlesAlone, Commits, Undispatched, Cancelled
    <3> QED BY <1>s, <2>4, <3>1 DEF SettlesAlone, Commits
  <2>5. CASE SettlesOver(i, result, d)
    <3>1. PICK j : j = ops[i].request.intent
      OBVIOUS
    <3>2. ops[j].state = "absent" /\ HandsOver(i, result, d, j, HandoffRequest(i))
      BY <2>5, <3>1 DEF SettlesOver
    <3>3. Forward(i) BY <2>3, <3>2 DEF HandsOver, Undispatched, Cancelled
    <3> QED BY <1>s, <3>2, <3>3 DEF HandsOver
  <2> QED BY <2>2, <2>4, <2>5 DEF Settles
<1>6. CASE CancelPreparedOperation(i)
  <2>1. Cancellable(i) /\ Commits(i, Outcome("cancelled-before-dispatch"), session)
    BY <1>0, <1>6, CancelWrites
  <2>2. Forward(i) BY <2>1 DEF Commits, Cancellable, Undispatched
  <2> QED BY <1>s, <2>1, <2>2 DEF Commits
<1> QED BY <1>1, <1>2, <1>3, <1>4, <1>5, <1>6 DEF Step

\* Claims of whoever has been dispatched stay valid.
LEMMA ClaimantsForward ==
    ASSUME IntentClaims, \A k \in OpId : Forward(k),
           NEW m \in OpId, NEW k \in OpId \ {m}, claims'[k].claimant = m,
           claims[k].claimant = m
    PROVE  /\ ops'[m].state # "absent" /\ ~Undispatched(ops'[m])
           /\ ops'[m].request.intent = k
BY DEF IntentClaims, Forward, SameOperation

\* A step that makes no new claim for another operation.
LEMMA QuietClaims ==
    ASSUME IntentClaims, \A k \in OpId : Forward(k),
           \A k \in OpId : claims'[k].claimant \in {k, claims[k].claimant}
    PROVE  IntentClaims'
<1> SUFFICES ASSUME NEW m \in OpId, NEW k \in OpId \ {m}, claims'[k].claimant = m
             PROVE  /\ ops'[m].state # "absent" /\ ~Undispatched(ops'[m])
                    /\ ops'[m].request.intent = k
  BY DEF IntentClaims
<1>1. claims[k].claimant = m
  OBVIOUS
<1> QED BY <1>1, ClaimantsForward

\* A dispatch claims the identifier of the operation it will hand over to.
LEMMA DispatchClaiming ==
    ASSUME TypedInv, IntentsFit, IntentClaims, NEW i \in OpId, NEW d, Dispatches(i, d),
           \A k \in OpId : Forward(k), Contract(ops[i]) \in HandoffContracts
    PROVE  IntentClaims'
<1>1. PICK j : j = ops[i].request.intent
  OBVIOUS
<1>2. j \in OpId \ {i} BY <1>1 DEF IntentsFit
<1>3. PICK type : claims' = ClaimFor(j, type, i) BY <1>1 DEF Dispatches, DispatchClaims
<1>4. /\ claims'[j] = [type |-> type, claimant |-> i, materialized |-> FALSE]
      /\ \A k \in OpId \ {j} : claims'[k] = claims[k]
  BY <1>2, <1>3 DEF ClaimFor, TypedInv
<1>5. ops'[i].state = "starting" /\ SameOperation(i)
  BY DEF Dispatches, Starts
<1> SUFFICES ASSUME NEW m \in OpId, NEW k \in OpId \ {m}, claims'[k].claimant = m
             PROVE  /\ ops'[m].state # "absent" /\ ~Undispatched(ops'[m])
                    /\ ops'[m].request.intent = k
  BY DEF IntentClaims
<1>6. CASE k = j
  <2>1. m = i BY <1>4, <1>6
  <2> QED BY <1>1, <1>5, <1>6, <2>1 DEF SameOperation, Undispatched, Cancelled
<1>7. CASE k # j BY <1>4, <1>7, ClaimantsForward
<1> QED BY <1>6, <1>7

LEMMA StepClaims ==
    ASSUME AuthorityInv, IntentsFit, IntentClaims, NEW i \in OpId, Step(i)
    PROVE  IntentClaims'
<1>0. TypedInv BY DEF AuthorityInv
<1>f. \A k \in OpId : Forward(k) BY StepForward
<1>q. ASSUME claims' = claims PROVE IntentClaims'
  BY <1>f, <1>q, QuietClaims
<1>i. ASSUME \A k \in OpId \ {i} : claims'[k] = claims[k],
             claims'[i].claimant \in {i, claims[i].claimant}
      PROVE  IntentClaims'
  BY <1>f, <1>i, QuietClaims
<1>1. ASSUME NEW r \in RequestsOf(i), ReserveOperation(i, r) PROVE IntentClaims'
  <2>1. Reserves(i, r) BY <1>0, <1>1, ReserveWrites
  <2>2. \A k \in OpId \ {i} : claims'[k] = claims[k] BY <2>1 DEF Reserves, Inserts
  <2>3. claims'[i].claimant \in {i, claims[i].claimant}
    BY <1>0, <1>1 DEF ReserveOperation, TypedInv, Claims
  <2> QED BY <1>i, <2>2, <2>3
<1>2. CASE RenewWriterLease(i)
  <2>1. Renews(i) BY <1>0, <1>2, RenewWrites
  <2>2. \A k \in OpId \ {i} : claims'[k] = claims[k] BY <2>1 DEF Renews, Inserts
  <2>3. claims'[i].claimant = i BY <1>0, <1>2 DEF RenewWriterLease, TypedInv
  <2> QED BY <1>i, <2>2, <2>3
<1>3. CASE Dispatch(i)
  <2>1. PICK d \in Snapshots : Dispatches(i, d) BY <1>0, <1>3, DispatchWrites
  <2>2. CASE Contract(ops[i]) \in HandoffContracts
    BY <1>0, <1>f, <2>1, <2>2, DispatchClaiming
  <2>3. CASE Contract(ops[i]) \notin HandoffContracts
    BY <1>q, <2>1, <2>3 DEF Dispatches, DispatchClaims
  <2> QED BY <2>2, <2>3
<1>4. CASE MarkOperationUncertain(i) BY <1>0, <1>4, <1>q, UncertainWrites DEF Doubts
<1>5. CASE Settle(i)
  <2>1. PICK d \in Snapshots : \E result : Settles(i, result, d) BY <1>5, SettleWrites
  <2>2. PICK result : Settles(i, result, d) BY <2>1
  <2>3. CASE SettlesAlone(i, result, d) BY <1>q, <2>3 DEF SettlesAlone
  <2>4. CASE SettlesOver(i, result, d)
    <3>1. PICK j : j = ops[i].request.intent
      OBVIOUS
    <3>2. /\ j \in OpId
          /\ claims' = [claims EXCEPT ![j] = [claims[j] EXCEPT !.materialized = TRUE]]
      BY <2>4, <3>1 DEF SettlesOver, ClaimedBy
    <3>3. \A k \in OpId : claims'[k].claimant = claims[k].claimant
      BY <1>0, <3>2 DEF TypedInv, Claims
    <3> QED BY <1>f, <3>3, QuietClaims
  <2> QED BY <2>2, <2>3, <2>4 DEF Settles
<1>6. CASE CancelPreparedOperation(i) BY <1>0, <1>6, <1>q, CancelWrites DEF Commits
<1> QED BY <1>1, <1>2, <1>3, <1>4, <1>5, <1>6 DEF Step

--------------------------------------------------------------------------------
(* The session that an active operation found. *)

LEMMA FitsNone ==
    ASSUME session'.active.id = None
    PROVE  ActiveFits'
BY NoneAssumption DEF ActiveFits

LEMMA FitsSame ==
    ASSUME ActiveFits, NEW i \in OpId, session.active.id = i, session'.active.id = i,
           SameOperation(i),
           ops[i].request.kind \in AttachedKinds => session'.lifecycle = session.lifecycle
    PROVE  ActiveFits'
BY DEF ActiveFits, SameOperation, Attached, NoWriter

LEMMA FitsNew ==
    ASSUME NEW i \in OpId, session'.active.id = i,
           ops'[i].request.kind \in MintingKinds => NoWriter(ops'[i].expected),
           ops'[i].request.kind = "writer-release" => ops'[i].expected.launch = NoLaunch,
           ops'[i].request.kind \in AttachedKinds => session'.lifecycle = "ATTACHED"
    PROVE  ActiveFits'
BY DEF ActiveFits, Attached, NoWriter

LEMMA StepFits ==
    ASSUME RequestsSound', AuthorityInv, SessionReadable, ActiveFits, NEW i \in OpId, Step(i)
    PROVE  ActiveFits'
<1>0. TypedInv BY DEF AuthorityInv
<1>1. ASSUME NEW r \in RequestsOf(i), ReserveOperation(i, r) PROVE ActiveFits'
  <2>1. Reserves(i, r) BY <1>0, <1>1, ReserveWrites
  <2>2. /\ session'.active.id = i /\ session'.lifecycle = session.lifecycle
        /\ ops'[i].request = r /\ ops'[i].expected = session
    BY <2>1 DEF Reserves, Inserts, PreparedRow, Shows
  <2>3. Admitted(i, r) BY <1>0, <1>1, ReserveFacts
  <2>4. Detached => NoWriter(session) BY ReadableDocument DEF Detached
  <2> QED BY <2>2, <2>3, <2>4, FitsNew DEF Admitted, Attached
<1>2. CASE RenewWriterLease(i) BY <1>0, <1>2, RenewWrites, FitsNone DEF Renews
<1>3. CASE Dispatch(i)
  <2>1. PICK d \in Snapshots : Dispatches(i, d) BY <1>0, <1>3, DispatchWrites
  <2>2. /\ session.active.id = i /\ session'.active.id = i /\ SameOperation(i)
        /\ session'.lifecycle = d.lifecycle
    BY <2>1 DEF Dispatches, Starts, Shows
  <2>3. ops[i].request.kind \in AttachedKinds => d.lifecycle = session.lifecycle
    BY <2>1 DEF Dispatches, DispatchDocument, AttachedKinds, MintingKinds
  <2> QED BY <2>2, <2>3, FitsSame
<1>4. CASE MarkOperationUncertain(i)
  BY <1>0, <1>4, UncertainWrites, FitsSame DEF Doubts, Shows
<1>5. CASE Settle(i)
  <2>1. PICK d \in Snapshots : \E result : Settles(i, result, d) BY <1>5, SettleWrites
  <2>2. PICK result : Settles(i, result, d) BY <2>1
  <2>3. CASE SettlesAlone(i, result, d) BY <2>3, FitsNone DEF SettlesAlone, Commits
  <2>4. CASE SettlesOver(i, result, d)
    <3>1. PICK j : j = ops[i].request.intent
      OBVIOUS
    <3>2. /\ j \in OpId /\ session'.active.id = j /\ ops'[j].request = HandoffRequest(i)
          /\ session'.lifecycle = d.lifecycle /\ Contract(ops[i]) \in HandoffContracts
      BY <2>4, <3>1 DEF SettlesOver, ClaimedBy, HandsOver, Shows
    <3>3. ops'[j].request.kind \notin MintingKinds \cup {"writer-release"}
      BY <3>2 DEF HandoffRequest, LaunchHandoffRequest, CaptureHandoffRequest,
         AtomicHandoffRequest, NoRequest, MintingKinds
    <3>4. ops'[j].request.kind \in AttachedKinds =>
            ops[i].request.kind \in {"restore-generation", "restore-activation",
                                     "writer-launch-stop"}
      <4>1. AtomicHandoffRequest(i).kind = "atomic-crash-capture"
        BY DEF AtomicHandoffRequest, NoRequest
      <4> QED BY <3>2, <4>1 DEF HandoffRequest, AttachedKinds
    <3>5. ops[i].request.kind \in {"restore-generation", "writer-launch-stop"} =>
            session.lifecycle = "ATTACHED"
      BY <2>2 DEF Settles, ActiveFits, AttachedKinds, Attached
    <3>6. ops[i].request.kind \in {"restore-generation", "restore-activation",
                                   "writer-launch-stop"} => d.lifecycle = "ATTACHED"
      <4>0. session \in Snapshots BY <1>0 DEF TypedInv, TypedRows
      <4>1. CASE ops[i].request.kind = "restore-activation"
        BY <2>2, <4>0, <4>1, DocumentFields DEF Settles, SettleDocument, MintingKinds,
           WriterKinds
      <4>2. CASE ops[i].request.kind = "restore-generation"
        BY <2>2, <3>5, <4>2 DEF Settles, SettleDocument, MintingKinds, WriterKinds
      <4>3. CASE ops[i].request.kind = "writer-launch-stop"
        <5>1. d = WriterStopped
          BY <2>2, <4>3 DEF Settles, SettleDocument, MintingKinds, WriterKinds
        <5> QED BY <3>5, <4>0, <4>3, <5>1, DocumentFields
      <4> QED BY <4>1, <4>2, <4>3
    <3> QED BY <3>2, <3>3, <3>4, <3>6, FitsNew
  <2> QED BY <2>2, <2>3, <2>4 DEF Settles
<1>6. CASE CancelPreparedOperation(i) BY <1>0, <1>6, CancelWrites, FitsNone DEF Commits
<1> QED BY <1>1, <1>2, <1>3, <1>4, <1>5, <1>6 DEF Step

--------------------------------------------------------------------------------
(* What the readers find of an operation that stays as it is. *)

\* Identifiers that are claimed stay as they are.
ClaimsSettle ==
    \A m \in OpId : (claims[m] # NoClaim /\ claims[m].type # "stable-plan") =>
        claims'[m] = claims[m]

\* The operation stays in its phase, or is marked uncertain.
Lasting(k) ==
    /\ SameOperation(k) /\ ops'[k].result = ops[k].result
    /\ \/ ops'[k].state = ops[k].state
       \/ ops[k].state = "starting" /\ ops'[k].state = "uncertain"

LEMMA ClaimKept ==
    ASSUME ClaimsSettle, NEW j, NEW type, type \notin {"free", "stable-plan"}, NEW k,
           NEW b, ClaimedBy(j, type, k, b)
    PROVE  ClaimedBy(j, type, k, b)'
<1>1. claims[j] # NoClaim /\ claims[j].type # "stable-plan" /\ j \in OpId
  BY DEF ClaimedBy, NoClaim
<1> QED BY <1>1 DEF ClaimedBy, ClaimsSettle

LEMMA LastingPhases ==
    ASSUME NEW k \in OpId, Lasting(k)
    PROVE  /\ Undispatched(ops'[k]) <=> Undispatched(ops[k])
           /\ Cancelled(ops'[k]) <=> Cancelled(ops[k])
           /\ ops'[k].state = "committed" <=> ops[k].state = "committed"
           /\ \A outcome : Committed(k, outcome)' <=> Committed(k, outcome)
           /\ ops'[k].request = ops[k].request /\ ops'[k].expected = ops[k].expected
BY DEF Lasting, SameOperation, Undispatched, Cancelled, Committed

LEMMA GenerationKept ==
    ASSUME HistoryKept, ClaimsSettle, NEW k \in OpId, Lasting(k), GenerationRelations(k)
    PROVE  GenerationRelations(k)'
<1> SUFFICES ASSUME ~Undispatched(ops'[k]) PROVE GenerationRelations(k)'
  BY DEF GenerationRelations
<1>1. PICK r : r = ops[k].request
  OBVIOUS
<1>2. PICK b \in BOOLEAN : b = (ops[k].state = "committed")
  OBVIOUS
<1>3. /\ Committed(r.source, "checkpoint-captured")
      /\ ops[k].state = "committed" => Committed(k, "restore-generation-committed")
      /\ r.version = 2 => ClaimedBy(r.intent, "restore-launch-intent", k, b)
  BY <1>1, <1>2, LastingPhases DEF GenerationRelations
<1>4. /\ Committed(r.source, "checkpoint-captured")'
      /\ r.version = 2 => ClaimedBy(r.intent, "restore-launch-intent", k, b)'
  BY <1>3, CommittedKept, ClaimKept
<1> QED BY <1>1, <1>2, <1>3, <1>4, LastingPhases DEF GenerationRelations

LEMMA ActivationKept ==
    ASSUME HistoryKept, ClaimsSettle, NEW k \in OpId, Lasting(k), ActivationRelations(k)
    PROVE  ActivationRelations(k)'
<1>1. PICK r : r = ops[k].request
  OBVIOUS
<1>2. PICK b \in BOOLEAN : b = (ops[k].state = "committed")
  OBVIOUS
<1>3. PICK x : x = ops[k].expected
  OBVIOUS
<1>4. /\ ~Cancelled(ops[k]) => ActivationCore(r, x)
      /\ ~Undispatched(ops[k]) =>
           /\ ClaimedBy(r.intent, "activation-launch-intent", k, b)
           /\ ops[k].state = "committed" => Committed(k, "restore-attachment-activated")
  BY <1>1, <1>2, <1>3 DEF ActivationRelations
<1>5. /\ ~Cancelled(ops[k]) => ActivationCore(r, x)'
      /\ ~Undispatched(ops[k]) => ClaimedBy(r.intent, "activation-launch-intent", k, b)'
  BY <1>4, CoreKept, ClaimKept
<1> QED BY <1>1, <1>2, <1>3, <1>4, <1>5, LastingPhases DEF ActivationRelations

LEMMA LaunchKept ==
    ASSUME HistoryKept, NEW k \in OpId, Lasting(k), LaunchRelations(k)
    PROVE  LaunchRelations(k)'
<1>1. PICK r : r = ops[k].request
  OBVIOUS
<1>2. PICK a : a = ops[k].expected.attachment
  OBVIOUS
<1>3. ~Undispatched(ops[k]) =>
        /\ LaunchGeneration(r, a)
        /\ ops[k].state = "committed" => ops[k].result.outcome \in LaunchOutcomes
  BY <1>1, <1>2 DEF LaunchRelations
<1>4. ~Undispatched(ops[k]) => LaunchGeneration(r, a)' BY <1>3, LaunchGenerationKept
<1>5. ops'[k].result = ops[k].result BY DEF Lasting
<1> QED BY <1>1, <1>2, <1>3, <1>4, <1>5, LastingPhases DEF LaunchRelations, LaunchOutcomes

LEMMA StopKept ==
    ASSUME HistoryKept, ClaimsSettle, NEW k \in OpId, RequestSound(k)', Lasting(k),
           ops[k].request.kind = "writer-launch-stop",
           ops[k].state # "committed" => session'.launch = session.launch, StopRelations(k)
    PROVE  StopRelations(k)'
<1>1. PICK r : r = ops[k].request
  OBVIOUS
<1>2. PICK b \in BOOLEAN : b = (ops[k].state = "committed")
  OBVIOUS
<1>3. PICK x : x = ops[k].expected
  OBVIOUS
<1>4. /\ StopNamesItself(k, r) /\ x.launch # NoLaunch /\ CurrentLaunchRelation(x)
      /\ (r.version = 3 /\ ~Undispatched(ops[k])) =>
           ClaimedBy(r.intent, "stop-capture-intent", k, b)
      /\ IF b THEN Cancelled(ops[k]) \/ Committed(k, "writer-launch-stopped")
              ELSE session.launch = x.launch
  BY <1>1, <1>2, <1>3 DEF StopRelations
<1>5. /\ CurrentLaunchRelation(x)'
      /\ (r.version = 3 /\ ~Undispatched(ops[k])) =>
           ClaimedBy(r.intent, "stop-capture-intent", k, b)'
  BY <1>4, CurrentLaunchKept, ClaimKept
<1>6. (r.version = 3 /\ Undispatched(ops'[k])) => claims'[r.intent] = NoClaim
  BY <1>1, LastingPhases DEF RequestSound, Contract
<1>7. StopNamesItself(k, r)' BY <1>4 DEF StopNamesItself
<1> QED BY <1>1, <1>2, <1>3, <1>4, <1>5, <1>6, <1>7, LastingPhases DEF StopRelations

\* A fence that was never dispatched has claimed nothing.
LEMMA FenceUnclaimed ==
    ASSUME IntentClaims', IntentsFit', NEW k \in OpId,
           ops'[k].request.kind = "writer-force-fence",
           ops'[k].request.version = 2, Undispatched(ops'[k])
    PROVE  claims'[ops'[k].request.intent].claimant # k
<1>1. PICK j : j = ops'[k].request.intent
  OBVIOUS
<1>2. j \in OpId \ {k} BY <1>1 DEF IntentsFit, Contract, HandoffContracts
<1> QED BY <1>1, <1>2 DEF IntentClaims

LEMMA FenceKept ==
    ASSUME HistoryKept, ClaimsSettle, IntentClaims', IntentsFit', NEW k \in OpId, Lasting(k),
           ops[k].request.kind = "writer-force-fence", FenceRelations(k)
    PROVE  FenceRelations(k)'
<1>1. PICK r : r = ops[k].request
  OBVIOUS
<1>2. PICK b \in BOOLEAN : b = Committed(k, "writer-fenced") BY DEF Committed
<1>3. (r.version = 2 /\ ~Undispatched(ops[k])) =>
        ClaimedBy(r.intent, "fence-capture-intent", k, b)
  BY <1>1, <1>2 DEF FenceRelations
<1>4. (r.version = 2 /\ ~Undispatched(ops[k])) =>
        ClaimedBy(r.intent, "fence-capture-intent", k, b)'
  BY <1>3, ClaimKept
<1>5. (r.version = 2 /\ Undispatched(ops'[k])) => claims'[r.intent].claimant # k
  BY <1>1, LastingPhases, FenceUnclaimed
<1>6. Committed(k, "writer-fenced")' = b
  <2>1. Committed(k, "writer-fenced")' <=> Committed(k, "writer-fenced") BY LastingPhases
  <2> QED BY <1>2, <2>1 DEF Committed
<1>7. (r.version = 2 /\ ~Undispatched(ops[k])) =>
        ClaimedBy(r.intent, "fence-capture-intent", k, Committed(k, "writer-fenced"))'
  BY <1>4, <1>6 DEF ClaimedBy
<1> QED BY <1>1, <1>5, <1>7, LastingPhases DEF FenceRelations

LEMMA AtomicKept ==
    ASSUME HistoryKept, ClaimsSettle, NEW k \in OpId, Lasting(k), AtomicRelations(k)
    PROVE  AtomicRelations(k)'
<1>1. PICK f : f = claims[k].claimant
  OBVIOUS
<1>2. /\ ops[k].state = "prepared" /\ Committed(f, "writer-fenced")
      /\ ClaimedBy(k, "fence-capture-intent", f, TRUE)
      /\ ops[k].expected.last = Pointer(f, ops[f]) /\ ops[k].expected.active = NoPointer
  BY <1>1 DEF AtomicRelations
<1>3. /\ Committed(f, "writer-fenced")' /\ ops'[f] = ops[f]
      /\ ClaimedBy(k, "fence-capture-intent", f, TRUE)'
  BY <1>2, CommittedKept, ClaimKept
<1>4. claims'[k].claimant = f BY <1>3 DEF ClaimedBy
<1>5. ops'[k].state = "prepared" /\ ops'[k].expected = ops[k].expected
  BY <1>2 DEF Lasting, SameOperation
<1> QED BY <1>2, <1>3, <1>4, <1>5 DEF AtomicRelations, Pointer

LEMMA RelationsKept ==
    ASSUME HistoryKept, ClaimsSettle, Reserved', IntentClaims', IntentsFit', RequestsSound',
           NEW k \in OpId, k \in {session'.active.id, session'.last.id}, Lasting(k), Relations(k),
           ops[k].state # "committed" => session'.launch = session.launch
    PROVE  Relations(k)'
<1>1. ops'[k].request = ops[k].request /\ ops'[k].result = ops[k].result
  BY DEF Lasting, SameOperation
<1>2. ReservationRelation(k)' BY DEF Reserved
<1>4. RequestSound(k)' BY DEF RequestsSound, Read
<1>3. CaptureRelations(k) => CaptureRelations(k)' BY LastingPhases DEF CaptureRelations
<1> QED BY <1>1, <1>2, <1>3, <1>4, GenerationKept, ActivationKept, LaunchKept, StopKept,
  FenceKept, AtomicKept DEF Relations

--------------------------------------------------------------------------------
(* What the next reader checks. *)

LEMMA PointerNamed ==
    ASSUME NEW i \in OpId, NEW o
    PROVE  /\ Pointer(i, o) # NoPointer /\ Pointer(i, o).id = i
           /\ Pointer(i, o).kind = o.request.kind /\ Pointer(i, o).state = o.state
           /\ Pointer(i, o).expected = o.expected.revision
           /\ Pointer(i, o).revision = o.revision
BY NoneAssumption DEF Pointer, NoPointer

LEMMA ActiveNext ==
    ASSUME NEW i \in OpId, session'.active = Pointer(i, ops'[i]),
           ops'[i].state \in ActivePhases, ActiveBusiness(session, i, ops[i])', Relations(i)',
           ops'[i].request.kind = "writer-force-fence" =>
             FenceTargetSource(ops[i].request, ops[i].expected)'
    PROVE  ActiveRelations'
<1>1. session'.active # NoPointer /\ session'.active.id = i BY PointerNamed
<1>2. ActivePointerRule(session, i, ops[i])' BY DEF ActivePointerRule, Pointer
<1> QED BY <1>1, <1>2 DEF ActiveRelations

LEMMA InactiveNext ==
    ASSUME session'.active = NoPointer, OneActive', Reserved'
    PROVE  ActiveRelations'
<1>1. session'.active.id \notin OpId BY NoneAssumption DEF NoPointer
<1>2. ASSUME NEW j \in OpId PROVE ops'[j].state \notin ActivePhases
  BY <1>1 DEF OneActive
<1>3. ASSUME NEW j \in OpId PROVE reservations'[j] \notin ActivePhases
  BY <1>2, <1>3, ReservationNext DEF Reserved, ActivePhases
<1> QED BY <1>2, <1>3 DEF ActiveRelations

\* The handoffs that the last operation leaves open.
HandsOff(o) ==
    \/ Contract(o) = <<"writer-launch-stop", 3>> /\ o.result.outcome = "writer-launch-stopped"
    \/ Contract(o) = <<"writer-force-fence", 2>> /\ o.result.outcome = "writer-fenced"

LEMMA TerminalSettled ==
    ASSUME NEW i \in OpId, session'.active = NoPointer, session'.last = Pointer(i, ops'[i]),
           ops'[i].state = "committed", TerminalBusiness(session, ops[i])', Relations(i)',
           ~HandsOff(ops'[i])
    PROVE  TerminalRelations'
<1>1. session'.last # NoPointer /\ session'.last.id = i BY PointerNamed
<1>2. SettledSession' = session' BY DEF SettledSession
<1>3. LastPointerRule(session, i, ops[i])' BY DEF LastPointerRule, Pointer
<1>4. LastPointerRule(SettledSession, i, ops[i])' BY <1>2, <1>3
<1>5. /\ ~(Contract(ops'[i]) = <<"writer-launch-stop", 3>>
             /\ Committed(i, "writer-launch-stopped")')
      /\ ~(Contract(ops'[i]) = <<"writer-force-fence", 2>>
             /\ Committed(i, "writer-fenced")')
  BY DEF HandsOff, Committed
<1> QED BY <1>1, <1>2, <1>4, <1>5 DEF TerminalRelations

LEMMA TerminalKept ==
    ASSUME TerminalRelations, SettledSession' = SettledSession, session'.last = session.last,
           NEW l, l = session.last.id,
           session.last # NoPointer => l \in OpId /\ ops'[l] = ops[l] /\ Relations(l)',
           NEW a, a = session.active.id,
           a # None => /\ session'.active.id = a /\ SameOperation(a)
                       /\ claims[a] # NoClaim => claims'[a] = claims[a]
    PROVE  TerminalRelations'
<1>1. CASE session.last = NoPointer BY <1>1 DEF TerminalRelations
<1>2. CASE session.last # NoPointer
  <2>1. l \in OpId /\ ops'[l] = ops[l] /\ Relations(l)' BY <1>2
  <2>2. PICK x : x = SettledSession
    OBVIOUS
  <2>3. x.last = session.last /\ LastPointerRule(x, l, ops[l])
    BY <1>2, <2>2 DEF TerminalRelations
  <2>4. LastPointerRule(x, l, ops[l])' BY <2>1, <2>3, LastRuleNext
  <2>5. \A outcome : Committed(l, outcome)' <=> Committed(l, outcome) BY <2>1 DEF Committed
  <2>6. ASSUME NEW r, HandedOver(a, l, r), a # None PROVE HandedOver(a, l, r)'
    <3>1. claims[a].materialized BY <2>6 DEF HandedOver
    <3>2. claims[a] # NoClaim BY <3>1 DEF NoClaim
    <3> QED BY <2>1, <2>6, <3>2 DEF HandedOver, SameOperation
  <2>7. ASSUME Contract(ops'[l]) = <<"writer-launch-stop", 3>>,
               Committed(l, "writer-launch-stopped")'
        PROVE  a # None /\ HandedOver(a, l, CaptureHandoffRequest(l))'
    <3>1. PICK r : r = CaptureHandoffRequest(l)
      OBVIOUS
    <3>2. a # None /\ HandedOver(a, l, r)
      BY <1>2, <2>1, <2>5, <2>7, <3>1 DEF TerminalRelations
    <3>3. CaptureHandoffRequest(l)' = r BY <2>1, <3>1 DEF CaptureHandoffRequest
    <3>4. HandedOver(a, l, r)' BY <2>6, <3>2
    <3> QED BY <3>2, <3>3, <3>4
  <2>8. ASSUME Contract(ops'[l]) = <<"writer-force-fence", 2>>,
               Committed(l, "writer-fenced")'
        PROVE  a # None /\ HandedOver(a, l, AtomicHandoffRequest(l))'
    <3>1. PICK r : r = AtomicHandoffRequest(l)
      OBVIOUS
    <3>2. a # None /\ HandedOver(a, l, r)
      BY <1>2, <2>1, <2>5, <2>8, <3>1 DEF TerminalRelations
    <3>3. AtomicHandoffRequest(l)' = r BY <2>1, <3>1 DEF AtomicHandoffRequest
    <3>4. HandedOver(a, l, r)' BY <2>6, <3>2
    <3> QED BY <3>2, <3>3, <3>4
  <2>9. SettledSession' = x /\ session'.last = x.last /\ session'.last.id = l BY <2>2, <2>3
  <2>10. LastPointerRule(SettledSession, l, ops[l])' BY <2>4, <2>9
  <2>11. a # None => session'.active.id = a
    OBVIOUS
  <2> QED BY <2>1, <2>7, <2>8, <2>9, <2>10, <2>11 DEF TerminalRelations
<1> QED BY <1>1, <1>2

\* The recorded launch stays with the writer.
LEMMA LaunchCarried ==
    ASSUME HistoryKept, TypedInv, CurrentLaunchRelation(session),
           session'.launch = NoLaunch \/
             /\ session'.launch = session.launch /\ session'.attachment = session.attachment
             /\ session'.lease.id = session.lease.id
             /\ session'.lease.epoch = session.lease.epoch
             /\ session'.lease.term \in {session.lease.term, session.lease.term + 1}
    PROVE  CurrentLaunchRelation(session)'
<1> SUFFICES ASSUME session'.launch # NoLaunch PROVE CurrentLaunchRelation(session)'
  BY DEF CurrentLaunchRelation
<1>1. PICK x : x = session
  OBVIOUS
<1>2. CurrentLaunchRelation(x)' /\ x.launch # NoLaunch BY <1>1, CurrentLaunchKept
<1>3. PICK i : i = x.launch.id
  OBVIOUS
<1>4. /\ Committed(i, "writer-launch-started")' /\ LaunchRelations(i)'
      /\ x.launch = LaunchPointer(i, ops'[i])
      /\ x.lease.id = ops'[i].expected.lease.id
      /\ x.lease.epoch = ops'[i].expected.lease.epoch
      /\ x.lease.term >= ops'[i].expected.lease.term
      /\ x.attachment = ops'[i].expected.attachment
  BY <1>2, <1>3 DEF CurrentLaunchRelation, LaunchPointer
<1>5. i \in OpId /\ ops'[i] = ops[i] BY <1>1, <1>3, CommittedKept DEF CurrentLaunchRelation
<1>6. session.lease.term \in Nat /\ ops[i].expected.lease.term \in Nat
  BY <1>5 DEF TypedInv, TypedRows, Snapshots, Leases, Operations
<1>7. session'.lease.term >= ops'[i].expected.lease.term BY <1>1, <1>4, <1>5, <1>6
<1> QED BY <1>1, <1>3, <1>4, <1>7 DEF CurrentLaunchRelation, LaunchPointer

--------------------------------------------------------------------------------
(* The document and its revision. *)

\* What a lifecycle allows, one lifecycle at a time.
LEMMA LifecycleCases ==
    ASSUME NEW d, d.lifecycle \in Lifecycles
    PROVE  /\ d.lifecycle = "DETACHED" =>
                (LifecycleRule(d) <=>
                   NoWriter(d) /\ (d.active.kind = "writer-attachment-acquire" =>
                                     d.active.state = "prepared"))
           /\ d.lifecycle = "ATTACHING" =>
                (LifecycleRule(d) <=>
                   /\ d.lease # NoLease /\ d.attachment = NoAttachment /\ d.launch = NoLaunch
                   /\ d.lease.epoch = d.epoch /\ d.active.kind \in MintingKinds
                   /\ d.active.state \in Dispatched)
           /\ d.lifecycle = "ATTACHED" =>
                (LifecycleRule(d) <=>
                   HasWriter(d) /\ d.lease.epoch = d.epoch /\ LeaseBindsAttachment(d))
           /\ d.lifecycle = "RELEASING" =>
                (LifecycleRule(d) <=>
                   /\ HasWriter(d) /\ d.lease.epoch = d.epoch /\ d.launch = NoLaunch
                   /\ LeaseBindsAttachment(d) /\ d.active.kind = "writer-release"
                   /\ d.active.state \in Dispatched)
           /\ d.lifecycle = "FENCING" =>
                (LifecycleRule(d) <=>
                   /\ d.lease # NoLease /\ d.epoch > d.lease.epoch
                   /\ d.attachment # NoAttachment => LeaseBindsAttachment(d)
                   /\ d.active.kind = "writer-force-fence" /\ d.active.state \in Dispatched)
           /\ d.lifecycle = "BLOCKED" =>
                (LifecycleRule(d) <=>
                   /\ d.lease # NoLease /\ d.epoch >= d.lease.epoch
                   /\ d.attachment # NoAttachment => LeaseBindsAttachment(d)
                   /\ d.last # NoPointer
                   /\ \/ d.active = NoPointer
                      \/ /\ d.active.kind = "writer-force-fence"
                         /\ d.active.state = "prepared")
BY DEF LifecycleRule, DispatchedAs, Dispatched, MintingKinds

\* The rule says the same of the next document.
LEMMA LifecycleNext ==
    ASSUME NEW d, d = session'
    PROVE  /\ LifecycleRule(d) => LifecycleRule(session)'
           /\ CanonicalDocument(d) => CanonicalDocument(session)'
BY DEF LifecycleRule, NoWriter, HasWriter, LeaseBindsAttachment, DispatchedAs,
   CanonicalDocument

LEMMA ReserveDocument ==
    ASSUME TypedInv, SessionReadable, NEW i \in OpId, NEW r, Reserves(i, r),
           session.lifecycle = "BLOCKED" => r.kind = "writer-force-fence"
    PROVE  CanonicalDocument(session)' /\ RevisionState(session)'
<1>1. /\ CanonicalDocument(session) /\ RevisionState(session) /\ session.active = NoPointer
      /\ session \in Snapshots
  BY DEF SessionReadable, Reserves, Inserts, TypedInv, TypedRows
<1>2. /\ ops'[i].request = r /\ ops'[i].state = "prepared" /\ ops'[i].revision = 0
      /\ ops'[i].expected = session
  BY DEF Reserves, Inserts, PreparedRow
<1>3. /\ session'.lifecycle = session.lifecycle /\ session'.epoch = session.epoch
      /\ session'.lease = session.lease /\ session'.attachment = session.attachment
      /\ session'.launch = session.launch /\ session'.last = session.last
      /\ session'.revision = session.revision + 1 /\ session'.active = Pointer(i, ops'[i])
  BY DEF Reserves, Shows
<1>4. /\ session'.active # NoPointer /\ session'.active.kind = r.kind
      /\ session'.active.state = "prepared" /\ session'.active.expected = session.revision
      /\ session'.active.revision = 0
  BY <1>2, <1>3, PointerNamed
<1>5. CanonicalDocument(session)'
  <2>0. session.lifecycle \in Lifecycles /\ session.active.state = "absent"
    BY <1>1 DEF Snapshots, NoPointer
  <2>1. session.lifecycle \in {"DETACHED", "ATTACHED", "BLOCKED"}
    BY <1>1, <2>0, LifecycleCases DEF CanonicalDocument, Dispatched, Lifecycles
  <2>2. PICK d : d = session'
    OBVIOUS
  <2>3. LifecycleRule(d)
    BY <1>1, <1>3, <1>4, <2>0, <2>1, <2>2, LifecycleCases DEF CanonicalDocument, NoWriter,
       HasWriter, LeaseBindsAttachment
  <2> QED BY <1>1, <1>3, <2>2, <2>3, LifecycleNext DEF CanonicalDocument
<1>6. RevisionState(session)' BY <1>1, <1>3, <1>4 DEF RevisionState, RevisionOf, Snapshots
<1> QED BY <1>5, <1>6

LEMMA RenewDocument ==
    ASSUME TypedInv, SessionReadable, NEW i \in OpId, Renews(i)
    PROVE  CanonicalDocument(session)' /\ RevisionState(session)'
<1>1. /\ CanonicalDocument(session) /\ session.lifecycle = "ATTACHED" /\ session \in Snapshots
  BY DEF SessionReadable, Renews, Attached, TypedInv, TypedRows
<1>2. ops'[i].revision = 0 /\ ops'[i].expected = session
  BY DEF Renews, Inserts, RenewalRow, PreparedRow
<1>3. /\ session'.lifecycle = "ATTACHED" /\ session'.epoch = session.epoch
      /\ session'.attachment = session.attachment
      /\ session'.revision = session.revision + 1 /\ session'.active = NoPointer
      /\ session'.last = Pointer(i, ops'[i])
  BY <1>1 DEF Renews
<1>4. /\ session'.last # NoPointer /\ session'.last.expected = session.revision
      /\ session'.last.revision = 0
  BY <1>2, <1>3, PointerNamed
<1>5. /\ session'.lease.id = session.lease.id /\ session'.lease.epoch = session.lease.epoch
      /\ session'.lease.term = session.lease.term + 1 /\ session.lease.term \in Nat
  BY <1>1 DEF Renews, RenewedLease, Snapshots, Leases
<1>6. session'.lease # NoLease BY <1>5 DEF NoLease
<1>7. CanonicalDocument(session)'
  BY <1>1, <1>3, <1>4, <1>5, <1>6 DEF CanonicalDocument, LifecycleRule, HasWriter,
     LeaseBindsAttachment
<1>8. RevisionState(session)' BY <1>1, <1>3, <1>4 DEF RevisionState, RevisionOf, Snapshots
<1> QED BY <1>7, <1>8

\* The revisions of the session and of the operation it points to.
LEMMA ActiveRevision ==
    ASSUME TypedInv, SessionReadable, NEW i \in OpId, session.active.id = i
    PROVE  /\ session.active = Pointer(i, ops[i]) /\ session.active # NoPointer
           /\ session.revision = ops[i].expected.revision + ops[i].revision + 1
           /\ ops[i].expected.revision =
                IF session.last = NoPointer THEN 0 ELSE RevisionOf(session.last)
           /\ ops[i].expected.revision \in Nat /\ ops[i].revision \in Nat
           /\ session.active.kind = ops[i].request.kind
           /\ session.active.state = ops[i].state
<1>1. session.active # NoPointer BY NoneAssumption DEF NoPointer
<1>2. session.active = Pointer(i, ops[i])
  BY <1>1 DEF SessionReadable, ActiveRelations, ActivePointerRule, Pointer
<1>3. ops[i].expected.revision \in Nat /\ ops[i].revision \in Nat
  BY DEF TypedInv, TypedRows, Operations, Snapshots
<1> QED BY <1>1, <1>2, <1>3, PointerNamed DEF SessionReadable, RevisionState, RevisionOf

\* The active operation moves to its next phase.
LEMMA PhaseRevision ==
    ASSUME TypedInv, SessionReadable, NEW i \in OpId, session.active.id = i,
           session'.active = Pointer(i, ops'[i]), SameOperation(i),
           ops'[i].revision = ops[i].revision + 1,
           session'.revision = session.revision + 1, session'.last = session.last
    PROVE  RevisionState(session)'
<1>1. /\ session'.active # NoPointer
      /\ session'.active.expected = ops[i].expected.revision
      /\ session'.active.revision = ops[i].revision + 1
  BY PointerNamed DEF SameOperation
<1> QED BY <1>1, ActiveRevision DEF RevisionState, RevisionOf

LEMMA DoubtDocument ==
    ASSUME TypedInv, SessionReadable, NEW i \in OpId, Doubts(i)
    PROVE  CanonicalDocument(session)' /\ RevisionState(session)'
<1>1. /\ CanonicalDocument(session) /\ session.active.id = i /\ ops[i].state = "starting"
      /\ session.active.kind = ops[i].request.kind /\ session.active.state = ops[i].state
      /\ session.active # NoPointer
  BY ActiveRevision DEF SessionReadable, Doubts
<1>2. /\ session'.lifecycle = session.lifecycle /\ session'.epoch = session.epoch
      /\ session'.lease = session.lease /\ session'.attachment = session.attachment
      /\ session'.launch = session.launch /\ session'.last = session.last
      /\ session'.active = Pointer(i, ops'[i])
  BY DEF Doubts, Shows
<1>3. session'.active.kind = session.active.kind /\ session'.active.state = "uncertain"
  BY <1>1, <1>2, PointerNamed DEF Doubts, SameOperation
<1>4. CanonicalDocument(session)'
  <2>0. session.lifecycle \in Lifecycles BY DEF TypedInv, TypedRows, Snapshots
  <2>1. session.lifecycle # "BLOCKED" BY <1>1, <2>0, LifecycleCases DEF CanonicalDocument
  <2>2. PICK d : d = session'
    OBVIOUS
  <2>3. LifecycleRule(d)
    BY <1>1, <1>2, <1>3, <2>0, <2>1, <2>2, LifecycleCases DEF CanonicalDocument, NoWriter,
       HasWriter, LeaseBindsAttachment, Dispatched, Lifecycles
  <2> QED BY <1>1, <1>2, <2>2, <2>3, LifecycleNext DEF CanonicalDocument
<1>5. ops'[i].revision = ops[i].revision + 1
  BY <1>1 DEF Doubts, TypedInv, TypedRows, PhaseRevisions
<1>6. RevisionState(session)' BY <1>1, <1>2, <1>5, PhaseRevision DEF Doubts
<1> QED BY <1>4, <1>6

LEMMA DispatchDocuments ==
    ASSUME TypedInv, SessionReadable, NEW i \in OpId, NEW d, Dispatches(i, d)
    PROVE  CanonicalDocument(session)' /\ RevisionState(session)'
<1>1. /\ CanonicalDocument(session) /\ session.active.id = i /\ ops[i].state = "prepared"
      /\ session.active.kind = ops[i].request.kind /\ session.active.state = ops[i].state
      /\ session.active # NoPointer
  BY ActiveRevision DEF SessionReadable, Dispatches
<1>2. /\ session'.lifecycle = d.lifecycle /\ session'.epoch = d.epoch
      /\ session'.lease = d.lease /\ session'.attachment = session.attachment
      /\ session'.launch = session.launch /\ session'.last = session.last
      /\ session'.active = Pointer(i, ops'[i]) /\ ops'[i].state = "starting"
      /\ ops'[i].request = ops[i].request
  BY DEF Dispatches, Starts, Shows, SameOperation
<1>3. session'.active.kind = ops[i].request.kind /\ session'.active.state = "starting"
  BY <1>2, PointerNamed
<1>e. session.epoch \in Nat /\ session.lease.epoch \in Nat
  BY DEF TypedInv, TypedRows, Snapshots, Leases
<1>l. session.lifecycle \in Lifecycles /\ LifecycleRule(session)
  BY <1>1 DEF TypedInv, TypedRows, Snapshots, CanonicalDocument
<1>4. LifecycleRule(session)'
  <2>0. PICK n : n = session'
    OBVIOUS
  <2> USE DEF NoWriter, HasWriter, LeaseBindsAttachment, Dispatched
  <2>1. CASE ops[i].request.kind \in MintingKinds
    <3>1. /\ Detached /\ d.lifecycle = "ATTACHING" /\ d.epoch = session.epoch + 1
          /\ d.lease = MintedLease(i)
      BY <2>1 DEF Dispatches, DispatchDocument, MintingKinds
    <3>2. d.lease.id = i /\ d.lease.epoch = d.epoch /\ d.lease # NoLease
      BY <3>1, NoneAssumption DEF MintedLease, NextEpoch, NoLease
    <3>3. session.attachment = NoAttachment /\ session.launch = NoLaunch
      BY <1>l, <3>1, LifecycleCases DEF Detached
    <3>4. LifecycleRule(n)
      BY <1>2, <1>3, <2>0, <2>1, <3>1, <3>2, <3>3, LifecycleCases DEF Lifecycles
    <3> QED BY <2>0, <3>4, LifecycleNext
  <2>2. CASE ops[i].request.kind = "writer-release"
    <3>1. /\ Attached /\ session.launch = NoLaunch /\ d.lifecycle = "RELEASING"
          /\ d.epoch = session.epoch /\ d.lease = session.lease
      BY <2>2 DEF Dispatches, DispatchDocument, MintingKinds
    <3>2. LifecycleRule(n)
      BY <1>l, <1>2, <1>3, <2>0, <2>2, <3>1, LifecycleCases DEF Attached, Lifecycles
    <3> QED BY <2>0, <3>2, LifecycleNext
  <2>3. CASE ops[i].request.kind = "writer-force-fence"
    <3>1. /\ session.lifecycle \in {"ATTACHED", "BLOCKED"} /\ d.lifecycle = "FENCING"
          /\ d.epoch = session.epoch + 1 /\ d.lease = session.lease
      BY <2>3 DEF Dispatches, DispatchDocument, MintingKinds
    <3>2. /\ session.lease # NoLease /\ session.epoch >= session.lease.epoch
          /\ session.attachment # NoAttachment => LeaseBindsAttachment(session)
      BY <1>e, <1>l, <3>1, LifecycleCases
    <3>3. LifecycleRule(n)
      BY <1>2, <1>3, <1>e, <2>0, <2>3, <3>1, <3>2, LifecycleCases DEF Lifecycles
    <3> QED BY <2>0, <3>3, LifecycleNext
  <2>4. CASE ops[i].request.kind \notin MintingKinds \cup
                                       {"writer-release", "writer-force-fence"}
    <3>1. d.lifecycle = session.lifecycle /\ d.epoch = session.epoch /\ d.lease = session.lease
      BY <2>4 DEF Dispatches, DispatchDocument, MintingKinds
    <3>2. ops[i].request.kind # "writer-attachment-acquire" BY <2>4 DEF MintingKinds
    <3>3. session.lifecycle \in {"DETACHED", "ATTACHED"}
      BY <1>1, <1>l, <2>4, LifecycleCases DEF Lifecycles
    <3>4. LifecycleRule(n) BY <1>l, <1>2, <1>3, <2>0, <3>1, <3>2, <3>3, LifecycleCases
    <3> QED BY <2>0, <3>4, LifecycleNext
  <2> QED BY <2>1, <2>2, <2>3, <2>4
<1>5. CanonicalDocument(session)'
  <2>1. session'.lifecycle = "ATTACHED" => session.lifecycle = "ATTACHED"
    BY <1>2 DEF Dispatches, DispatchDocument
  <2>2. (session'.lifecycle = "DETACHED" /\ session'.epoch # 0) =>
          session.lifecycle = "DETACHED" /\ session.epoch # 0
    BY <1>2 DEF Dispatches, DispatchDocument
  <2> QED BY <1>1, <1>2, <1>4, <2>1, <2>2 DEF CanonicalDocument
<1>6. ops'[i].revision = ops[i].revision + 1
  BY <1>1 DEF Dispatches, Starts, TypedInv, TypedRows, PhaseRevisions
<1>7. RevisionState(session)' BY <1>1, <1>2, <1>6, PhaseRevision DEF Dispatches, Starts
<1> QED BY <1>5, <1>7

--------------------------------------------------------------------------------
(* The documents that operations leave. *)

\* A document on which nothing is dispatched.
Restful(d) ==
    \/ d.lifecycle = "DETACHED" /\ NoWriter(d)
    \/ /\ d.lifecycle = "ATTACHED" /\ HasWriter(d)
       /\ d.lease.epoch = d.epoch /\ LeaseBindsAttachment(d)
    \/ /\ d.lifecycle = "BLOCKED" /\ d.lease # NoLease /\ d.epoch >= d.lease.epoch
       /\ d.attachment # NoAttachment => LeaseBindsAttachment(d)

LEMMA RestfulNext ==
    ASSUME NEW d, Restful(d), Shows(d), session'.last # NoPointer,
           \/ session'.active = NoPointer
           \/ session'.active.state = "prepared" /\ d.lifecycle # "BLOCKED"
    PROVE  CanonicalDocument(session)'
<1>1. PICK n : n = session'
  OBVIOUS
<1>2. /\ n.lifecycle = d.lifecycle /\ n.epoch = d.epoch /\ n.lease = d.lease
      /\ n.attachment = d.attachment /\ n.launch = d.launch
  BY <1>1 DEF Shows
<1>3. n.active.kind = "writer-attachment-acquire" => n.active.state = "prepared"
  BY <1>1 DEF NoPointer
<1>4. n.lifecycle \in Lifecycles BY <1>2 DEF Restful, Lifecycles
<1>5. LifecycleRule(n)
  BY <1>1, <1>2, <1>3, <1>4, LifecycleCases DEF Restful, NoWriter, HasWriter,
     LeaseBindsAttachment
<1> QED BY <1>1, <1>5, LifecycleNext DEF CanonicalDocument

\* What the readers know of the session of an active operation.
LEMMA BusyFacts ==
    ASSUME TypedInv, SessionReadable, ActiveFits, NEW i \in OpId, session.active.id = i,
           ops[i].state \in Dispatched
    PROVE  LET kind == ops[i].request.kind
               x == ops[i].expected IN
           /\ kind \in MintingKinds =>
                /\ session.lifecycle = "ATTACHING" /\ session.lease # NoLease
                /\ session.attachment = NoAttachment /\ session.launch = NoLaunch
                /\ session.lease.epoch = session.epoch /\ x.launch = NoLaunch
           /\ kind = "writer-release" =>
                /\ session.lifecycle = "RELEASING" /\ HasWriter(session)
                /\ session.lease.epoch = session.epoch /\ LeaseBindsAttachment(session)
                /\ session.launch = NoLaunch /\ x.launch = NoLaunch
           /\ kind = "writer-force-fence" =>
                /\ session.lifecycle = "FENCING" /\ session.lease # NoLease
                /\ session.epoch > session.lease.epoch /\ session.launch = x.launch
                /\ session.attachment # NoAttachment => LeaseBindsAttachment(session)
           /\ kind \in AttachedKinds =>
                /\ session.lifecycle = "ATTACHED" /\ HasWriter(session)
                /\ session.lease.epoch = session.epoch /\ LeaseBindsAttachment(session)
                /\ session.lifecycle = x.lifecycle /\ session.epoch = x.epoch
                /\ session.lease = x.lease /\ session.attachment = x.attachment
                /\ session.launch = x.launch
           /\ kind # "atomic-crash-capture"
<1>1. /\ ActiveBusiness(session, i, ops[i]) /\ ops[i].state # "prepared"
      /\ session.lifecycle \in Lifecycles /\ LifecycleRule(session)
  BY ReadableActive DEF SessionReadable, CanonicalDocument, TypedInv, TypedRows, Snapshots,
     Dispatched
<1>2. ops[i].request.kind # "atomic-crash-capture" BY <1>1 DEF ActiveBusiness
<1>3. ASSUME ops[i].request.kind \in MintingKinds PROVE session.lifecycle = "ATTACHING"
  BY <1>1, <1>3 DEF ActiveBusiness, MintingKinds, WriterKinds
<1>4. ASSUME ops[i].request.kind = "writer-release" PROVE session.lifecycle = "RELEASING"
  BY <1>1, <1>4 DEF ActiveBusiness, WriterKinds
<1>5. ASSUME ops[i].request.kind = "writer-force-fence"
      PROVE  session.lifecycle = "FENCING" /\ session.launch = ops[i].expected.launch
  BY <1>1, <1>5 DEF ActiveBusiness, WriterKinds
<1>6. ASSUME ops[i].request.kind \in AttachedKinds
      PROVE  session.lifecycle = "ATTACHED" /\ Business(session) = Business(ops[i].expected)
  BY <1>1, <1>6 DEF ActiveBusiness, WriterKinds, AttachedKinds, ActiveFits, Attached
<1>7. /\ ops[i].request.kind \in MintingKinds => ops[i].expected.launch = NoLaunch
      /\ ops[i].request.kind = "writer-release" => ops[i].expected.launch = NoLaunch
  BY DEF ActiveFits, NoWriter
<1> QED BY <1>1, <1>2, <1>3, <1>4, <1>5, <1>6, <1>7, LifecycleCases DEF Business

\* The lease names the operation that minted it.
LEMMA LeaseNamed ==
    ASSUME LeaseHeld, session.lease # NoLease
    PROVE  session.lease.id \in OpId
BY DEF LeaseHeld, Minters

LEMMA SettleRestful ==
    ASSUME AuthorityInv, SessionReadable, ActiveFits, NEW i \in OpId, NEW result, NEW d,
           Settles(i, result, d)
    PROVE  /\ Restful(d) /\ d.revision = session.revision
           /\ d.lifecycle = "BLOCKED" => result.outcome = "writer-blocked"
           /\ d.last = session.last /\ d.active = session.active
<1>0. /\ TypedInv /\ session \in Snapshots /\ LeaseHeld
      /\ session.active.id = i /\ ops[i].state \in Dispatched
  BY DEF AuthorityInv, TypedInv, TypedRows, Settles
<1>n. session.epoch \in Nat /\ session.lease.epoch \in Nat BY <1>0 DEF Snapshots, Leases
<1> DEFINE kind == ops[i].request.kind
<1>1. CASE kind \in MintingKinds /\ result.outcome # "writer-blocked"
  <2>1. d = [session EXCEPT !.lifecycle = "ATTACHED", !.attachment = AttachmentUnderLease]
    BY <1>1 DEF Settles, SettleDocument, MintingKinds, AttachedKinds, WriterResult
  <2>2. /\ d.lifecycle = "ATTACHED" /\ d.attachment = AttachmentUnderLease
        /\ d.lease = session.lease /\ d.epoch = session.epoch /\ d.revision = session.revision
        /\ d.last = session.last /\ d.active = session.active
    BY <1>0, <2>1 DEF Snapshots
  <2>3. session.lease # NoLease /\ session.lease.epoch = session.epoch
    BY <1>0, <1>1, BusyFacts
  <2>4. session.lease.id # None BY <1>0, <2>3, LeaseNamed, NoneAssumption
  <2> QED BY <2>2, <2>3, <2>4 DEF Restful, HasWriter, LeaseBindsAttachment,
    AttachmentUnderLease, NoAttachment
<1>2. CASE kind \in {"writer-release", "writer-force-fence"} /\ result.outcome # "writer-blocked"
  <2>1. d = NoWriterLeft BY <1>2 DEF Settles, SettleDocument, MintingKinds, WriterResult
  <2>2. /\ d.lifecycle = "DETACHED" /\ NoWriter(d) /\ d.revision = session.revision
        /\ d.last = session.last /\ d.active = session.active
    BY <1>0, <2>1 DEF NoWriterLeft, NoWriter, Snapshots
  <2> QED BY <2>2 DEF Restful
<1>3. CASE result.outcome = "writer-blocked"
  <2>1. d = BlockedSession /\ kind \in WriterKinds
    BY <1>3 DEF Settles, SettleDocument, WriterResult, FencedResult, Outcome, NoResult,
       LaunchOutcomes
  <2>2. /\ d.lifecycle = "BLOCKED" /\ d.attachment = session.attachment
        /\ d.lease = session.lease /\ d.epoch = session.epoch /\ d.revision = session.revision
        /\ d.last = session.last /\ d.active = session.active
    BY <1>0, <2>1 DEF BlockedSession, Snapshots
  <2>3. /\ session.lease # NoLease /\ session.epoch >= session.lease.epoch
        /\ session.attachment # NoAttachment => LeaseBindsAttachment(session)
    <3>1. CASE kind \in MintingKinds BY <1>0, <1>n, <3>1, BusyFacts
    <3>2. CASE kind = "writer-release" BY <1>0, <1>n, <3>2, BusyFacts DEF HasWriter
    <3>3. CASE kind = "writer-force-fence" BY <1>0, <1>n, <3>3, BusyFacts
    <3> QED BY <2>1, <3>1, <3>2, <3>3 DEF WriterKinds, MintingKinds
  <2> QED BY <1>3, <2>2, <2>3 DEF Restful, LeaseBindsAttachment
<1>4. CASE kind \in AttachedKinds
  <2>1. /\ session.lifecycle = "ATTACHED" /\ HasWriter(session)
        /\ session.lease.epoch = session.epoch /\ LeaseBindsAttachment(session)
    BY <1>0, <1>4, BusyFacts
  <2>2. \/ d = session
        \/ d = WriterStopped
        \/ \E outcome \in LaunchOutcomes : d = LaunchedSession(i, outcome)
    BY <1>4 DEF Settles, SettleDocument, MintingKinds, AttachedKinds, WriterKinds
  <2>3. /\ d.lifecycle = "ATTACHED" /\ d.attachment = session.attachment
        /\ d.lease = session.lease /\ d.epoch = session.epoch /\ d.revision = session.revision
        /\ d.last = session.last /\ d.active = session.active
    BY <1>0, <2>1, <2>2 DEF WriterStopped, LaunchedSession, Snapshots
  <2> QED BY <2>1, <2>3 DEF Restful, HasWriter, LeaseBindsAttachment
<1> QED BY <1>1, <1>2, <1>3, <1>4 DEF Settles, SettleDocument, AttachedKinds, WriterKinds,
  MintingKinds

\* A prepared operation has left the session at rest.
LEMMA PreparedRestful ==
    ASSUME TypedInv, SessionReadable, NEW i \in OpId, session.active.id = i,
           ops[i].state = "prepared"
    PROVE  Restful(session)
<1>1. session.lifecycle \in Lifecycles /\ LifecycleRule(session) /\ session.active.state = "prepared"
  BY ActiveRevision DEF SessionReadable, CanonicalDocument, TypedInv, TypedRows, Snapshots
<1> QED BY <1>1, LifecycleCases DEF Restful, Dispatched, Lifecycles

LEMMA TerminalNext ==
    ASSUME NEW n, n = session', NEW i, TerminalBusiness(n, ops'[i])
    PROVE  TerminalBusiness(session, ops[i])'
BY DEF TerminalBusiness, Business

\* What a settled operation says of the session it left.
LEMMA SettleBusiness ==
    ASSUME TypedInv, SessionReadable, ActiveFits, NEW i \in OpId, NEW result, NEW d,
           Settles(i, result, d), NEW n, NEW o,
           n.lifecycle = d.lifecycle, n.epoch = d.epoch, n.lease = d.lease,
           n.attachment = d.attachment, n.launch = d.launch,
           o.request = ops[i].request, o.expected = ops[i].expected, o.result = result
    PROVE  TerminalBusiness(n, o)
<1>0. /\ session \in Snapshots /\ ops[i].expected \in Snapshots
      /\ session.active.id = i /\ ops[i].state \in Dispatched
  BY DEF TypedInv, TypedRows, Operations, Settles
<1> DEFINE kind == ops[i].request.kind
           x == ops[i].expected
<1> USE DEF TerminalBusiness
<1>1. CASE kind \in MintingKinds /\ result.outcome # "writer-blocked"
  <2>1. /\ d = [session EXCEPT !.lifecycle = "ATTACHED", !.attachment = AttachmentUnderLease]
        /\ result.outcome \in {"restore-attachment-activated", "writer-attached"}
        /\ result.lease = session.lease /\ result.attachment = AttachmentUnderLease
    BY <1>1 DEF Settles, SettleDocument, MintingKinds, AttachedKinds, WriterResult
  <2>2. /\ d.lifecycle = "ATTACHED" /\ d.attachment = AttachmentUnderLease
        /\ d.lease = session.lease /\ d.epoch = session.epoch /\ d.launch = session.launch
    BY <1>0, <2>1 DEF Snapshots
  <2>3. /\ session.lease.epoch = session.epoch /\ session.launch = NoLaunch
        /\ x.launch = NoLaunch
    BY <1>0, <1>1, BusyFacts
  <2> QED BY <2>1, <2>2, <2>3
<1>2. CASE kind = "writer-release" /\ result.outcome # "writer-blocked"
  <2>1. d = NoWriterLeft /\ result.outcome = "writer-released" /\ result.lease = session.lease
    BY <1>2 DEF Settles, SettleDocument, MintingKinds, WriterResult
  <2>2. /\ d.lifecycle = "DETACHED" /\ d.epoch = session.epoch
        /\ d.lease = NoLease /\ d.attachment = NoAttachment
    BY <1>0, <2>1 DEF NoWriterLeft, Snapshots
  <2>3. session.lease.epoch = session.epoch BY <1>0, <1>2, BusyFacts
  <2> QED BY <2>1, <2>2, <2>3
<1>3. CASE kind = "writer-force-fence" /\ result.outcome # "writer-blocked"
  <2>1. d = NoWriterLeft /\ result.outcome = "writer-fenced" /\ result.epoch = session.epoch
    BY <1>3 DEF Settles, SettleDocument, MintingKinds, WriterResult, FencedResult
  <2>2. /\ d.lifecycle = "DETACHED" /\ d.epoch = session.epoch
        /\ d.lease = NoLease /\ d.attachment = NoAttachment
    BY <1>0, <2>1 DEF NoWriterLeft, Snapshots
  <2> QED BY <2>1, <2>2
<1>4. CASE result.outcome = "writer-blocked"
  <2>1. /\ d = BlockedSession /\ kind \in WriterKinds /\ result.epoch = session.epoch
        /\ result.lease = session.lease /\ result.attachment = session.attachment
    BY <1>4 DEF Settles, SettleDocument, WriterResult, FencedResult, Outcome, NoResult,
       LaunchOutcomes
  <2>2. /\ d.lifecycle = "BLOCKED" /\ d.attachment = session.attachment
        /\ d.lease = session.lease /\ d.epoch = session.epoch /\ d.launch = session.launch
    BY <1>0, <2>1 DEF BlockedSession, Snapshots
  <2>3. session.launch = x.launch BY <1>0, <2>1, BusyFacts DEF WriterKinds, MintingKinds
  <2> QED BY <1>4, <2>1, <2>2, <2>3
<1>5. CASE kind \in AttachedKinds
  <2>1. /\ session.lifecycle = "ATTACHED" /\ session.lifecycle = x.lifecycle
        /\ session.epoch = x.epoch /\ session.lease = x.lease
        /\ session.attachment = x.attachment /\ session.launch = x.launch
    BY <1>0, <1>5, BusyFacts
  <2>2. CASE /\ d = session
             /\ result.outcome \in {"checkpoint-captured", "restore-generation-committed",
                                    "writer-launch-not-started",
                                    "writer-launch-complete-stopped"}
    BY <2>1, <2>2 DEF Business
  <2>3. CASE d = LaunchedSession(i, "writer-launch-started")
               /\ result.outcome = "writer-launch-started"
    <3>1. /\ d.lifecycle = "ATTACHED" /\ d.lease = x.lease /\ d.attachment = x.attachment
          /\ d.launch = LaunchPointer(i, ops[i])
      BY <1>0, <2>1, <2>3, DocumentFields
    <3> QED BY <2>3, <3>1 DEF LaunchPointer
  <2>4. CASE d = WriterStopped /\ result.outcome = "writer-launch-stopped"
    <3>1. /\ d.lifecycle = x.lifecycle /\ d.epoch = x.epoch /\ d.lease = x.lease
          /\ d.attachment = x.attachment /\ d.launch = NoLaunch
      BY <1>0, <2>1, <2>4 DEF WriterStopped, Snapshots
    <3>2. Business(n) = Business([x EXCEPT !.launch = NoLaunch])
      BY <1>0, <3>1 DEF Business, Snapshots
    <3> QED BY <2>4, <3>1, <3>2
  <2>5. \/ /\ d = session
           /\ result.outcome \in {"checkpoint-captured", "restore-generation-committed"}
        \/ d = WriterStopped /\ result.outcome = "writer-launch-stopped"
        \/ \E outcome \in LaunchOutcomes :
              d = LaunchedSession(i, outcome) /\ result.outcome = outcome
    BY <1>5 DEF Settles, SettleDocument, MintingKinds, AttachedKinds, WriterKinds, Outcome,
       NoResult
  <2> QED BY <2>2, <2>3, <2>4, <2>5 DEF LaunchedSession, LaunchOutcomes
<1> QED BY <1>1, <1>2, <1>3, <1>4, <1>5 DEF Settles, SettleDocument, AttachedKinds,
  WriterKinds, MintingKinds

--------------------------------------------------------------------------------
(* The methods leave a session that can be read. *)

\* What every step keeps of the history and of the registry.
Steady ==
    /\ HistoryKept /\ OneActive' /\ Reserved' /\ IntentsFit' /\ IntentClaims'
    /\ RequestsSound'

LEMMA LastKept ==
    ASSUME SessionReadable, LastNamed, Steady, ClaimsSettle, NEW l, l = session.last.id,
           session.last # NoPointer, session'.last = session.last
    PROVE  l \in OpId /\ ops'[l] = ops[l] /\ Relations(l)'
<1>1. l \in OpId /\ ops[l].state = "committed" BY ReadableLast DEF LastNamed
<1>2. ops'[l] = ops[l] BY <1>1 DEF Steady, HistoryKept
<1>3. Relations(l) BY DEF SessionReadable, TerminalRelations
<1>4. Lasting(l) BY <1>2 DEF Lasting, SameOperation
<1> QED BY <1>1, <1>2, <1>3, <1>4, RelationsKept DEF Steady

LEMMA BusinessPrepared ==
    ASSUME NEW i \in OpId, ops'[i].state = "prepared", NEW x, x = ops'[i].expected,
           session'.lifecycle = x.lifecycle, session'.epoch = x.epoch,
           session'.lease = x.lease, session'.attachment = x.attachment,
           session'.launch = x.launch
    PROVE  ActiveBusiness(session, i, ops[i])'
BY DEF ActiveBusiness, Business

\* What the readers find of a stop that was just reserved.
LEMMA ReserveStop ==
    ASSUME Steady, CurrentLaunchRelation(session), NEW i \in OpId, NEW r, RequestSound(i)',
           r.kind = "writer-launch-stop", StopNamesItself(i, r), session.launch # NoLaunch,
           session'.launch = session.launch,
           ops'[i].request = r, ops'[i].expected = session, ops'[i].state = "prepared"
    PROVE  StopRelations(i)'
<1>1. PICK x : x = session
  OBVIOUS
<1>2. CurrentLaunchRelation(x)' BY <1>1, CurrentLaunchKept DEF Steady
<1>3. Undispatched(ops'[i]) BY DEF Undispatched
<1>4. r.version = 3 => claims'[r.intent] = NoClaim
  BY <1>3 DEF RequestSound, Contract
<1> QED BY <1>1, <1>2, <1>3, <1>4 DEF StopRelations, StopNamesItself

LEMMA ReserveRelations ==
    ASSUME Steady, CurrentLaunchRelation(session), NEW i \in OpId, NEW r, Admitted(i, r),
           r.kind = "writer-launch-stop" => StopNamesItself(i, r),
           session'.launch = session.launch,
           session'.active.id = i,
           ops'[i].request = r, ops'[i].expected = session, ops'[i].state = "prepared"
    PROVE  Relations(i)'
<1>0. RequestSound(i)' BY DEF Steady, RequestsSound, Read
<1>1. ReservationRelation(i)' BY DEF Steady, Reserved
<1>2. Undispatched(ops'[i]) /\ ~Cancelled(ops'[i]) BY DEF Undispatched, Cancelled
<1>3. CaptureRelations(i)' /\ GenerationRelations(i)' /\ LaunchRelations(i)'
  BY <1>2 DEF CaptureRelations, GenerationRelations, LaunchRelations
<1>4. r.kind = "restore-activation" => ActivationRelations(i)'
  BY <1>0, <1>2 DEF RequestSound, ActivationRelations
<1>5. r.kind = "writer-launch-stop" => StopRelations(i)'
  BY <1>0, ReserveStop DEF Admitted, Steady
<1>6. r.kind = "writer-force-fence" => FenceRelations(i)'
  BY <1>2, FenceUnclaimed DEF FenceRelations, Steady
<1> QED BY <1>1, <1>3, <1>4, <1>5, <1>6 DEF Relations, Admitted

LEMMA ReserveReadable ==
    ASSUME ReadableInv, Steady, NEW i \in OpId, NEW r \in RequestsOf(i),
           ReserveOperation(i, r)
    PROVE  SessionReadable'
<1>0. TypedInv /\ SessionReadable /\ LastNamed /\ CurrentLaunchRelation(session)
  BY DEF ReadableInv, WriterInv, AuthorityInv, SessionReadable
<1>1. Reserves(i, r) BY <1>0, ReserveWrites
<1>2. /\ Admitted(i, r)
      /\ r.kind = "writer-launch-stop" => StopNamesItself(i, r)
      /\ claims[i] = NoClaim \/ claims[i].type = "stable-plan"
      /\ r.kind = "writer-force-fence" => FenceTargetSource(r, session)
      /\ session.lifecycle = "BLOCKED" => r.kind = "writer-force-fence"
  BY <1>0, ReserveFacts DEF Steady
<1>3. /\ ops'[i].request = r /\ ops'[i].expected = session /\ ops'[i].state = "prepared"
      /\ session.active = NoPointer /\ \A k \in OpId \ {i} : claims'[k] = claims[k]
  BY <1>1 DEF Reserves, Inserts, PreparedRow
<1>4. /\ session'.lifecycle = session.lifecycle /\ session'.epoch = session.epoch
      /\ session'.lease = session.lease /\ session'.attachment = session.attachment
      /\ session'.launch = session.launch /\ session'.last = session.last
      /\ session'.active = Pointer(i, ops'[i]) /\ session'.active.id = i
  BY <1>1 DEF Reserves, Shows
<1>5. CanonicalDocument(session)' /\ RevisionState(session)'
  BY <1>0, <1>1, <1>2, ReserveDocument
<1>6. CurrentLaunchRelation(session)' BY <1>0, <1>4, LaunchCarried DEF Steady
<1>7. ActiveRelations'
  <2>1. PICK x : x = session
    OBVIOUS
  <2>2. ActiveBusiness(session, i, ops[i])' BY <1>3, <1>4, <2>1, BusinessPrepared
  <2>3. Relations(i)' BY <1>0, <1>2, <1>3, <1>4, ReserveRelations
  <2>4. r.kind = "writer-force-fence" => FenceTargetSource(r, x)'
    BY <1>2, <2>1, FenceSourceKept DEF Steady
  <2>5. r.kind = "writer-force-fence" => FenceTargetSource(ops[i].request, ops[i].expected)'
    BY <1>3, <2>1, <2>4 DEF FenceTargetSource
  <2> QED BY <1>3, <1>4, <2>2, <2>3, <2>5, ActiveNext DEF ActivePhases
<1>8. TerminalRelations'
  <2>1. SettledSession' = SettledSession
    <3>1. session'.active # NoPointer BY <1>4, PointerNamed
    <3> QED BY <1>3, <1>4, <3>1 DEF SettledSession
  <2>2. ClaimsSettle BY <1>2, <1>3 DEF ClaimsSettle
  <2>3. PICK l : l = session.last.id
    OBVIOUS
  <2>4. session.last # NoPointer => l \in OpId /\ ops'[l] = ops[l] /\ Relations(l)'
    BY <1>0, <1>4, <2>2, <2>3, LastKept
  <2>5. session.active.id = None BY <1>3 DEF NoPointer
  <2>6. TerminalRelations BY <1>0 DEF SessionReadable
  <2> QED BY <1>4, <2>1, <2>3, <2>4, <2>5, <2>6, TerminalKept
<1> QED BY <1>5, <1>6, <1>7, <1>8 DEF SessionReadable

LEMMA RenewReadable ==
    ASSUME ReadableInv, Steady, NEW i \in OpId, RenewWriterLease(i)
    PROVE  SessionReadable'
<1>0. TypedInv /\ SessionReadable /\ CurrentLaunchRelation(session) /\ session \in Snapshots
  BY DEF ReadableInv, WriterInv, AuthorityInv, SessionReadable, TypedInv, TypedRows
<1>1. Renews(i) BY <1>0, RenewWrites
<1>2. /\ ops'[i].expected = session /\ ops'[i].state = "committed"
      /\ ops'[i].request.kind = "writer-lease-renew"
      /\ ops'[i].result.outcome = "writer-lease-renewed"
      /\ ops'[i].result.lease = RenewedLease(i)
      /\ ops'[i].result.attachment = session.attachment
  BY <1>1 DEF Renews, Inserts, RenewalRow, PreparedRow, NoRequest, WriterResult
<1>3. /\ session'.lifecycle = "ATTACHED" /\ session'.epoch = session.epoch
      /\ session'.attachment = session.attachment /\ session'.launch = session.launch
      /\ session'.active = NoPointer /\ session'.last = Pointer(i, ops'[i])
      /\ session'.lease = RenewedLease(i)
  BY <1>1 DEF Renews, Attached
<1>4. /\ RenewedLease(i).id = session.lease.id /\ RenewedLease(i).epoch = session.lease.epoch
      /\ RenewedLease(i).term = session.lease.term + 1
  BY <1>0 DEF RenewedLease, Snapshots, Leases
<1>5. CanonicalDocument(session)' /\ RevisionState(session)' BY <1>0, <1>1, RenewDocument
<1>6. CurrentLaunchRelation(session)' BY <1>0, <1>3, <1>4, LaunchCarried DEF Steady
<1>7. ActiveRelations' BY <1>3, InactiveNext DEF Steady
<1>8. TerminalRelations'
  <2>1. session.lease.epoch = session.epoch
    BY <1>0, <1>1, LifecycleCases DEF SessionReadable, CanonicalDocument, Renews, Attached,
       Lifecycles
  <2>2. TerminalBusiness(session, ops[i])' BY <1>2, <1>3, <1>4, <2>1 DEF TerminalBusiness
  <2>3. Relations(i)' BY <1>2 DEF Relations, Steady, Reserved
  <2>4. ~HandsOff(ops'[i]) BY <1>2 DEF HandsOff
  <2> QED BY <1>2, <1>3, <2>2, <2>3, <2>4, TerminalSettled
<1> QED BY <1>5, <1>6, <1>7, <1>8 DEF SessionReadable

\* Claimed identifiers stay as they are.
ClaimsStay == \A m \in OpId : claims[m] # NoClaim => claims'[m] = claims[m]

LEMMA StayIsSettle ==
    ASSUME ClaimsStay
    PROVE  ClaimsSettle
BY DEF ClaimsStay, ClaimsSettle

\* The active operation moves on, and the last one stays.
LEMMA PhaseTerminal ==
    ASSUME SessionReadable, LastNamed, Steady, ClaimsStay, NEW i \in OpId,
           session.active.id = i, session'.active = Pointer(i, ops'[i]), SameOperation(i),
           session'.last = session.last
    PROVE  TerminalRelations'
<1>1. /\ session.active # NoPointer /\ session'.active # NoPointer /\ session'.active.id = i
      /\ i # None
  BY PointerNamed, NoneAssumption DEF NoPointer
<1>2. SettledSession' = SettledSession BY <1>1 DEF SettledSession, SameOperation
<1>3. PICK l : l = session.last.id
  OBVIOUS
<1>4. session.last # NoPointer => l \in OpId /\ ops'[l] = ops[l] /\ Relations(l)'
  BY <1>3, StayIsSettle, LastKept
<1>5. claims[i] # NoClaim => claims'[i] = claims[i] BY DEF ClaimsStay
<1>6. TerminalRelations BY DEF SessionReadable
<1> QED BY <1>1, <1>2, <1>3, <1>4, <1>5, <1>6, TerminalKept

LEMMA FenceSourceNext ==
    ASSUME SessionReadable, HistoryKept, NEW i \in OpId, session.active.id = i,
           SameOperation(i), ops[i].request.kind = "writer-force-fence"
    PROVE  FenceTargetSource(ops[i].request, ops[i].expected)'
<1>1. PICK r : r = ops[i].request
  OBVIOUS
<1>2. PICK x : x = ops[i].expected
  OBVIOUS
<1>3. FenceTargetSource(r, x) BY <1>1, <1>2, ReadableActive
<1>4. FenceTargetSource(r, x)' BY <1>3, FenceSourceKept
<1> QED BY <1>1, <1>2, <1>4 DEF SameOperation, FenceTargetSource

LEMMA DoubtReadable ==
    ASSUME ReadableInv, Steady, NEW i \in OpId, MarkOperationUncertain(i)
    PROVE  SessionReadable'
<1>0. TypedInv /\ SessionReadable /\ LastNamed /\ CurrentLaunchRelation(session)
  BY DEF ReadableInv, WriterInv, AuthorityInv, SessionReadable
<1>1. Doubts(i) BY <1>0, UncertainWrites
<1>2. /\ session'.lifecycle = session.lifecycle /\ session'.epoch = session.epoch
      /\ session'.lease = session.lease /\ session'.attachment = session.attachment
      /\ session'.launch = session.launch /\ session'.last = session.last
      /\ session.active.id = i /\ session'.active = Pointer(i, ops'[i])
      /\ SameOperation(i) /\ ops[i].state = "starting" /\ ops'[i].state = "uncertain"
      /\ ops'[i].result = ops[i].result /\ claims' = claims
  BY <1>1 DEF Doubts, Shows
<1>3. ClaimsStay BY <1>2 DEF ClaimsStay
<1>4. CanonicalDocument(session)' /\ RevisionState(session)' BY <1>0, <1>1, DoubtDocument
<1>5. CurrentLaunchRelation(session)' BY <1>0, <1>2, LaunchCarried DEF Steady
<1>6. ActiveRelations'
  <2>1. ActiveBusiness(session, i, ops[i])'
    <3>1. ActiveBusiness(session, i, ops[i]) BY <1>0, <1>2, ReadableActive
    <3> QED BY <1>2, <3>1 DEF ActiveBusiness, Business, SameOperation, MintedBy, WriterKinds
  <2>2. Relations(i)'
    <3>1. session'.active.id = i BY <1>2, PointerNamed
    <3> QED BY <1>0, <1>2, <1>3, <3>1, ReadableActive, StayIsSettle, RelationsKept
      DEF Steady, Lasting
  <2>3. ops'[i].request.kind = "writer-force-fence" =>
          FenceTargetSource(ops[i].request, ops[i].expected)'
    BY <1>0, <1>2, FenceSourceNext DEF Steady, SameOperation
  <2> QED BY <1>2, <2>1, <2>2, <2>3, ActiveNext DEF ActivePhases
<1>7. TerminalRelations' BY <1>0, <1>2, <1>3, PhaseTerminal
<1> QED BY <1>4, <1>5, <1>6, <1>7 DEF SessionReadable

\* The world writes no row of the session.
LEMMA WorldReadable ==
    ASSUME ReadableInv, Steady, ClaimsStay, session' = session, ops' = ops,
           reservations' = reservations
    PROVE  SessionReadable'
<1>0. TypedInv /\ SessionReadable /\ LastNamed /\ CurrentLaunchRelation(session) /\ ActiveNamed
  BY DEF ReadableInv, WriterInv, AuthorityInv, SessionReadable
<1>1. CanonicalDocument(session)' /\ RevisionState(session)'
  <2>1. PICK n : n = session'
    OBVIOUS
  <2>2. CanonicalDocument(n) BY <1>0, <2>1 DEF SessionReadable
  <2>3. RevisionState(session)' BY <1>0 DEF SessionReadable, RevisionState
  <2> QED BY <2>1, <2>2, <2>3, LifecycleNext
<1>2. CurrentLaunchRelation(session)' BY <1>0, LaunchCarried DEF Steady
<1>3. ActiveRelations'
  <2>1. CASE session.active = NoPointer BY <2>1, InactiveNext DEF Steady
  <2>2. CASE session.active # NoPointer
    <3>1. PICK i \in OpId : i = session.active.id BY <1>0, <2>2 DEF ActiveNamed
    <3>2. session.active = Pointer(i, ops[i]) /\ ops[i].state \in ActivePhases
      BY <1>0, <3>1, ActiveRevision, ReadableActive
    <3>3. Lasting(i) /\ SameOperation(i) BY DEF Lasting, SameOperation
    <3>4. Relations(i)'
      BY <1>0, <3>1, <3>3, ReadableActive, StayIsSettle, RelationsKept DEF Steady
    <3>5. ActiveBusiness(session, i, ops[i])'
      BY <1>0, <3>1, ReadableActive DEF ActiveBusiness, Business, MintedBy
    <3>6. ops'[i].request.kind = "writer-force-fence" =>
            FenceTargetSource(ops[i].request, ops[i].expected)'
      BY <1>0, <3>1, <3>3, FenceSourceNext DEF Steady
    <3> QED BY <3>2, <3>4, <3>5, <3>6, ActiveNext
  <2> QED BY <2>1, <2>2
<1>4. TerminalRelations'
  <2>1. SettledSession' = SettledSession BY DEF SettledSession
  <2>2. PICK l : l = session.last.id
    OBVIOUS
  <2>3. session.last # NoPointer => l \in OpId /\ ops'[l] = ops[l] /\ Relations(l)'
    BY <1>0, <2>2, StayIsSettle, LastKept
  <2>4. PICK a : a = session.active.id
    OBVIOUS
  <2>5. a # None => a \in OpId BY <1>0, <2>4 DEF ActiveNamed, NoPointer
  <2>6. a # None => /\ session'.active.id = a /\ SameOperation(a)
                    /\ claims[a] # NoClaim => claims'[a] = claims[a]
    BY <2>4, <2>5 DEF SameOperation, ClaimsStay
  <2>7. TerminalRelations BY <1>0 DEF SessionReadable
  <2> QED BY <2>1, <2>2, <2>3, <2>4, <2>6, <2>7, TerminalKept
<1> QED BY <1>1, <1>2, <1>3, <1>4 DEF SessionReadable

LEMMA DispatchRegistry ==
    ASSUME TypedInv, IntentsFit, NEW i \in OpId, NEW d, Dispatches(i, d),
           NEW r, r = ops[i].request
    PROVE  /\ ClaimsStay
           /\ Contract(ops[i]) \in HandoffContracts =>
                ClaimedBy(r.intent, IntentType(r.kind), i, FALSE)'
<1>1. CASE Contract(ops[i]) \in HandoffContracts
  <2>1. r.intent \in OpId BY <1>1 DEF IntentsFit
  <2>2. claims[r.intent] = NoClaim /\ claims' = ClaimFor(r.intent, IntentType(r.kind), i)
    BY <1>1 DEF Dispatches, DispatchClaims, IntentFree
  <2>3. /\ claims'[r.intent] = [type |-> IntentType(r.kind), claimant |-> i,
                                materialized |-> FALSE]
        /\ \A k \in OpId \ {r.intent} : claims'[k] = claims[k]
    BY <2>1, <2>2 DEF ClaimFor, TypedInv
  <2> QED BY <2>1, <2>2, <2>3 DEF ClaimsStay, ClaimedBy
<1>2. CASE Contract(ops[i]) \notin HandoffContracts
  BY <1>2 DEF Dispatches, DispatchClaims, ClaimsStay
<1> QED BY <1>1, <1>2

\* What the readers find of an operation that was just dispatched.
LEMMA DispatchRelations ==
    ASSUME TypedInv, SessionReadable, IntentsFit, Steady, NEW i \in OpId, NEW d,
           Dispatches(i, d)
    PROVE  Relations(i)'
<1>1. PICK r : r = ops[i].request
  OBVIOUS
<1>2. PICK x : x = ops[i].expected
  OBVIOUS
<1>3. /\ ops'[i].request = r /\ ops'[i].expected = x /\ ops'[i].state = "starting"
      /\ session.active.id = i /\ ops[i].state = "prepared"
      /\ session'.launch = session.launch
  BY <1>1, <1>2 DEF Dispatches, Starts, SameOperation, Shows
<1>4. /\ ~Undispatched(ops'[i]) /\ ~Cancelled(ops'[i]) /\ ops'[i].state # "committed"
      /\ ~Cancelled(ops[i])
  BY <1>3 DEF Undispatched, Cancelled
<1>5. Contract(ops[i]) \in HandoffContracts =>
        ClaimedBy(r.intent, IntentType(r.kind), i, FALSE)'
  BY <1>1, DispatchRegistry
<1>6. Relations(i) /\ HistoryKept BY <1>3, ReadableActive DEF Steady
<1>7. ReservationRelation(i)' BY DEF Steady, Reserved
<1>8. CaptureRelations(i)' BY <1>4 DEF CaptureRelations
<1>9. r.kind = "restore-generation" => GenerationRelations(i)'
  <2> SUFFICES ASSUME r.kind = "restore-generation" PROVE GenerationRelations(i)'
    OBVIOUS
  <2>1. Committed(r.source, "checkpoint-captured")
    BY <1>1 DEF Dispatches, DispatchDocument, CheckpointSource, MintingKinds
  <2>2. Committed(r.source, "checkpoint-captured")' BY <1>6, <2>1, CommittedKept
  <2>3. r.version = 2 => ClaimedBy(r.intent, "restore-launch-intent", i, FALSE)'
    BY <1>1, <1>5, ContractFacts DEF IntentType
  <2>4. (ops'[i].state = "committed") = FALSE BY <1>4
  <2> QED BY <1>3, <1>4, <2>2, <2>3, <2>4 DEF GenerationRelations
<1>10. r.kind = "restore-activation" => ActivationRelations(i)'
  <2> SUFFICES ASSUME r.kind = "restore-activation" PROVE ActivationRelations(i)'
    OBVIOUS
  <2>1. ActivationCore(r, x) BY <1>1, <1>2, <1>4, <1>6 DEF Relations, ActivationRelations
  <2>2. ActivationCore(r, x)' BY <1>6, <2>1, CoreKept
  <2>3. ClaimedBy(r.intent, "activation-launch-intent", i, FALSE)'
    BY <1>1, <1>5, ContractFacts DEF IntentType
  <2>4. (ops'[i].state = "committed") = FALSE BY <1>4
  <2> QED BY <1>3, <1>4, <2>2, <2>3, <2>4 DEF ActivationRelations
<1>11. r.kind = "writer-launch-attempt" => LaunchRelations(i)'
  <2> SUFFICES ASSUME r.kind = "writer-launch-attempt" PROVE LaunchRelations(i)'
    OBVIOUS
  <2>1. PICK a : a = x.attachment
    OBVIOUS
  <2>2. LaunchGeneration(r, a)
    BY <1>1, <1>2, <2>1 DEF Dispatches, DispatchDocument, MintingKinds
  <2>3. LaunchGeneration(r, a)' BY <1>6, <2>2, LaunchGenerationKept
  <2> QED BY <1>3, <1>4, <2>1, <2>3 DEF LaunchRelations
<1>12. r.kind = "writer-launch-stop" => StopRelations(i)'
  <2> SUFFICES ASSUME r.kind = "writer-launch-stop" PROVE StopRelations(i)'
    OBVIOUS
  <2>1. StopNamesItself(i, r) /\ x.launch # NoLaunch /\ CurrentLaunchRelation(x)
    BY <1>1, <1>2, <1>6 DEF Relations, StopRelations
  <2>2. CurrentLaunchRelation(x)' BY <1>6, <2>1, CurrentLaunchKept
  <2>3. r.version = 3 => ClaimedBy(r.intent, "stop-capture-intent", i, FALSE)'
    BY <1>1, <1>5, ContractFacts DEF IntentType
  <2>4. (ops'[i].state = "committed") = FALSE BY <1>4
  <2>5. session'.launch = x.launch
    BY <1>1, <1>2, <1>3 DEF Dispatches, DispatchDocument, MintingKinds
  <2> QED BY <1>3, <1>4, <2>1, <2>2, <2>3, <2>4, <2>5 DEF StopRelations, StopNamesItself
<1>13. r.kind = "writer-force-fence" => FenceRelations(i)'
  <2> SUFFICES ASSUME r.kind = "writer-force-fence" PROVE FenceRelations(i)'
    OBVIOUS
  <2>1. r.version = 2 => ClaimedBy(r.intent, "fence-capture-intent", i, FALSE)'
    BY <1>1, <1>5, ContractFacts DEF IntentType
  <2>2. Committed(i, "writer-fenced")' = FALSE BY <1>4 DEF Committed
  <2> QED BY <1>3, <1>4, <2>1, <2>2 DEF FenceRelations
<1>14. r.kind # "atomic-crash-capture"
  BY <1>1 DEF Dispatches, DispatchDocument, MintingKinds
<1> QED BY <1>3, <1>7, <1>8, <1>9, <1>10, <1>11, <1>12, <1>13, <1>14 DEF Relations

LEMMA DispatchBusiness ==
    ASSUME TypedInv, SessionReadable, NEW i \in OpId, NEW d, Dispatches(i, d)
    PROVE  ActiveBusiness(session, i, ops[i])'
<1>1. PICK k : k = ops[i].request.kind
  OBVIOUS
<1>2. PICK x : x = ops[i].expected
  OBVIOUS
<1>3. /\ ops'[i].request.kind = k /\ ops'[i].expected = x /\ ops'[i].state = "starting"
      /\ session.active.id = i /\ ops[i].state = "prepared"
      /\ session'.lifecycle = d.lifecycle /\ session'.epoch = d.epoch
      /\ session'.lease = d.lease /\ session'.attachment = session.attachment
      /\ session'.launch = session.launch
  BY <1>1, <1>2 DEF Dispatches, Starts, SameOperation, Shows
<1>4. Business(session) = Business(x) BY <1>2, <1>3, ReadableActive DEF ActiveBusiness
<1>5. /\ session.lifecycle = x.lifecycle /\ session.epoch = x.epoch /\ session.lease = x.lease
      /\ session.attachment = x.attachment /\ session.launch = x.launch
  BY <1>4 DEF Business
<1>6. CASE k \in MintingKinds
  <2>1. /\ Detached /\ d.lifecycle = "ATTACHING" /\ d.epoch = session.epoch + 1
        /\ d.lease = MintedLease(i)
    BY <1>1, <1>6 DEF Dispatches, DispatchDocument, MintingKinds
  <2>2. d.lease.id = i /\ d.lease.epoch = session.epoch + 1
    BY <2>1 DEF MintedLease, NextEpoch
  <2>3. session.attachment = NoAttachment BY <2>1, ReadableDocument DEF Detached, NoWriter
  <2> QED BY <1>3, <1>5, <1>6, <2>1, <2>2, <2>3 DEF ActiveBusiness, MintedBy, MintingKinds,
    WriterKinds
<1>7. CASE k = "writer-release"
  <2>1. d.lifecycle = "RELEASING" /\ d.epoch = session.epoch /\ d.lease = session.lease
    BY <1>1, <1>7 DEF Dispatches, DispatchDocument, MintingKinds
  <2> QED BY <1>3, <1>5, <1>7, <2>1 DEF ActiveBusiness, WriterKinds
<1>8. CASE k = "writer-force-fence"
  <2>1. d.lifecycle = "FENCING" /\ d.epoch = session.epoch + 1 /\ d.lease = session.lease
    BY <1>1, <1>8 DEF Dispatches, DispatchDocument, MintingKinds
  <2> QED BY <1>3, <1>5, <1>8, <2>1 DEF ActiveBusiness, WriterKinds
<1>9. CASE k \notin MintingKinds \cup {"writer-release", "writer-force-fence"}
  <2>1. /\ d.lifecycle = session.lifecycle /\ d.epoch = session.epoch
        /\ d.lease = session.lease /\ k # "atomic-crash-capture"
    BY <1>1, <1>9 DEF Dispatches, DispatchDocument
  <2>2. k \notin WriterKinds \cup {"restore-activation"}
    BY <1>9 DEF MintingKinds, WriterKinds
  <2> QED BY <1>3, <1>5, <2>1, <2>2 DEF ActiveBusiness, Business
<1> QED BY <1>6, <1>7, <1>8, <1>9

LEMMA DispatchReadable ==
    ASSUME ReadableInv, Steady, NEW i \in OpId, Dispatch(i)
    PROVE  SessionReadable'
<1>0. /\ TypedInv /\ SessionReadable /\ LastNamed /\ CurrentLaunchRelation(session)
      /\ IntentsFit
  BY DEF ReadableInv, WriterInv, AuthorityInv, SessionReadable
<1>1. PICK d \in Snapshots : Dispatches(i, d) BY <1>0, DispatchWrites
<1>2. /\ session'.lease = d.lease /\ session'.attachment = session.attachment
      /\ session'.launch = session.launch /\ session'.last = session.last
      /\ session.active.id = i /\ session'.active = Pointer(i, ops'[i])
      /\ SameOperation(i) /\ ops'[i].state = "starting"
  BY <1>1 DEF Dispatches, Starts, Shows
<1>3. ClaimsStay BY <1>0, <1>1, DispatchRegistry
<1>4. CanonicalDocument(session)' /\ RevisionState(session)'
  BY <1>0, <1>1, DispatchDocuments
<1>5. CurrentLaunchRelation(session)'
  <2>1. CASE ops[i].request.kind \in MintingKinds
    <3>1. Detached BY <1>1, <2>1 DEF Dispatches, DispatchDocument, MintingKinds
    <3>2. session'.launch = NoLaunch
      BY <1>0, <1>2, <3>1, ReadableDocument DEF Detached, NoWriter
    <3> QED BY <1>0, <3>2, LaunchCarried DEF Steady
  <2>2. CASE ops[i].request.kind \notin MintingKinds
    <3>1. session'.lease = session.lease
      BY <1>1, <1>2, <2>2 DEF Dispatches, DispatchDocument
    <3> QED BY <1>0, <1>2, <3>1, LaunchCarried DEF Steady
  <2> QED BY <2>1, <2>2
<1>6. ActiveRelations'
  <2>1. ops'[i].request.kind = "writer-force-fence" =>
          FenceTargetSource(ops[i].request, ops[i].expected)'
    BY <1>0, <1>2, FenceSourceNext DEF Steady, SameOperation
  <2>2. Relations(i)' /\ ActiveBusiness(session, i, ops[i])'
    BY <1>0, <1>1, DispatchRelations, DispatchBusiness
  <2> QED BY <1>2, <2>1, <2>2, ActiveNext DEF ActivePhases
<1>7. TerminalRelations' BY <1>0, <1>2, <1>3, PhaseTerminal
<1> QED BY <1>4, <1>5, <1>6, <1>7 DEF SessionReadable

\* The outcomes that the methods record, by kind.
LEMMA SettleOutcomes ==
    ASSUME NEW i, NEW result, NEW d, SettleDocument(i, result, d)
    PROVE  LET kind == ops[i].request.kind IN
           /\ kind = "checkpoint-capture" => result.outcome = "checkpoint-captured"
           /\ kind = "restore-generation" => result.outcome = "restore-generation-committed"
           /\ kind = "restore-activation" => result.outcome = "restore-attachment-activated"
           /\ kind = "writer-launch-attempt" => result.outcome \in LaunchOutcomes
           /\ kind = "writer-launch-stop" => result.outcome = "writer-launch-stopped"
           /\ kind = "writer-force-fence" =>
                result.outcome \in {"writer-fenced", "writer-blocked"}
           /\ result.outcome = "writer-launch-stopped" => kind = "writer-launch-stop"
           /\ result.outcome = "writer-fenced" => kind = "writer-force-fence"
           /\ result.outcome = "writer-blocked" => kind \in WriterKinds
           /\ kind # "atomic-crash-capture"
BY DEF SettleDocument, WriterResult, FencedResult, Outcome, NoResult, LaunchOutcomes,
   MintingKinds, WriterKinds

\* Operation i is settled: alone, blocked, or with the operation it hands over to.
SettledRow(i, result) ==
    /\ ops'[i].state = "committed" /\ SameOperation(i) /\ ops'[i].result = result
    /\ \/ Contract(ops[i]) \notin HandoffContracts
       \/ result.outcome = "writer-blocked" /\ claims' = claims
       \/ /\ result.outcome # "writer-blocked"
          /\ ClaimedBy(ops[i].request.intent, IntentType(ops[i].request.kind), i, TRUE)'

\* What the readers find of an operation that was just settled.
LEMMA SettleRelations ==
    ASSUME TypedInv, SessionReadable, Steady, NEW i \in OpId, NEW result, NEW d,
           session.active.id = i, ops[i].state \in Dispatched, SettleDocument(i, result, d),
           SettledRow(i, result)
    PROVE  Relations(i)'
<1>1. PICK r : r = ops[i].request
  OBVIOUS
<1>2. PICK x : x = ops[i].expected
  OBVIOUS
<1>3. /\ ops'[i].request = r /\ ops'[i].expected = x /\ ops'[i].state = "committed"
      /\ ops'[i].result = result
  BY <1>1, <1>2 DEF SettledRow, SameOperation
<1>4. /\ ~Undispatched(ops'[i]) /\ ~Cancelled(ops'[i])
      /\ ~Undispatched(ops[i]) /\ ~Cancelled(ops[i]) /\ ops[i].state # "committed"
  BY <1>3, SettleOutcome DEF Undispatched, Cancelled, Dispatched
<1>5. (Contract(ops[i]) \in HandoffContracts /\ result.outcome # "writer-blocked") =>
        ClaimedBy(r.intent, IntentType(r.kind), i, TRUE)'
  BY <1>1, <1>3 DEF SettledRow, SameOperation, ClaimedBy
<1>6. Relations(i) /\ HistoryKept BY ReadableActive DEF Steady
<1>7. ReservationRelation(i)' BY DEF Steady, Reserved
<1>o. \A outcome : result.outcome = outcome => Committed(i, outcome)' BY <1>3 DEF Committed
<1>8. r.kind = "checkpoint-capture" => CaptureRelations(i)'
  BY <1>1, <1>o, SettleOutcomes DEF CaptureRelations
<1>9. r.kind = "restore-generation" => GenerationRelations(i)'
  <2> SUFFICES ASSUME r.kind = "restore-generation" PROVE GenerationRelations(i)'
    OBVIOUS
  <2>1. Committed(r.source, "checkpoint-captured")
    BY <1>1, <1>4, <1>6 DEF Relations, GenerationRelations
  <2>2. Committed(r.source, "checkpoint-captured")' BY <1>6, <2>1, CommittedKept
  <2>o. result.outcome = "restore-generation-committed" BY <1>1, SettleOutcomes
  <2>3. r.version = 2 => ClaimedBy(r.intent, "restore-launch-intent", i, TRUE)'
    BY <1>1, <1>5, <2>o, ContractFacts DEF IntentType
  <2>4. (ops'[i].state = "committed") = TRUE BY <1>3
  <2> QED BY <1>3, <1>o, <2>o, <2>2, <2>3, <2>4 DEF GenerationRelations
<1>10. r.kind = "restore-activation" => ActivationRelations(i)'
  <2> SUFFICES ASSUME r.kind = "restore-activation" PROVE ActivationRelations(i)'
    OBVIOUS
  <2>1. ActivationCore(r, x) BY <1>1, <1>2, <1>4, <1>6 DEF Relations, ActivationRelations
  <2>2. ActivationCore(r, x)' BY <1>6, <2>1, CoreKept
  <2>o. result.outcome = "restore-attachment-activated" BY <1>1, SettleOutcomes
  <2>3. ClaimedBy(r.intent, "activation-launch-intent", i, TRUE)'
    BY <1>1, <1>5, <2>o, ContractFacts DEF IntentType
  <2>4. (ops'[i].state = "committed") = TRUE BY <1>3
  <2> QED BY <1>3, <1>o, <2>o, <2>2, <2>3, <2>4 DEF ActivationRelations
<1>11. r.kind = "writer-launch-attempt" => LaunchRelations(i)'
  <2> SUFFICES ASSUME r.kind = "writer-launch-attempt" PROVE LaunchRelations(i)'
    OBVIOUS
  <2>1. PICK a : a = x.attachment
    OBVIOUS
  <2>2. LaunchGeneration(r, a)
    BY <1>1, <1>2, <1>4, <1>6, <2>1 DEF Relations, LaunchRelations
  <2>3. LaunchGeneration(r, a)' BY <1>6, <2>2, LaunchGenerationKept
  <2>o. result.outcome \in LaunchOutcomes BY <1>1, SettleOutcomes
  <2> QED BY <1>3, <2>1, <2>3, <2>o DEF LaunchRelations, LaunchOutcomes
<1>12. r.kind = "writer-launch-stop" => StopRelations(i)'
  <2> SUFFICES ASSUME r.kind = "writer-launch-stop" PROVE StopRelations(i)'
    OBVIOUS
  <2>1. StopNamesItself(i, r) /\ x.launch # NoLaunch /\ CurrentLaunchRelation(x)
    BY <1>1, <1>2, <1>6 DEF Relations, StopRelations
  <2>2. CurrentLaunchRelation(x)' BY <1>6, <2>1, CurrentLaunchKept
  <2>o. result.outcome = "writer-launch-stopped" BY <1>1, SettleOutcomes
  <2>3. r.version = 3 => ClaimedBy(r.intent, "stop-capture-intent", i, TRUE)'
    BY <1>1, <1>5, <2>o, ContractFacts DEF IntentType
  <2>4. (ops'[i].state = "committed") = TRUE BY <1>3
  <2> QED BY <1>3, <1>4, <1>o, <2>1, <2>2, <2>3, <2>4, <2>o DEF StopRelations,
    StopNamesItself
<1>13. r.kind = "writer-force-fence" => FenceRelations(i)'
  <2> SUFFICES ASSUME r.kind = "writer-force-fence", r.version = 2 PROVE FenceRelations(i)'
    BY <1>3 DEF FenceRelations
  <2>1. CASE result.outcome = "writer-fenced"
    <3>1. ClaimedBy(r.intent, "fence-capture-intent", i, TRUE)'
      BY <1>1, <1>5, <2>1, ContractFacts DEF IntentType
    <3>2. Committed(i, "writer-fenced")' = TRUE BY <1>o, <2>1 DEF Committed
    <3> QED BY <1>3, <1>4, <3>1, <3>2 DEF FenceRelations
  <2>2. CASE result.outcome = "writer-blocked"
    <3>1. claims' = claims BY <1>1, <2>2, ContractFacts DEF SettledRow
    <3>2. Committed(i, "writer-fenced") = FALSE BY <1>4 DEF Committed
    <3>3. ClaimedBy(r.intent, "fence-capture-intent", i, FALSE)
      BY <1>1, <1>4, <1>6, <3>2 DEF Relations, FenceRelations
    <3>4. ClaimedBy(r.intent, "fence-capture-intent", i, FALSE)' BY <3>1, <3>3 DEF ClaimedBy
    <3>5. Committed(i, "writer-fenced")' = FALSE BY <1>3, <2>2 DEF Committed
    <3> QED BY <1>3, <1>4, <3>4, <3>5 DEF FenceRelations
  <2> QED BY <1>1, <2>1, <2>2, SettleOutcomes
<1>14. r.kind # "atomic-crash-capture" BY <1>1, SettleOutcomes
<1> QED BY <1>3, <1>7, <1>8, <1>9, <1>10, <1>11, <1>12, <1>13, <1>14 DEF Relations

\* The launch that the session records after a settlement.
LEMMA SettleLaunch ==
    ASSUME TypedInv, SessionReadable, ActiveFits, Steady, NEW i \in OpId, NEW result, NEW d,
           session.active.id = i, ops[i].state \in Dispatched, SettleDocument(i, result, d),
           SettledRow(i, result), Shows(d), Relations(i)'
    PROVE  CurrentLaunchRelation(session)'
<1>0. /\ session \in Snapshots /\ CurrentLaunchRelation(session) /\ HistoryKept
      /\ session'.launch = d.launch /\ session'.lease = d.lease
      /\ session'.attachment = d.attachment
  BY DEF TypedInv, TypedRows, SessionReadable, Steady, Shows
<1>1. CASE d.launch = NoLaunch BY <1>0, <1>1, LaunchCarried
<1>2. CASE /\ d.launch = session.launch /\ d.lease = session.lease
           /\ d.attachment = session.attachment
  BY <1>0, <1>2, LaunchCarried
<1>3. CASE /\ d = LaunchedSession(i, "writer-launch-started")
           /\ ops[i].request.kind = "writer-launch-attempt"
           /\ result.outcome = "writer-launch-started"
  <2>1. /\ d.launch = LaunchPointer(i, ops[i]) /\ d.lease = session.lease
        /\ d.attachment = session.attachment
    BY <1>0, <1>3, DocumentFields
  <2>2. session.lease = ops[i].expected.lease /\ session.attachment = ops[i].expected.attachment
    BY <1>3, BusyFacts DEF AttachedKinds
  <2>3. /\ ops'[i].request = ops[i].request /\ ops'[i].expected = ops[i].expected
        /\ Committed(i, "writer-launch-started")'
    BY <1>3 DEF SettledRow, SameOperation, Committed
  <2>4. LaunchRelations(i)' BY <1>3, <2>3 DEF Relations
  <2>5. session'.launch = LaunchPointer(i, ops'[i]) /\ session'.launch.id = i
    BY <1>0, <2>1, <2>3 DEF LaunchPointer
  <2>6. ops[i].expected.lease.term \in Nat
    BY DEF TypedInv, TypedRows, Operations, Snapshots, Leases
  <2>7. session'.lease.term >= ops'[i].expected.lease.term BY <1>0, <2>1, <2>2, <2>3, <2>6
  <2> QED BY <1>0, <2>1, <2>2, <2>3, <2>4, <2>5, <2>7 DEF CurrentLaunchRelation,
    LaunchPointer
<1>4. CASE ops[i].request.kind \in MintingKinds
  <2>1. session.launch = NoLaunch BY <1>4, BusyFacts
  <2>2. d.launch = session.launch
    <3>1. \/ d = [session EXCEPT !.lifecycle = "ATTACHED", !.attachment = AttachmentUnderLease]
          \/ d = BlockedSession
      BY <1>4 DEF SettleDocument, MintingKinds
    <3> QED BY <1>0, <3>1, DocumentFields
  <2> QED BY <1>1, <2>1, <2>2
<1> QED BY <1>0, <1>1, <1>2, <1>3, <1>4, DocumentFields DEF SettleDocument, LaunchedSession,
  LaunchOutcomes, WriterKinds, Outcome, NoResult

\* The revisions that a settlement leaves.
LEMMA CommitRevision ==
    ASSUME TypedInv, SessionReadable, NEW i \in OpId, session.active.id = i,
           SameOperation(i), ops'[i].revision = ops[i].revision + 1,
           session'.last = Pointer(i, ops'[i])
    PROVE  /\ session'.last # NoPointer
           /\ RevisionOf(session'.last) = session.revision + 1
<1>1. /\ session'.last # NoPointer
      /\ session'.last.expected = ops[i].expected.revision
      /\ session'.last.revision = ops[i].revision + 1
  BY PointerNamed DEF SameOperation
<1> QED BY <1>1, ActiveRevision DEF RevisionOf

LEMMA AloneReadable ==
    ASSUME ReadableInv, Steady, NEW i \in OpId, NEW result, NEW d, Settles(i, result, d),
           SettlesAlone(i, result, d)
    PROVE  SessionReadable'
<1>0. /\ AuthorityInv /\ TypedInv /\ SessionReadable /\ ActiveFits
      /\ session.active.id = i /\ ops[i].state \in Dispatched /\ SettleDocument(i, result, d)
  BY DEF ReadableInv, WriterInv, AuthorityInv, Settles
<1>1. /\ Shows(d) /\ session'.revision = d.revision + 1 /\ session'.active = NoPointer
      /\ session'.last = Pointer(i, ops'[i]) /\ ops'[i].state = "committed"
      /\ ops'[i].revision = ops[i].revision + 1 /\ SameOperation(i)
      /\ ops'[i].result = result
      /\ Contract(ops[i]) \notin HandoffContracts \/ result.outcome = "writer-blocked"
      /\ claims' = claims
  BY DEF SettlesAlone, Commits
<1>2. Restful(d) /\ d.revision = session.revision BY <1>0, SettleRestful
<1>3. session'.last # NoPointer /\ RevisionOf(session'.last) = session.revision + 1
  BY <1>0, <1>1, CommitRevision
<1>4. CanonicalDocument(session)' BY <1>1, <1>2, <1>3, RestfulNext
<1>5. RevisionState(session)' BY <1>1, <1>2, <1>3 DEF RevisionState
<1>6. SettledRow(i, result) BY <1>1 DEF SettledRow
<1>7. Relations(i)' BY <1>0, <1>6, SettleRelations
<1>8. CurrentLaunchRelation(session)' BY <1>0, <1>1, <1>6, <1>7, SettleLaunch
<1>9. ActiveRelations' BY <1>1, InactiveNext DEF Steady
<1>10. TerminalRelations'
  <2>1. PICK n : n = session'
    OBVIOUS
  <2>2. TerminalBusiness(n, ops'[i])
    BY <1>0, <1>1, <2>1, SettleBusiness DEF Shows, SameOperation
  <2>3. TerminalBusiness(session, ops[i])' BY <2>1, <2>2, TerminalNext
  <2>4. ~HandsOff(ops'[i])
    <3>1. result.outcome = "writer-blocked" => ~HandsOff(ops'[i]) BY <1>1 DEF HandsOff
    <3>2. HandsOff(ops'[i]) => Contract(ops[i]) \in HandoffContracts
      BY <1>1 DEF HandsOff, Contract, SameOperation, HandoffContracts,
         HandoffToTypedOperation
    <3> QED BY <1>1, <3>1, <3>2
  <2> QED BY <1>1, <1>7, <2>3, <2>4, TerminalSettled
<1> QED BY <1>4, <1>5, <1>8, <1>9, <1>10 DEF SessionReadable

LEMMA CancelRelations ==
    ASSUME TypedInv, SessionReadable, Steady, NEW i \in OpId, session.active.id = i,
           session'.last.id = i, ops[i].state = "prepared", ops[i].request.kind # "atomic-crash-capture",
           ops'[i].state = "committed", SameOperation(i),
           ops'[i].result.outcome = "cancelled-before-dispatch"
    PROVE  Relations(i)'
<1>1. PICK r : r = ops[i].request
  OBVIOUS
<1>2. PICK x : x = ops[i].expected
  OBVIOUS
<1>3. /\ ops'[i].request = r /\ ops'[i].expected = x
      /\ Undispatched(ops'[i]) /\ Cancelled(ops'[i]) /\ Undispatched(ops[i])
  BY <1>1, <1>2 DEF SameOperation, Undispatched, Cancelled
<1>4. Relations(i) /\ HistoryKept BY ReadableActive DEF Steady
<1>5. ReservationRelation(i)' BY DEF Steady, Reserved
<1>6. /\ CaptureRelations(i)' /\ GenerationRelations(i)' /\ LaunchRelations(i)'
      /\ ActivationRelations(i)'
  BY <1>3 DEF CaptureRelations, GenerationRelations, LaunchRelations, ActivationRelations
<1>7. r.kind = "writer-launch-stop" => StopRelations(i)'
  <2> SUFFICES ASSUME r.kind = "writer-launch-stop" PROVE StopRelations(i)'
    OBVIOUS
  <2>1. StopNamesItself(i, r) /\ x.launch # NoLaunch /\ CurrentLaunchRelation(x)
    BY <1>1, <1>2, <1>4 DEF Relations, StopRelations
  <2>2. CurrentLaunchRelation(x)' BY <1>4, <2>1, CurrentLaunchKept
  <2>3. r.version = 3 => claims'[r.intent] = NoClaim
    BY <1>3 DEF Steady, RequestsSound, Read, RequestSound, Contract
  <2> QED BY <1>3, <2>1, <2>2, <2>3 DEF StopRelations, StopNamesItself
<1>8. r.kind = "writer-force-fence" => FenceRelations(i)'
  BY <1>3, FenceUnclaimed DEF FenceRelations, Steady
<1> QED BY <1>1, <1>3, <1>5, <1>6, <1>7, <1>8 DEF Relations

LEMMA CancelReadable ==
    ASSUME ReadableInv, Steady, NEW i \in OpId, CancelPreparedOperation(i)
    PROVE  SessionReadable'
<1>0. TypedInv /\ SessionReadable /\ session \in Snapshots
  BY DEF ReadableInv, WriterInv, AuthorityInv, TypedInv, TypedRows
<1>1. /\ Cancellable(i) /\ claims' = claims
      /\ Commits(i, Outcome("cancelled-before-dispatch"), session)
  BY <1>0, CancelWrites
<1>2. /\ Shows(session) /\ session'.revision = session.revision + 1
      /\ session'.active = NoPointer
      /\ session'.last = Pointer(i, ops'[i]) /\ ops'[i].state = "committed"
      /\ ops'[i].revision = ops[i].revision + 1 /\ SameOperation(i)
      /\ ops'[i].result.outcome = "cancelled-before-dispatch"
  BY <1>1 DEF Commits, Outcome, NoResult
<1>3. /\ session.active.id = i /\ ops[i].state = "prepared"
      /\ ops[i].request.kind # "atomic-crash-capture"
      /\ ops[i].expected.lifecycle # "BLOCKED"
  BY <1>1 DEF Cancellable
<1>4. session'.last # NoPointer /\ RevisionOf(session'.last) = session.revision + 1
  BY <1>0, <1>2, <1>3, CommitRevision
<1>5. CanonicalDocument(session)' BY <1>0, <1>2, <1>3, <1>4, PreparedRestful, RestfulNext
<1>6. RevisionState(session)' BY <1>2, <1>4 DEF RevisionState
<1>7. Relations(i)' BY <1>0, <1>2, <1>3, PointerNamed, CancelRelations
<1>8. CurrentLaunchRelation(session)'
  BY <1>0, <1>2, LaunchCarried DEF Shows, Steady, SessionReadable
<1>9. ActiveRelations' BY <1>2, InactiveNext DEF Steady
<1>10. TerminalRelations'
  <2>1. Business(session) = Business(ops[i].expected)
    BY <1>0, <1>3, ReadableActive DEF ActiveBusiness
  <2>2. PICK n : n = session'
    OBVIOUS
  <2>3. Business(n) = Business(ops'[i].expected)
    BY <1>2, <2>1, <2>2 DEF Business, Shows, SameOperation
  <2>4. TerminalBusiness(n, ops'[i]) BY <1>2, <1>3, <2>3 DEF TerminalBusiness, SameOperation
  <2>5. TerminalBusiness(session, ops[i])' BY <2>2, <2>4, TerminalNext
  <2>6. ~HandsOff(ops'[i]) BY <1>2 DEF HandsOff
  <2> QED BY <1>2, <1>7, <2>5, <2>6, TerminalSettled
<1> QED BY <1>5, <1>6, <1>8, <1>9, <1>10 DEF SessionReadable

\* The session that a settled operation leaves to the one it hands over to.
LEMMA SettledFields ==
    ASSUME NEW d \in Snapshots, NEW i, NEW o, NEW x, x = Settled(d, i, o)
    PROVE  /\ x.revision = d.revision + 1 /\ x.active = NoPointer /\ x.last = Pointer(i, o)
           /\ x.lifecycle = d.lifecycle /\ x.epoch = d.epoch /\ x.lease = d.lease
           /\ x.attachment = d.attachment /\ x.launch = d.launch
BY DEF Settled, Snapshots

LEMMA ClaimMaterialized ==
    ASSUME NEW t, NEW i, NEW c, c = [type |-> t, claimant |-> i, materialized |-> FALSE]
    PROVE  [c EXCEPT !.materialized = TRUE] =
             [type |-> t, claimant |-> i, materialized |-> TRUE]
<1>1. ASSUME NEW m, NEW n, c = [type |-> t, claimant |-> i, materialized |-> m]
      PROVE  [c EXCEPT !.materialized = n] = [type |-> t, claimant |-> i, materialized |-> n]
  BY <1>1
<1> QED BY <1>1, Zenon

\* What a handoff writes.
LEMMA OverFacts ==
    ASSUME TypedInv, IntentsFit, NEW i \in OpId, NEW result, NEW d \in Snapshots,
           SettlesOver(i, result, d), NEW j, j = ops[i].request.intent
    PROVE  /\ j \in OpId \ {i} /\ ops[j].state = "absent" /\ result.outcome # "writer-blocked"
           /\ Contract(ops[i]) \in HandoffContracts
           /\ HandsOver(i, result, d, j, HandoffRequest(i)) /\ SettledRow(i, result)
           /\ claims'[j] = [type |-> IntentType(ops[i].request.kind), claimant |-> i,
                            materialized |-> TRUE]
<1>1. /\ Contract(ops[i]) \in HandoffContracts /\ result.outcome # "writer-blocked"
      /\ j # i /\ ops[j].state = "absent"
      /\ ClaimedBy(j, IntentType(ops[i].request.kind), i, FALSE)
      /\ HandsOver(i, result, d, j, HandoffRequest(i))
      /\ claims' = [claims EXCEPT ![j] = [claims[j] EXCEPT !.materialized = TRUE]]
  BY DEF SettlesOver
<1>2. j \in OpId BY <1>1 DEF ClaimedBy
<1>3. claims'[j] = [claims[j] EXCEPT !.materialized = TRUE] BY <1>1, <1>2 DEF TypedInv
<1>4. claims'[j] = [type |-> IntentType(ops[i].request.kind), claimant |-> i,
                    materialized |-> TRUE]
  <2>1. PICK t : t = IntentType(ops[i].request.kind)
    OBVIOUS
  <2>2. claims[j] = [type |-> t, claimant |-> i, materialized |-> FALSE]
    BY <1>1, <2>1 DEF ClaimedBy
  <2>3. claims'[j] = [type |-> t, claimant |-> i, materialized |-> TRUE]
    BY <1>3, <2>2, ClaimMaterialized
  <2> QED BY <2>1, <2>3
<1>5. ops'[i].state = "committed" /\ SameOperation(i) /\ ops'[i].result = result
  BY <1>1 DEF HandsOver
<1>6. ClaimedBy(ops[i].request.intent, IntentType(ops[i].request.kind), i, TRUE)'
  <2>1. ops'[i].request = ops[i].request BY <1>5 DEF SameOperation
  <2> QED BY <1>2, <1>4, <2>1 DEF ClaimedBy, IntentType
<1> QED BY <1>1, <1>2, <1>4, <1>5, <1>6 DEF SettledRow

\* What the readers find of an operation that was just handed over to.
LEMMA OverRelations ==
    ASSUME TypedInv, IntentsFit, Steady, NEW i \in OpId, NEW result, NEW d \in Snapshots,
           SettlesOver(i, result, d), SettleDocument(i, result, d),
           NEW j, j = ops[i].request.intent
    PROVE  /\ Relations(j)' /\ ops'[j].request.kind # "writer-force-fence"
           /\ ops'[j].state = "prepared" /\ ops'[j].request = HandoffRequest(i)
<1>1. /\ j \in OpId \ {i} /\ result.outcome # "writer-blocked"
      /\ HandsOver(i, result, d, j, HandoffRequest(i))
      /\ claims'[j] = [type |-> IntentType(ops[i].request.kind), claimant |-> i,
                       materialized |-> TRUE]
      /\ Contract(ops[i]) \in HandoffContracts
  BY OverFacts
<1>2. /\ ops'[j].state = "prepared" /\ ops'[j].request = HandoffRequest(i)
      /\ ops'[j].expected = Settled(d, i, ops'[i])
      /\ ops'[i].state = "committed" /\ ops'[i].result = result
  BY <1>1 DEF HandsOver
<1>3. /\ ops'[j].request.kind \in
           {"writer-launch-attempt", "checkpoint-capture", "atomic-crash-capture"}
      /\ ops'[j].request.kind = "atomic-crash-capture" =>
           ops[i].request.kind \notin
             {"restore-generation", "restore-activation", "writer-launch-stop"}
  BY <1>2 DEF HandoffRequest, LaunchHandoffRequest, CaptureHandoffRequest,
     AtomicHandoffRequest, NoRequest
<1>4. Undispatched(ops'[j]) /\ ops'[j].state # "committed" BY <1>2 DEF Undispatched
<1>5. ReservationRelation(j)' BY <1>1 DEF Steady, Reserved
<1>6. CaptureRelations(j)' /\ LaunchRelations(j)'
  BY <1>4 DEF CaptureRelations, LaunchRelations
<1>7. ops'[j].request.kind = "atomic-crash-capture" => AtomicRelations(j)'
  <2> SUFFICES ASSUME ops'[j].request.kind = "atomic-crash-capture" PROVE AtomicRelations(j)'
    OBVIOUS
  <2>1. ops[i].request.kind = "writer-force-fence"
    BY <1>1, <1>3 DEF HandoffContracts, HandoffToTypedOperation, Contract
  <2>2. result.outcome = "writer-fenced" BY <1>1, <2>1, SettleOutcomes
  <2>3. claims'[j].claimant = i /\ Committed(i, "writer-fenced")'
    BY <1>1, <1>2, <2>2 DEF Committed
  <2>4. ClaimedBy(j, "fence-capture-intent", i, TRUE)'
    BY <1>1, <2>1 DEF ClaimedBy, IntentType
  <2>5. PICK x : x = Settled(d, i, ops'[i])
    OBVIOUS
  <2>6. ops'[j].expected.last = Pointer(i, ops'[i]) /\ ops'[j].expected.active = NoPointer
    BY <1>2, <2>5, SettledFields
  <2> QED BY <1>2, <2>3, <2>4, <2>6 DEF AtomicRelations, Pointer
<1> QED BY <1>2, <1>3, <1>5, <1>6, <1>7 DEF Relations

LEMMA OverTerminal ==
    ASSUME TypedInv, SessionReadable, ActiveFits, IntentsFit, Steady, NEW i \in OpId,
           NEW result, NEW d \in Snapshots, Settles(i, result, d), SettlesOver(i, result, d),
           Relations(i)'
    PROVE  TerminalRelations'
<1>1. PICK j : j = ops[i].request.intent
  OBVIOUS
<1>2. /\ j \in OpId \ {i} /\ HandsOver(i, result, d, j, HandoffRequest(i))
      /\ claims'[j] = [type |-> IntentType(ops[i].request.kind), claimant |-> i,
                       materialized |-> TRUE]
      /\ Contract(ops[i]) \in HandoffContracts
  BY <1>1, OverFacts
<1>3. /\ session'.active = Pointer(j, ops'[j]) /\ session'.active.id = j
      /\ session'.last = Pointer(i, ops'[i]) /\ session'.last.id = i
      /\ ops'[i].state = "committed" /\ SameOperation(i) /\ ops'[i].result = result
      /\ ops'[j].request = HandoffRequest(i)
      /\ ops'[j].expected = Settled(d, i, ops'[i])
  BY <1>2 DEF HandsOver
<1>4. PICK x : x = Settled(d, i, ops'[i])
  OBVIOUS
<1>5. /\ x.active = NoPointer /\ x.last = Pointer(i, ops'[i])
      /\ x.lifecycle = d.lifecycle /\ x.epoch = d.epoch /\ x.lease = d.lease
      /\ x.attachment = d.attachment /\ x.launch = d.launch
  BY <1>4, SettledFields
<1>6. session'.active # NoPointer /\ session'.last # NoPointer BY <1>2, <1>3, PointerNamed
<1>7. SettledSession' = x BY <1>3, <1>4, <1>6 DEF SettledSession
<1>8. TerminalBusiness(x, ops'[i]) BY <1>3, <1>5, SettleBusiness DEF SameOperation
<1>9. LastPointerRule(x, i, ops'[i]) BY <1>3, <1>5, <1>8 DEF LastPointerRule, Pointer
<1>10. LastPointerRule(SettledSession, i, ops[i])'
  <2>1. LastPointerRule(x, i, ops[i])' BY <1>9, LastRuleNext
  <2> QED BY <1>7, <2>1 DEF LastPointerRule, TerminalBusiness, Business
<1>11. /\ ops'[i].request = ops[i].request
       /\ ops'[i].expected.attachment.id = ops[i].expected.attachment.id
       /\ ops'[j].expected.last.id = i /\ claims'[j].claimant = i /\ claims'[j].materialized
  BY <1>2, <1>3, <1>4, <1>5, PointerNamed DEF SameOperation
<1>12. (Contract(ops[i]) = <<"writer-launch-stop", 3>>)' =>
         HandedOver(j, i, CaptureHandoffRequest(i))'
  <2> SUFFICES ASSUME (Contract(ops[i]) = <<"writer-launch-stop", 3>>)'
               PROVE  HandedOver(j, i, CaptureHandoffRequest(i))'
    OBVIOUS
  <2>1. ops[i].request.kind = "writer-launch-stop" BY <1>11 DEF Contract
  <2>2. ops'[j].request = CaptureHandoffRequest(i) BY <1>3, <2>1 DEF HandoffRequest
  <2>3. CaptureHandoffRequest(i)' = CaptureHandoffRequest(i)
    BY <1>11 DEF CaptureHandoffRequest
  <2> QED BY <1>1, <1>11, <2>2, <2>3 DEF HandedOver
<1>13. (Contract(ops[i]) = <<"writer-force-fence", 2>>)' =>
         HandedOver(j, i, AtomicHandoffRequest(i))'
  <2> SUFFICES ASSUME (Contract(ops[i]) = <<"writer-force-fence", 2>>)'
               PROVE  HandedOver(j, i, AtomicHandoffRequest(i))'
    OBVIOUS
  <2>1. ops[i].request.kind = "writer-force-fence" BY <1>11 DEF Contract
  <2>2. ops'[j].request = AtomicHandoffRequest(i) BY <1>3, <2>1 DEF HandoffRequest
  <2>3. AtomicHandoffRequest(i)' = AtomicHandoffRequest(i) BY <1>11 DEF AtomicHandoffRequest
  <2> QED BY <1>1, <1>11, <2>2, <2>3 DEF HandedOver
<1>14. j # None BY <1>2, NoneAssumption
<1>15. session'.last = SettledSession'.last BY <1>3, <1>5, <1>7
<1> QED BY <1>3, <1>10, <1>12, <1>13, <1>14, <1>15 DEF TerminalRelations

LEMMA OverReadable ==
    ASSUME ReadableInv, Steady, NEW i \in OpId, NEW result, NEW d \in Snapshots,
           Settles(i, result, d), SettlesOver(i, result, d)
    PROVE  SessionReadable'
<1>0. /\ AuthorityInv /\ TypedInv /\ SessionReadable /\ ActiveFits /\ IntentsFit
      /\ session.active.id = i /\ ops[i].state \in Dispatched /\ SettleDocument(i, result, d)
  BY DEF ReadableInv, WriterInv, AuthorityInv, Settles
<1>a. PICK j : j = ops[i].request.intent
  OBVIOUS
<1>1. /\ j \in OpId \ {i} /\ result.outcome # "writer-blocked"
      /\ HandsOver(i, result, d, j, HandoffRequest(i)) /\ SettledRow(i, result)
  BY <1>0, <1>a, OverFacts
<1>2. /\ Shows(d) /\ session'.revision = d.revision + 2
      /\ session'.active = Pointer(j, ops'[j]) /\ session'.last = Pointer(i, ops'[i])
      /\ ops'[i].revision = ops[i].revision + 1 /\ SameOperation(i)
      /\ ops'[j].state = "prepared" /\ ops'[j].revision = 0
      /\ ops'[j].expected = Settled(d, i, ops'[i])
  BY <1>1 DEF HandsOver
<1>3. Restful(d) /\ d.revision = session.revision /\ d.lifecycle # "BLOCKED"
  BY <1>0, <1>1, SettleRestful
<1>4. session'.last # NoPointer /\ RevisionOf(session'.last) = session.revision + 1
  BY <1>0, <1>2, CommitRevision
<1>5. PICK x : x = Settled(d, i, ops'[i])
  OBVIOUS
<1>6. /\ x.revision = d.revision + 1
      /\ x.lifecycle = d.lifecycle /\ x.epoch = d.epoch /\ x.lease = d.lease
      /\ x.attachment = d.attachment /\ x.launch = d.launch
  BY <1>5, SettledFields
<1>7. /\ session'.active # NoPointer /\ session'.active.state = "prepared"
      /\ session'.active.expected = d.revision + 1 /\ session'.active.revision = 0
  <2>1. ops'[j].expected.revision = d.revision + 1 BY <1>2, <1>5, <1>6
  <2>2. PICK o : o = ops'[j]
    OBVIOUS
  <2>3. /\ Pointer(j, o) # NoPointer /\ Pointer(j, o).state = o.state
        /\ Pointer(j, o).expected = o.expected.revision
        /\ Pointer(j, o).revision = o.revision
    BY <1>1, PointerNamed
  <2> QED BY <1>2, <2>1, <2>2, <2>3
<1>8. CanonicalDocument(session)' BY <1>2, <1>3, <1>4, <1>7, RestfulNext
<1>9. RevisionState(session)'
  <2>1. d.revision \in Nat BY BoundAssumption DEF Snapshots
  <2> QED BY <1>2, <1>3, <1>4, <1>7, <2>1 DEF RevisionState, RevisionOf
<1>10. Relations(i)' BY <1>0, <1>1, SettleRelations
<1>11. CurrentLaunchRelation(session)' BY <1>0, <1>1, <1>2, <1>10, SettleLaunch
<1>12. Relations(j)' /\ ops'[j].request.kind # "writer-force-fence"
  BY <1>0, <1>a, OverRelations
<1>13. ActiveBusiness(session, j, ops[j])'
  BY <1>1, <1>2, <1>5, <1>6, BusinessPrepared DEF Shows
<1>14. ActiveRelations' BY <1>1, <1>2, <1>12, <1>13, ActiveNext DEF ActivePhases
<1>15. TerminalRelations' BY <1>0, <1>10, OverTerminal
<1> QED BY <1>8, <1>9, <1>11, <1>14, <1>15 DEF SessionReadable

LEMMA SettleReadable ==
    ASSUME ReadableInv, Steady, NEW i \in OpId, Settle(i)
    PROVE  SessionReadable'
<1>0. AuthorityInv BY DEF ReadableInv, WriterInv
<1>1. PICK d \in Snapshots : \E result : Settles(i, result, d) BY <1>0, SettleWrites
<1>2. PICK result : Settles(i, result, d) BY <1>1
<1>3. CASE SettlesAlone(i, result, d) BY <1>2, <1>3, AloneReadable
<1>4. CASE SettlesOver(i, result, d) BY <1>2, <1>4, OverReadable
<1> QED BY <1>2, <1>3, <1>4 DEF Settles

\* A step leaves the anchor, or makes the operation it settles the anchor.
LEMMA StepLast ==
    ASSUME AuthorityInv, LastNamed, NEW i \in OpId, Step(i)
    PROVE  LastNamed'
<1>0. TypedInv /\ session \in Snapshots BY DEF AuthorityInv, TypedInv, TypedRows
<1>a. ASSUME session'.last = session.last PROVE LastNamed'
  BY <1>a DEF LastNamed
<1>b. ASSUME session'.last = Pointer(i, ops'[i]) PROVE LastNamed'
  BY <1>b, PointerNamed DEF LastNamed
<1>1. ASSUME NEW r, ReserveOperation(i, r) PROVE LastNamed'
  BY <1>0, <1>1, <1>a, ReserveWrites DEF Reserves
<1>2. CASE RenewWriterLease(i) BY <1>0, <1>2, <1>b, RenewWrites DEF Renews
<1>3. CASE Dispatch(i)
  <2>1. PICK d \in Snapshots : Dispatches(i, d) BY <1>0, <1>3, DispatchWrites
  <2> QED BY <1>a, <2>1 DEF Dispatches, Starts
<1>4. CASE MarkOperationUncertain(i) BY <1>0, <1>4, <1>a, UncertainWrites DEF Doubts
<1>5. CASE CancelPreparedOperation(i) BY <1>0, <1>5, <1>b, CancelWrites DEF Commits
<1>6. CASE Settle(i)
  <2>1. PICK d \in Snapshots : \E result : Settles(i, result, d) BY <1>6, SettleWrites
  <2>2. PICK result : Settles(i, result, d) BY <2>1
  <2> QED BY <1>b, <2>2 DEF Settles, SettlesAlone, SettlesOver, Commits, HandsOver
<1> QED BY <1>1, <1>2, <1>3, <1>4, <1>5, <1>6 DEF Step

LEMMA StepReadable ==
    ASSUME RequestsSound', ReadableInv, WriterInv', NEW i \in OpId, Step(i)
    PROVE  ReadableInv'
<1>0. /\ WriterInv /\ AuthorityInv /\ TypedInv /\ SessionReadable /\ LastNamed /\ Reserved
      /\ IntentsFit /\ IntentClaims /\ ActiveFits
  BY DEF ReadableInv, WriterInv, AuthorityInv
<1>1. HistoryKept /\ Reserved' /\ IntentsFit'
  BY <1>0, StepHistory, StepReserved, StepIntents
<1>2. IntentClaims' /\ ActiveFits' /\ LastNamed'
  BY <1>0, StepClaims, StepFits, StepLast
<1>3. OneActive' BY DEF WriterInv, AuthorityInv
<1>4. Steady BY <1>1, <1>2, <1>3 DEF Steady
<1>5. SessionReadable'
  BY <1>4, ReserveReadable, RenewReadable, DispatchReadable, DoubtReadable, SettleReadable,
     CancelReadable DEF Step
<1> QED BY <1>1, <1>2, <1>5 DEF ReadableInv

\* Other sessions, and the clock.
LEMMA WorldSteps ==
    ASSUME RequestsSound', ReadableInv, WriterInv', session' = session, ops' = ops,
           reservations' = reservations,
           \/ claims' = claims
           \/ \E j \in OpId : ClaimedElsewhere(j)
    PROVE  ReadableInv'
<1>0. /\ TypedInv /\ SessionReadable /\ LastNamed /\ Reserved
      /\ IntentsFit /\ IntentClaims /\ ActiveFits
  BY DEF ReadableInv, WriterInv, AuthorityInv
<1>1. HistoryKept BY DEF HistoryKept
<1>2. Reserved' BY <1>0 DEF Reserved, ReservationRelation
<1>3. IntentsFit' /\ LastNamed' BY <1>0 DEF IntentsFit, LastNamed, Contract
<1>4. ActiveFits' BY <1>0 DEF ActiveFits, NoWriter, Attached
<1>5. OneActive' BY DEF WriterInv, AuthorityInv
<1>6. ClaimsStay BY <1>0 DEF ClaimsStay, ClaimedElsewhere
<1>7. IntentClaims'
  <2> SUFFICES ASSUME NEW m \in OpId, NEW k \in OpId \ {m}, claims'[k].claimant = m
               PROVE  /\ ops'[m].state # "absent" /\ ~Undispatched(ops'[m])
                      /\ ops'[m].request.intent = k
    BY DEF IntentClaims
  <2>1. claims[k].claimant = m BY NoneAssumption DEF ClaimedElsewhere
  <2> QED BY <1>0, <2>1 DEF IntentClaims
<1>8. Steady BY <1>1, <1>2, <1>3, <1>5, <1>7 DEF Steady
<1>9. SessionReadable' BY <1>6, <1>8, WorldReadable
<1> QED BY <1>2, <1>3, <1>4, <1>7, <1>9 DEF ReadableInv

LEMMA InitReadable == Init => ReadableInv
<1> SUFFICES ASSUME Init PROVE ReadableInv
  OBVIOUS
<1>1. WriterInv BY InitWriter
<1>2. /\ session = RegisteredSession /\ session.active = NoPointer /\ session.last = NoPointer
      /\ session.active.id = None /\ session.lifecycle = "DETACHED" /\ session.epoch = 0
      /\ session.revision = 0 /\ NoWriter(session)
  BY DEF Init, RegisteredSession, NoPointer, NoWriter
<1>3. \A i \in OpId : /\ ops[i].state = "absent" /\ ops[i].request.kind = "generic"
                      /\ reservations[i] = "absent" /\ claims[i].claimant = None
  BY DEF Init, NoOperation, NoRequest, NoClaim
<1>4. CanonicalDocument(session)
  <2>1. session.active.kind # "writer-attachment-acquire" BY <1>2 DEF NoPointer
  <2>2. LifecycleRule(session) BY <1>2, <2>1, LifecycleCases DEF Lifecycles
  <2> QED BY <1>2, <2>2 DEF CanonicalDocument
<1>5. RevisionState(session) BY <1>2 DEF RevisionState
<1>6. ActiveRelations BY <1>2, <1>3 DEF ActiveRelations, ActivePhases
<1>7. TerminalRelations BY <1>2 DEF TerminalRelations, SettledSession
<1>8. CurrentLaunchRelation(session) BY <1>2 DEF CurrentLaunchRelation, NoWriter
<1>9. Reserved BY <1>3 DEF Reserved, ReservationRelation
<1>10. IntentsFit
  BY <1>3 DEF IntentsFit, Contract, HandoffContracts, HandoffToTypedOperation
<1>11. IntentClaims /\ LastNamed /\ ActiveFits
  BY <1>2, <1>3, NoneAssumption DEF IntentClaims, LastNamed, ActiveFits
<1> QED BY <1>1, <1>4, <1>5, <1>6, <1>7, <1>8, <1>9, <1>10, <1>11 DEF ReadableInv,
  SessionReadable

LEMMA ForeignWrites ==
    ASSUME TypedInv, NEW j \in OpId, NEW type \in {"foreign", "stable-plan"},
           ForeignClaim(j, type)
    PROVE  /\ session' = session /\ ops' = ops /\ reservations' = reservations
           /\ ClaimedElsewhere(j)
BY DEF ForeignClaim, IntentFree, ClaimedElsewhere, TypedInv, NoClaim

LEMMA NextReadable ==
    ASSUME RequestsSound', ReadableInv, [Next]_vars
    PROVE  ReadableInv'
<1>0. WriterInv' /\ TypedInv BY NextWriter DEF ReadableInv, WriterInv, AuthorityInv
<1>1. ASSUME NEW i \in OpId, Step(i) PROVE ReadableInv'
  BY <1>0, <1>1, StepReadable
<1>2. CASE UNCHANGED vars BY <1>0, <1>2, WorldSteps DEF vars
<1>3. CASE LeaseExpires BY <1>0, <1>3, WorldSteps DEF LeaseExpires
<1>4. ASSUME NEW j \in OpId, NEW type \in {"foreign", "stable-plan"}, ForeignClaim(j, type)
      PROVE  ReadableInv'
  BY <1>0, <1>4, ForeignWrites, WorldSteps
<1> QED BY <1>1, <1>2, <1>3, <1>4 DEF Next

\* A session that can be read shows sound requests.
LEMMA ReadableIsSound ==
    ASSUME SessionReadable
    PROVE  RequestsSound
<1> SUFFICES ASSUME NEW i \in OpId, i \in {session.active.id, session.last.id}
             PROVE  RequestSound(i)
  BY DEF RequestsSound, Read
<1>1. Relations(i)
  <2>1. CASE i = session.active.id BY <2>1, ReadableActive
  <2>2. CASE i = session.last.id
    <3>1. session.last # NoPointer BY <2>2, NoneAssumption DEF NoPointer
    <3> QED BY <2>2, <3>1 DEF SessionReadable, TerminalRelations
  <2> QED BY <2>1, <2>2
<1>2. Contract(ops[i]) = <<"writer-launch-stop", 3>> =>
        /\ StopNamesItself(i, ops[i].request)
        /\ Undispatched(ops[i]) => claims[ops[i].request.intent] = NoClaim
  BY <1>1 DEF Relations, StopRelations, Contract
<1>3. (ops[i].request.kind = "restore-activation" /\ ops[i].state = "prepared") =>
        ActivationCore(ops[i].request, ops[i].expected)
  BY <1>1 DEF Relations, ActivationRelations, Cancelled
<1> QED BY <1>2, <1>3 DEF RequestSound

\* A session whose readers refuse a request is never written again, and what
\* other sessions claim does not make the request sound.
LEMMA SoundBefore ==
    ASSUME WriterInv, RequestsSound', [Next]_vars
    PROVE  RequestsSound
<1>0. TypedInv /\ IntentsNamed BY DEF WriterInv, AuthorityInv
<1>1. CASE SessionReadable BY <1>1, ReadableIsSound
<1>5. ASSUME session' = session, ops' = ops,
             claims' = claims \/ \E j \in OpId : ClaimedElsewhere(j)
      PROVE  RequestsSound
  <2> SUFFICES ASSUME NEW i \in OpId, i \in {session.active.id, session.last.id}
               PROVE  RequestSound(i)
    BY DEF RequestsSound, Read
  <2>1. PICK r : r = ops[i].request
    OBVIOUS
  <2>2. PICK x : x = ops[i].expected
    OBVIOUS
  <2>3. RequestSound(i)' BY <1>5 DEF RequestsSound, Read
  <2>4. ActivationCore(r, x)' => ActivationCore(r, x) BY <1>5, CoreSame
  <2>5. Contract(ops[i]) = <<"writer-launch-stop", 3>> =>
          /\ StopNamesItself(i, r)
          /\ Undispatched(ops[i]) => claims[r.intent] = NoClaim
    <3> SUFFICES ASSUME Contract(ops[i]) = <<"writer-launch-stop", 3>>
                 PROVE  /\ StopNamesItself(i, r)
                        /\ Undispatched(ops[i]) => claims[r.intent] = NoClaim
      OBVIOUS
    <3>1. StopNamesItself(i, r) /\ Undispatched(ops[i]) => claims'[r.intent] = NoClaim
      BY <1>5, <2>1, <2>3 DEF RequestSound, StopNamesItself, Contract
    <3>2. r.intent \in OpId
      <4>1. r.intent # None
        BY <1>0, <2>1 DEF IntentsNamed, HandoffContracts, HandoffToTypedOperation
      <4> QED BY <1>0, <2>1, <4>1 DEF TypedInv, TypedRows, Operations, Requests, IdOrNone
    <3>3. claims'[r.intent] = NoClaim => claims[r.intent] = NoClaim
      BY <1>5, <3>2 DEF ClaimedElsewhere
    <3>4. StopNamesItself(i, r)
      BY <1>5, <2>1, <2>3 DEF RequestSound, StopNamesItself, Contract
    <3> QED BY <3>1, <3>3, <3>4
  <2>6. (r.kind = "restore-activation" /\ ops[i].state = "prepared") => ActivationCore(r, x)
    BY <1>5, <2>1, <2>2, <2>3, <2>4 DEF RequestSound
  <2> QED BY <2>1, <2>2, <2>5, <2>6 DEF RequestSound
<1>2. CASE UNCHANGED vars BY <1>2, <1>5 DEF vars
<1>3. CASE LeaseExpires BY <1>3, <1>5 DEF LeaseExpires
<1>4. ASSUME NEW j \in OpId, NEW type \in {"foreign", "stable-plan"}, ForeignClaim(j, type)
      PROVE  RequestsSound
  BY <1>0, <1>4, <1>5, ForeignWrites
<1> QED BY <1>1, <1>2, <1>3, <1>4 DEF Next

LEMMA ReadableInvariance == Spec => [](RequestsSound => ReadableInv)
<1>1. Init => WriterInv /\ (RequestsSound => ReadableInv) BY InitReadable, InitWriter
<1>2. WriterInv /\ (RequestsSound => ReadableInv) /\ [Next]_vars
        => (WriterInv /\ (RequestsSound => ReadableInv))'
  BY NextReadable, NextWriter, SoundBefore
<1> QED BY <1>1, <1>2, PTL DEF Spec

\* Of all that readSessionSnapshot and validateSessionRelations check, only what
\* reserveOperation leaves to its callers can ever fail.  Whatever the callers
\* promise or do, through every reservation, dispatch, handoff, block, fence and
\* cancellation and whatever other sessions claim, the session stays readable
\* as long as the requests it shows are sound: a stop that hands over names
\* itself and a capture that nobody has claimed, an activation that was just
\* reserved names the history it builds on.
THEOREM Readable == Spec => [](RequestsSound => AlwaysReadable)
<1>1. ReadableInv => AlwaysReadable BY DEF ReadableInv, AlwaysReadable
<1> QED BY <1>1, ReadableInvariance, PTL

--------------------------------------------------------------------------------
(* What is prepared can be dispatched or cancelled. *)

\* A fence of a blocked session, which cannot be cancelled, can be dispatched.
FenceFits(i) ==
    (ops[i].request.kind = "writer-force-fence" /\ ops[i].expected.lifecycle = "BLOCKED") =>
        ops[i].request.version = 1 /\ Space(3) /\ EpochLeft

\* A capture that was handed over follows a stop that stopped the writer.
CaptureFits(i) ==
    (ops[i].request.kind = "checkpoint-capture" /\ CaptureHandoff(i)
       /\ claims[i].claimant # i) =>
        Space(3) /\ Committed(session.last.id, "writer-launch-stopped")

\* A launch that was handed over follows the restore that did, and the restored
\* generation is on its attachment.
LaunchFits(i) ==
    (ops[i].request.kind = "writer-launch-attempt" /\ claims[i].claimant # i) =>
        /\ LaunchHandoff(i) /\ Space(3) /\ LaunchHandoffSound(i)
        /\ session.launch = NoLaunch
        /\ LaunchGeneration(ops[i].request, session.attachment)

PreparedFits ==
    \A i \in OpId :
        (session.active.id = i /\ ops[i].state = "prepared") =>
            /\ ops[i].request.kind # "atomic-crash-capture" => Space(1)
            /\ FenceFits(i) /\ CaptureFits(i) /\ LaunchFits(i)

\* A generation is restored while no launch is recorded.
GenerationFits ==
    \A i \in OpId :
        (session.active.id = i /\ ops[i].request.kind = "restore-generation") =>
            ops[i].expected.launch = NoLaunch

PreparedInv == ReadableInv /\ PreparedFits /\ GenerationFits

LEMMA FitsUnprepared ==
    ASSUME \A k \in OpId : session'.active.id = k => ops'[k].state # "prepared"
    PROVE  PreparedFits'
BY DEF PreparedFits

LEMMA SpaceNext ==
    ASSUME NEW m, m \in Nat, NEW n, n \in Nat, Space(m + n), session.revision \in Nat,
           session'.revision = session.revision + m
    PROVE  Space(n)'
BY BoundAssumption DEF Space

\* What a caller reserves was not handed over.
LEMMA ReserveFits ==
    ASSUME PreparedInv, Steady, NEW i \in OpId, NEW r \in RequestsOf(i),
           ReserveOperation(i, r)
    PROVE  PreparedFits' /\ GenerationFits'
<1>0. /\ TypedInv /\ session \in Snapshots /\ session.revision \in Nat
  BY BoundAssumption DEF PreparedInv, ReadableInv, WriterInv, AuthorityInv, TypedInv,
     TypedRows, Snapshots
<1>1. Reserves(i, r) BY <1>0, ReserveWrites
<1>2. /\ session'.active.id = i /\ session'.revision = session.revision + 1
      /\ session'.epoch = session.epoch /\ ops'[i] = PreparedRow(r, session)
  BY <1>1 DEF Reserves, Inserts, Shows
<1>3. ops'[i].request = r /\ ops'[i].expected = session /\ ops'[i].state = "prepared"
  BY <1>2 DEF PreparedRow
<1>4. /\ Space(ReserveSpace(r))
      /\ claims[i] = NoClaim \/ r.kind = "restore-generation"
      /\ claims' = [claims EXCEPT ![i] =
           IF claims[i] = NoClaim
           THEN [type |-> "direct", claimant |-> i, materialized |-> TRUE]
           ELSE [claims[i] EXCEPT !.materialized = TRUE]]
  BY DEF ReserveOperation
<1>5. r.kind # "restore-generation" => claims'[i].claimant = i
  BY <1>0, <1>4 DEF TypedInv
<1>6. Space(1)'
  <2>1. Space(1 + 1) BY <1>0, <1>4, BoundAssumption DEF ReserveSpace, Space
  <2> QED BY <1>0, <1>2, <2>1, SpaceNext
<1>7. FenceFits(i)'
  <2> SUFFICES ASSUME r.kind = "writer-force-fence", session.lifecycle = "BLOCKED"
               PROVE  r.version = 1 /\ Space(3)' /\ EpochLeft'
    BY <1>3 DEF FenceFits
  <2>a. ASSUME r \in AcquireRequests PROVE FALSE
    BY <2>a DEF AcquireRequests, NoRequest
  <2>d. ASSUME r \in ReleaseRequests PROVE FALSE
    BY <2>d DEF ReleaseRequests, NoRequest
  <2>e. r # NoRequest BY DEF NoRequest
  <2>b. r \notin CaptureRequests \cup GenerationRequests(i)
    BY DEF CaptureRequests, GenerationRequests
  <2>c. r \notin ActivationRequests(i) \cup LaunchRequests \cup StopRequests(i)
    BY DEF ActivationRequests, LaunchRequests, StopRequests
  <2>1. r \in FenceRequests(i) BY <2>a, <2>b, <2>c, <2>d, <2>e DEF RequestsOf
  <2>2. r.version = 1 /\ EpochLeft BY <2>1 DEF FenceRequests, Attached
  <2>3. Space(1 + 3) BY <1>4 DEF ReserveSpace
  <2>4. Space(3)' BY <1>0, <1>2, <2>3, SpaceNext
  <2> QED BY <1>2, <2>2, <2>4 DEF EpochLeft
<1>8. CaptureFits(i)' BY <1>3, <1>5 DEF CaptureFits
<1>9. LaunchFits(i)' BY <1>3, <1>5 DEF LaunchFits
<1>10. PreparedFits' BY <1>2, <1>6, <1>7, <1>8, <1>9 DEF PreparedFits
<1>11. GenerationFits'
  <2>1. r.kind = "restore-generation" => session.launch = NoLaunch
    BY DEF RequestsOf, AcquireRequests, ReleaseRequests, FenceRequests, CaptureRequests,
       GenerationRequests, ActivationRequests, LaunchRequests, StopRequests, NoRequest
  <2> QED BY <1>2, <1>3, <2>1 DEF GenerationFits
<1> QED BY <1>10, <1>11

\* What a handoff prepares can be dispatched.
LEMMA OverLaunch ==
    ASSUME TypedInv, SessionReadable, ActiveFits, IntentsFit, GenerationFits, Steady,
           NEW i \in OpId, NEW result, NEW d \in Snapshots, Settles(i, result, d),
           SettlesOver(i, result, d), NEW j, j = ops[i].request.intent,
           ops'[j].request.kind = "writer-launch-attempt"
    PROVE  /\ LaunchHandoff(j)' /\ claims'[j].claimant # j
           /\ LaunchHandoffSound(j)' /\ session'.launch = NoLaunch
           /\ LaunchGeneration(ops[j].request, session.attachment)'
<1>1. /\ j \in OpId \ {i} /\ HandsOver(i, result, d, j, HandoffRequest(i))
      /\ claims'[j] = [type |-> IntentType(ops[i].request.kind), claimant |-> i,
                       materialized |-> TRUE]
      /\ Contract(ops[i]) \in HandoffContracts
  BY OverFacts
<1>2. /\ session'.last = Pointer(i, ops'[i]) /\ session'.last.id = i
      /\ ops'[i].state = "committed" /\ SameOperation(i) /\ ops'[i].result = result
      /\ ops'[j].request = HandoffRequest(i) /\ ops'[j].expected = Settled(d, i, ops'[i])
      /\ session'.launch = d.launch /\ session'.attachment = d.attachment
  BY <1>1 DEF HandsOver, Shows
<1>3. /\ session.active.id = i /\ ops[i].state \in Dispatched /\ SettleDocument(i, result, d)
      /\ session \in Snapshots
  BY DEF Settles, TypedInv, TypedRows
<1>4. ops[i].request.kind \in {"restore-generation", "restore-activation"}
  BY <1>2 DEF HandoffRequest, CaptureHandoffRequest, AtomicHandoffRequest, NoRequest
<1>5. PICK g : g = IF ops[i].request.kind = "restore-generation" THEN i
                   ELSE ops[i].request.source
  OBVIOUS
<1>6. ops'[j].request = LaunchHandoffRequest(g) /\ ops'[j].request.source = g
  BY <1>2, <1>4, <1>5 DEF HandoffRequest, LaunchHandoffRequest, NoRequest
<1>7. /\ session'.last # NoPointer
      /\ Contract(ops'[i]) = Contract(ops[i]) /\ ops'[i].request = ops[i].request
  BY <1>2, PointerNamed DEF SameOperation, Contract
<1>8. LaunchHandoff(j)'
  <2>1. Contract(ops[i]) \in
          {<<"restore-generation", 2>>, <<"restore-activation", 1>>,
           <<"restore-activation", 2>>}
    BY <1>1, <1>4 DEF HandoffContracts, HandoffToTypedOperation, Contract
  <2> QED BY <1>2, <1>7, <2>1 DEF LaunchHandoff
<1>9. LaunchHandoffSound(j)'
  <2>1. PICK x : x = Settled(d, i, ops'[i])
    OBVIOUS
  <2>2. ops'[j].expected.last.id = i
    <3>1. x.last = Pointer(i, ops'[i]) BY <2>1, SettledFields
    <3>2. Pointer(i, ops'[i]).id = i BY PointerNamed
    <3> QED BY <1>2, <2>1, <3>1, <3>2
  <2>3. HandedOver(j, i, LaunchHandoffRequest(g))'
    BY <1>1, <1>6, <1>7, <2>2 DEF HandedOver, LaunchHandoffRequest
  <2>4. g = IF ops'[i].request.kind = "restore-generation" THEN i
            ELSE ops'[i].request.source
    BY <1>5, <1>7
  <2> QED BY <1>2, <2>3, <2>4 DEF LaunchHandoffSound, HandedOver, LaunchHandoffRequest
<1>10. claims'[j].claimant # j BY <1>1
<1>11. CASE ops[i].request.kind = "restore-generation"
  <2>1. /\ d = session /\ result.outcome = "restore-generation-committed"
        /\ session.launch = ops[i].expected.launch
        /\ session.attachment = ops[i].expected.attachment
    BY <1>3, <1>11, SettleOutcomes, BusyFacts DEF SettleDocument, MintingKinds, WriterKinds,
       AttachedKinds
  <2>2. session'.launch = NoLaunch BY <1>2, <1>3, <1>11, <2>1 DEF GenerationFits
  <2>3. /\ Committed(g, "restore-generation-committed")'
        /\ ops'[g].expected.attachment = session'.attachment
    BY <1>2, <1>5, <1>11, <2>1 DEF Committed, SameOperation
  <2>4. LaunchGeneration(ops[j].request, session.attachment)'
    BY <1>6, <2>3 DEF LaunchGeneration
  <2> QED BY <1>8, <1>9, <1>10, <2>2, <2>4
<1>12. CASE ops[i].request.kind = "restore-activation"
  <2>1. /\ d = [session EXCEPT !.lifecycle = "ATTACHED", !.attachment = AttachmentUnderLease]
        /\ result = WriterResult("restore-attachment-activated",
                                 session.epoch, session.lease, AttachmentUnderLease, None)
    BY <1>3, <1>12 DEF SettleDocument, MintingKinds, WriterKinds
  <2>2. /\ d.launch = session.launch /\ d.attachment = AttachmentUnderLease
        /\ result.outcome = "restore-attachment-activated"
        /\ result.attachment = AttachmentUnderLease
    BY <1>3, <2>1 DEF WriterResult, Snapshots
  <2>3. session'.launch = NoLaunch BY <1>2, <1>3, <1>12, <2>2, BusyFacts DEF MintingKinds
  <2>4. AttachmentUnderLease.id = i
    <3>1. ActiveBusiness(session, i, ops[i]) BY SMTT(30), <1>3, ReadableActive
    <3>2. session.lease.id = i
      BY SMTT(30), <1>3, <1>12, <3>1 DEF ActiveBusiness, MintedBy, WriterKinds, Dispatched
    <3> QED BY <3>2 DEF AttachmentUnderLease
  <2>5. Committed(g, "restore-generation-committed")
    <3>1. Relations(i) /\ ~Cancelled(ops[i])
      BY <1>3, ReadableActive DEF Cancelled, Dispatched
    <3> QED BY <1>5, <1>12, <3>1 DEF Relations, ActivationRelations, ActivationCore
  <2>6. Committed(g, "restore-generation-committed")' BY <2>5, CommittedKept DEF Steady
  <2>7. PICK a : a = AttachmentUnderLease
    OBVIOUS
  <2>8. /\ session'.attachment = a /\ a.id = i /\ ops'[i].result.attachment = a
        /\ Committed(i, "restore-attachment-activated")' /\ ops'[i].request.source = g
    BY <1>2, <1>5, <1>7, <1>12, <2>2, <2>4, <2>7 DEF Committed
  <2>9. LaunchGeneration(ops[j].request, session.attachment)'
    BY <1>6, <2>6, <2>8 DEF LaunchGeneration
  <2> QED BY <1>8, <1>9, <1>10, <2>3, <2>9
<1> QED BY <1>4, <1>11, <1>12

LEMMA OverFits ==
    ASSUME PreparedInv, Steady, NEW i \in OpId, NEW result, NEW d \in Snapshots,
           Settles(i, result, d), SettlesOver(i, result, d)
    PROVE  PreparedFits' /\ GenerationFits'
<1>0. /\ AuthorityInv /\ TypedInv /\ SessionReadable /\ ActiveFits /\ IntentsFit
      /\ GenerationFits /\ SettleDocument(i, result, d) /\ session.revision \in Nat
  BY BoundAssumption DEF PreparedInv, ReadableInv, WriterInv, AuthorityInv, Settles,
     TypedInv, TypedRows, Snapshots
<1>1. PICK j : j = ops[i].request.intent
  OBVIOUS
<1>2. /\ j \in OpId \ {i} /\ HandsOver(i, result, d, j, HandoffRequest(i))
      /\ Contract(ops[i]) \in HandoffContracts
  BY <1>0, <1>1, OverFacts
<1>3. /\ session'.active = Pointer(j, ops'[j]) /\ session'.active.id = j
      /\ session'.last = Pointer(i, ops'[i]) /\ session'.last.id = i
      /\ session'.revision = d.revision + 2 /\ ops'[j].state = "prepared"
      /\ ops'[j].request = HandoffRequest(i)
      /\ ops'[i].state = "committed" /\ ops'[i].result = result
  BY <1>2 DEF HandsOver
<1>4. session'.revision = session.revision + 2 BY <1>0, <1>3, SettleRestful
<1>5. /\ ops'[j].request.kind \in
           {"writer-launch-attempt", "checkpoint-capture", "atomic-crash-capture"}
      /\ ops'[j].request.kind = "checkpoint-capture" =>
           ops[i].request.kind = "writer-launch-stop"
      /\ ops'[j].request.kind # "atomic-crash-capture" =>
           ops[i].request.kind \in
             {"restore-generation", "restore-activation", "writer-launch-stop"}
  BY <1>3 DEF HandoffRequest, LaunchHandoffRequest, CaptureHandoffRequest,
     AtomicHandoffRequest, NoRequest
<1>6. ops'[j].request.kind # "atomic-crash-capture" => Space(3)' /\ Space(1)'
  <2> SUFFICES ASSUME ops'[j].request.kind # "atomic-crash-capture"
               PROVE  Space(3)' /\ Space(1)'
    OBVIOUS
  <2>1. Contract(ops[i]) \in HandoffToTypedOperation
    BY <1>2, <1>5 DEF HandoffContracts, Contract
  <2>2. FinalizeSpace(ops[i].request) = 5 BY <1>5, <2>1 DEF FinalizeSpace, Contract
  <2>3. Space(2 + 3) BY <2>2 DEF SettlesOver
  <2>4. Space(3)' BY <1>0, <1>4, <2>3, SpaceNext
  <2>5. session'.revision \in Nat BY <1>0, <1>4
  <2> QED BY <2>4, <2>5, BoundAssumption DEF Space
<1>7. FenceFits(j)' BY <1>5 DEF FenceFits
<1>8. CaptureFits(j)'
  <2> SUFFICES ASSUME ops'[j].request.kind = "checkpoint-capture"
               PROVE  Space(3)' /\ Committed(session.last.id, "writer-launch-stopped")'
    BY DEF CaptureFits
  <2>1. result.outcome = "writer-launch-stopped" BY <1>0, <1>5, SettleOutcomes
  <2> QED BY <1>3, <1>6, <2>1 DEF Committed
<1>9. LaunchFits(j)'
  <2> SUFFICES ASSUME ops'[j].request.kind = "writer-launch-attempt" PROVE LaunchFits(j)'
    BY DEF LaunchFits
  <2>1. /\ LaunchHandoff(j)' /\ claims'[j].claimant # j
        /\ LaunchHandoffSound(j)' /\ session'.launch = NoLaunch
        /\ LaunchGeneration(ops[j].request, session.attachment)'
    BY <1>0, <1>1, OverLaunch
  <2> QED BY <1>6, <2>1 DEF LaunchFits
<1>10. PreparedFits' BY <1>3, <1>6, <1>7, <1>8, <1>9 DEF PreparedFits
<1>11. GenerationFits' BY <1>3, <1>5 DEF GenerationFits
<1> QED BY <1>10, <1>11

\* Nothing is active.
LEMMA IdleFits ==
    ASSUME session'.active = NoPointer
    PROVE  PreparedFits' /\ GenerationFits'
<1>1. session'.active.id \notin OpId BY NoneAssumption DEF NoPointer
<1> QED BY <1>1 DEF PreparedFits, GenerationFits

\* The active operation moves on.
LEMMA BusyFits ==
    ASSUME GenerationFits, NEW i \in OpId, session.active.id = i,
           session'.active = Pointer(i, ops'[i]), SameOperation(i),
           ops'[i].state # "prepared"
    PROVE  PreparedFits' /\ GenerationFits'
<1>1. session'.active.id = i BY PointerNamed
<1> QED BY <1>1 DEF PreparedFits, GenerationFits, SameOperation

LEMMA StepPrepared ==
    ASSUME PreparedInv, Steady, NEW i \in OpId, Step(i)
    PROVE  PreparedFits' /\ GenerationFits'
<1> DEFINE Goal == PreparedFits' /\ GenerationFits'
<1>0. AuthorityInv /\ TypedInv /\ GenerationFits
  BY DEF PreparedInv, ReadableInv, WriterInv, AuthorityInv
<1>1. ASSUME NEW r \in RequestsOf(i), ReserveOperation(i, r) PROVE Goal
  BY <1>1, ReserveFits
<1>2. CASE RenewWriterLease(i) BY <1>0, <1>2, RenewWrites, IdleFits DEF Renews
<1>3. CASE Dispatch(i)
  <2>1. PICK d \in Snapshots : Dispatches(i, d) BY <1>0, <1>3, DispatchWrites
  <2> QED BY <1>0, <2>1, BusyFits DEF Dispatches, Starts
<1>4. CASE MarkOperationUncertain(i) BY <1>0, <1>4, UncertainWrites, BusyFits DEF Doubts
<1>5. CASE CancelPreparedOperation(i) BY <1>0, <1>5, CancelWrites, IdleFits DEF Commits
<1>6. CASE Settle(i)
  <2>1. PICK d \in Snapshots : \E result : Settles(i, result, d) BY <1>0, <1>6, SettleWrites
  <2>2. PICK result : Settles(i, result, d) BY <2>1
  <2>3. CASE SettlesAlone(i, result, d) BY <2>3, IdleFits DEF SettlesAlone, Commits
  <2>4. CASE SettlesOver(i, result, d) BY <2>2, <2>4, OverFits
  <2> QED BY <2>2, <2>3, <2>4 DEF Settles
<1> QED BY <1>1, <1>2, <1>3, <1>4, <1>5, <1>6 DEF Step

LEMMA WorldPrepared ==
    ASSUME PreparedInv, ClaimsStay, session' = session, ops' = ops
    PROVE  PreparedFits' /\ GenerationFits'
<1>0. PreparedFits /\ GenerationFits /\ OwnClaims
  BY DEF PreparedInv, ReadableInv, WriterInv, AuthorityInv
<1>1. GenerationFits' BY <1>0 DEF GenerationFits
<1>2. ASSUME NEW i \in OpId, session.active.id = i, ops[i].state = "prepared"
      PROVE  /\ ops[i].request.kind # "atomic-crash-capture" => Space(1)'
             /\ FenceFits(i)' /\ CaptureFits(i)' /\ LaunchFits(i)'
  <2>1. /\ ops[i].request.kind # "atomic-crash-capture" => Space(1)
        /\ FenceFits(i) /\ CaptureFits(i) /\ LaunchFits(i)
    BY <1>0, <1>2 DEF PreparedFits
  <2>2. claims'[i] = claims[i] BY <1>0, <1>2 DEF OwnClaims, ClaimsStay, NoClaim
  <2>3. FenceFits(i)' BY <2>1 DEF FenceFits, Space, EpochLeft
  <2>4. CaptureFits(i)'
    BY SMTT(30), <2>1, <2>2 DEF CaptureFits, CaptureHandoff, Contract, Space, Committed
  <2>5. LaunchFits(i)'
    BY <2>1, <2>2 DEF LaunchFits, LaunchHandoff, LaunchHandoffSound, HandedOver,
       LaunchHandoffRequest, Contract, Space, LaunchGeneration, Committed
  <2> QED BY <2>1, <2>3, <2>4, <2>5 DEF Space
<1> QED BY <1>1, <1>2 DEF PreparedFits

LEMMA InitPrepared == Init => PreparedInv
<1> SUFFICES ASSUME Init PROVE PreparedInv
  OBVIOUS
<1>1. ReadableInv BY InitReadable
<1>2. session.active.id = None BY DEF Init, RegisteredSession, NoPointer
<1> QED BY <1>1, <1>2, NoneAssumption DEF PreparedInv, PreparedFits, GenerationFits

LEMMA NextPrepared ==
    ASSUME RequestsSound', PreparedInv, [Next]_vars
    PROVE  PreparedInv'
<1>0. ReadableInv /\ ReadableInv' /\ AuthorityInv /\ TypedInv
  BY NextReadable DEF PreparedInv, ReadableInv, WriterInv, AuthorityInv
<1>1. ASSUME NEW i \in OpId, Step(i) PROVE PreparedInv'
  <2>1. HistoryKept BY <1>0, <1>1, StepHistory
  <2>2. Steady BY <1>0, <2>1 DEF Steady, ReadableInv, WriterInv, AuthorityInv
  <2> QED BY <1>0, <1>1, <2>2, StepPrepared DEF PreparedInv
<1>w. ASSUME ClaimsStay, session' = session, ops' = ops PROVE PreparedInv'
  BY <1>0, <1>w, WorldPrepared DEF PreparedInv
<1>2. CASE UNCHANGED vars BY <1>2, <1>w DEF vars, ClaimsStay
<1>3. CASE LeaseExpires BY <1>3, <1>w DEF LeaseExpires, ClaimsStay
<1>4. ASSUME NEW j \in OpId, NEW type \in {"foreign", "stable-plan"}, ForeignClaim(j, type)
      PROVE  PreparedInv'
  <2>1. session' = session /\ ops' = ops /\ ClaimedElsewhere(j)
    BY <1>0, <1>4, ForeignWrites
  <2>2. ClaimsStay BY <2>1 DEF ClaimsStay, ClaimedElsewhere
  <2> QED BY <1>w, <2>1, <2>2
<1> QED BY <1>1, <1>2, <1>3, <1>4 DEF Next

\* The active operation is a launch that was handed over and waits.
LaunchWaits ==
    \E i \in OpId :
        /\ session.active.id = i /\ ops[i].state = "prepared"
        /\ ops[i].request.kind = "writer-launch-attempt" /\ claims[i].claimant # i

SoundPrepared ==
    /\ WriterInv
    /\ RequestsSound => PreparedInv
    /\ LaunchWaits => RequestsSound

\* No reader refuses what a launch that waits follows.
LEMMA SoundWaits ==
    ASSUME NEW i \in OpId, session'.active.id = i,
           ops'[i].request.kind = "writer-launch-attempt",
           NEW k, session'.last.id = k, ops'[k].state = "committed",
           ops'[k].request.kind # "writer-launch-stop"
    PROVE  RequestsSound'
BY DEF RequestsSound, Read, RequestSound, Contract

LEMMA NextWaits ==
    ASSUME SoundPrepared, [Next]_vars, LaunchWaits'
    PROVE  RequestsSound'
<1>0. WriterInv /\ AuthorityInv /\ TypedInv /\ OwnClaims
  BY DEF SoundPrepared, WriterInv, AuthorityInv
<1>1. ASSUME SessionReadable, NEW i \in OpId, Step(i) PROVE RequestsSound'
  <2>0. PreparedInv BY <1>1, ReadableIsSound DEF SoundPrepared
  <2>1. ASSUME NEW r \in RequestsOf(i), ReserveOperation(i, r) PROVE FALSE
    <3>1. Reserves(i, r) BY <1>0, <2>1, ReserveWrites
    <3>2. session'.active.id = i /\ ops'[i].request = r
      BY <3>1 DEF Reserves, Inserts, PreparedRow
    <3>3. r.kind = "writer-launch-attempt" => claims'[i].claimant = i
      BY <1>0, <2>1 DEF ReserveOperation, TypedInv
    <3> QED BY <3>2, <3>3 DEF LaunchWaits
  <2>2. session'.active.id = None => FALSE BY NoneAssumption DEF LaunchWaits
  <2>3. ~RenewWriterLease(i) BY <1>0, <2>2, RenewWrites DEF Renews
  <2>4. ~CancelPreparedOperation(i) BY <1>0, <2>2, CancelWrites DEF Commits
  <2>5. ~Dispatch(i)
    <3> SUFFICES ASSUME Dispatch(i) PROVE FALSE
      OBVIOUS
    <3>1. PICK d \in Snapshots : Dispatches(i, d) BY <1>0, DispatchWrites
    <3> QED BY <3>1 DEF Dispatches, Starts, LaunchWaits
  <2>6. ~MarkOperationUncertain(i)
    BY <1>0, UncertainWrites, PointerNamed DEF Doubts, LaunchWaits
  <2>7. CASE Settle(i)
    <3>1. PICK d \in Snapshots : \E result : Settles(i, result, d)
      BY <1>0, <1>1, <2>7, SettleWrites
    <3>2. PICK result : Settles(i, result, d) BY <3>1
    <3>3. ~SettlesAlone(i, result, d) BY <2>2 DEF SettlesAlone, Commits
    <3>4. PICK j : j = ops[i].request.intent
      OBVIOUS
    <3>5. /\ j \in OpId /\ session'.active.id = j /\ session'.last.id = i
          /\ ops'[j].request = HandoffRequest(i) /\ ops'[i].state = "committed"
          /\ ops'[i].request = ops[i].request
      BY <3>2, <3>3, <3>4 DEF Settles, SettlesOver, ClaimedBy, HandsOver, SameOperation
    <3>6. ops'[j].request.kind = "writer-launch-attempt" BY <3>5 DEF LaunchWaits
    <3>7. ops[i].request.kind # "writer-launch-stop"
      BY <3>5, <3>6 DEF HandoffRequest, CaptureHandoffRequest, NoRequest
    <3> QED BY <3>5, <3>6, <3>7, SoundWaits
  <2> QED BY <1>1, <2>1, <2>3, <2>4, <2>5, <2>6, <2>7 DEF Step
<1>w. ASSUME ClaimsStay, session' = session, ops' = ops PROVE RequestsSound'
  <2>1. PICK i \in OpId :
          /\ session.active.id = i /\ ops[i].state = "prepared"
          /\ ops[i].request.kind = "writer-launch-attempt" /\ claims'[i].claimant # i
    BY <1>w DEF LaunchWaits
  <2>2. claims'[i] = claims[i] BY <1>0, <1>w, <2>1 DEF OwnClaims, ClaimsStay, NoClaim
  <2>3. PreparedInv BY <2>1, <2>2 DEF SoundPrepared, LaunchWaits
  <2>4. LaunchHandoff(i) BY <2>1, <2>2, <2>3 DEF PreparedInv, PreparedFits, LaunchFits
  <2>5. PICK k : k = session.last.id
    OBVIOUS
  <2>6. ops[k].request.kind # "writer-launch-stop" /\ session.last # NoPointer
    BY <2>4, <2>5 DEF LaunchHandoff, Contract
  <2>7. ops[k].state = "committed"
    BY <2>3, <2>5, <2>6, ReadableLast DEF PreparedInv, ReadableInv
  <2> QED BY <1>w, <2>1, <2>5, <2>6, <2>7, SoundWaits
<1>2. CASE UNCHANGED vars BY <1>2, <1>w DEF vars, ClaimsStay
<1>3. CASE LeaseExpires BY <1>3, <1>w DEF LeaseExpires, ClaimsStay
<1>4. ASSUME NEW j \in OpId, NEW type \in {"foreign", "stable-plan"}, ForeignClaim(j, type)
      PROVE  RequestsSound'
  BY <1>0, <1>4, <1>w, ForeignWrites DEF ClaimsStay, ClaimedElsewhere
<1> QED BY <1>1, <1>2, <1>3, <1>4 DEF Next

LEMMA PreparedInvariance == Spec => []SoundPrepared
<1>1. ASSUME Init PROVE SoundPrepared
  <2>1. ~LaunchWaits BY <1>1, NoneAssumption DEF Init, RegisteredSession, NoPointer, LaunchWaits
  <2> QED BY <1>1, <2>1, InitWriter, InitPrepared DEF SoundPrepared
<1>2. ASSUME SoundPrepared, [Next]_vars PROVE SoundPrepared'
  <2>1. WriterInv' BY <1>2, NextWriter DEF SoundPrepared
  <2>2. RequestsSound' => PreparedInv'
    BY <1>2, SoundBefore, NextPrepared DEF SoundPrepared
  <2>3. LaunchWaits' => RequestsSound' BY <1>2, NextWaits
  <2> QED BY <2>1, <2>2, <2>3 DEF SoundPrepared
<1> QED BY <1>1, <1>2, PTL DEF Spec

--------------------------------------------------------------------------------
(* What the invariant says of a prepared operation. *)

LEMMA PreparedFacts ==
    ASSUME PreparedInv, NEW i \in OpId, session.active.id = i, ops[i].state = "prepared"
    PROVE  LET kind == ops[i].request.kind
               x == ops[i].expected IN
           /\ Relations(i) /\ session.lifecycle = x.lifecycle /\ session.lease = x.lease
           /\ session.attachment = x.attachment /\ session.launch = x.launch
           /\ kind \in AttachedKinds => Attached
           /\ kind # "atomic-crash-capture" => Space(1)
           /\ FenceFits(i) /\ CaptureFits(i) /\ LaunchFits(i)
           /\ session.active # NoPointer
<1>1. TypedInv /\ SessionReadable /\ ActiveFits /\ PreparedFits
  BY DEF PreparedInv, ReadableInv, WriterInv, AuthorityInv
<1>2. /\ Relations(i) /\ ActiveBusiness(session, i, ops[i]) /\ session.active # NoPointer
  BY <1>1, ReadableActive, NoneAssumption DEF NoPointer
<1>3. Business(session) = Business(ops[i].expected) BY <1>2 DEF ActiveBusiness
<1>4. /\ session.lifecycle = ops[i].expected.lifecycle
      /\ session.lease = ops[i].expected.lease
      /\ session.attachment = ops[i].expected.attachment
      /\ session.launch = ops[i].expected.launch
  BY <1>3 DEF Business
<1> QED BY <1>1, <1>2, <1>4 DEF PreparedFits, ActiveFits

\* Only a fence is reserved on a blocked session.
LEMMA BlockedIsFenced ==
    ASSUME PreparedInv, NEW i \in OpId, session.active.id = i, ops[i].state = "prepared",
           ops[i].expected.lifecycle = "BLOCKED"
    PROVE  ops[i].request.kind = "writer-force-fence"
<1>1. session.lifecycle = "BLOCKED" /\ session.active # NoPointer BY PreparedFacts
<1>2. TypedInv /\ SessionReadable BY DEF PreparedInv, ReadableInv, WriterInv, AuthorityInv
<1>3. session.active.kind = ops[i].request.kind BY <1>2, ActiveRevision
<1>4. LifecycleRule(session) /\ session.lifecycle \in Lifecycles
  BY <1>2 DEF SessionReadable, CanonicalDocument, TypedInv, TypedRows, Snapshots
<1> QED BY <1>1, <1>3, <1>4, LifecycleCases

LEMMA FenceRecovers ==
    ASSUME PreparedInv, NEW i \in OpId, session.active.id = i, ops[i].state = "prepared",
           ops[i].request.kind = "writer-force-fence", ops[i].expected.lifecycle = "BLOCKED"
    PROVE  FenceDispatchable(i)
<1>1. /\ session.lifecycle = "BLOCKED" /\ ops[i].request.version = 1 /\ Space(3) /\ EpochLeft
      /\ session.active # NoPointer
  BY PreparedFacts DEF FenceFits
<1>2. FenceTargetSource(ops[i].request, ops[i].expected)
  BY <1>1 DEF PreparedInv, ReadableInv, SessionReadable, ActiveRelations
<1>3. DispatchSpace(ops[i].request) = 3 BY <1>1 DEF DispatchSpace, HandoffToTypedOperation
<1> QED BY <1>1, <1>2, <1>3 DEF FenceDispatchable, ActiveIn

LEMMA CaptureRecovers ==
    ASSUME PreparedInv, NEW i \in OpId, session.active.id = i, ops[i].state = "prepared",
           ops[i].request.kind = "checkpoint-capture", CaptureHandoff(i),
           claims[i].claimant # i
    PROVE  CaptureDispatchable(i)
<1>1. /\ Attached /\ Space(3) /\ Committed(session.last.id, "writer-launch-stopped")
      /\ session.attachment = ops[i].expected.attachment /\ session.active # NoPointer
  BY PreparedFacts DEF CaptureFits, AttachedKinds
<1>2. PICK l : l = session.last.id
  OBVIOUS
<1>3. /\ session.last # NoPointer /\ Contract(ops[l]) = <<"writer-launch-stop", 3>>
      /\ Committed(l, "writer-launch-stopped")
  BY <1>1, <1>2 DEF CaptureHandoff
<1>4. HandedOver(i, l, CaptureHandoffRequest(l)) /\ LastPointerRule(SettledSession, l, ops[l])
  BY <1>2, <1>3 DEF PreparedInv, ReadableInv, SessionReadable, TerminalRelations
<1>5. SettledSession = ops[i].expected BY <1>1 DEF SettledSession
<1>6. PICK x : x = ops[i].expected
  OBVIOUS
<1>7. PICK y : y = ops[l].expected
  OBVIOUS
<1>8. x.attachment = y.attachment
  <2>1. TerminalBusiness(x, ops[l]) BY <1>4, <1>5, <1>6 DEF LastPointerRule
  <2>2. Business(x) = Business([y EXCEPT !.launch = NoLaunch])
    BY <1>3, <1>7, <2>1 DEF TerminalBusiness, Committed
  <2>3. y \in Snapshots
    BY <1>3, <1>7 DEF Committed, PreparedInv, ReadableInv, WriterInv, AuthorityInv,
       TypedInv, TypedRows, Operations
  <2>4. [y EXCEPT !.launch = NoLaunch].attachment = y.attachment BY <2>3 DEF Snapshots
  <2> QED BY <2>2, <2>4 DEF Business
<1>9. ops[i].request.target = y.attachment.id
  BY <1>4, <1>7 DEF HandedOver, CaptureHandoffRequest, NoRequest
<1>10. DispatchSpace(ops[i].request) = 3 BY DEF DispatchSpace, HandoffToTypedOperation
<1>11. CaptureHandoffSound(i) BY <1>2, <1>3, <1>4 DEF CaptureHandoffSound
<1> QED BY <1>1, <1>6, <1>8, <1>9, <1>10, <1>11 DEF CaptureDispatchable, ActiveIn

LEMMA LaunchRecovers ==
    ASSUME PreparedInv, NEW i \in OpId, session.active.id = i, ops[i].state = "prepared",
           ops[i].request.kind = "writer-launch-attempt", claims[i].claimant # i
    PROVE  /\ LaunchDispatchable(i) <=> ~leaseExpired
           /\ Cancellable(i) <=> leaseExpired
<1>1. /\ Attached /\ Space(1) /\ Space(3) /\ LaunchHandoff(i) /\ LaunchHandoffSound(i)
      /\ session.launch = NoLaunch
      /\ LaunchGeneration(ops[i].request, session.attachment)
      /\ session.lifecycle = ops[i].expected.lifecycle
      /\ session.lease = ops[i].expected.lease
      /\ session.attachment = ops[i].expected.attachment
  BY PreparedFacts DEF LaunchFits, AttachedKinds
<1>2. DispatchSpace(ops[i].request) = 3 BY DEF DispatchSpace, HandoffToTypedOperation
<1>3. LaunchDispatchable(i) <=> ~leaseExpired
  BY <1>1, <1>2 DEF LaunchDispatchable, ActiveIn, LeaseLive
<1>4. Cancellable(i) <=> leaseExpired BY <1>1 DEF Cancellable, LaunchCancellable, Attached
<1> QED BY <1>3, <1>4

LEMMA OthersCancel ==
    ASSUME PreparedInv, NEW i \in OpId, session.active.id = i, ops[i].state = "prepared",
           ops[i].request.kind # "atomic-crash-capture",
           ops[i].expected.lifecycle # "BLOCKED",
           ops[i].request.kind = "checkpoint-capture" => ~CaptureHandoff(i),
           ops[i].request.kind = "writer-launch-attempt" => ~LaunchHandoff(i)
    PROVE  Cancellable(i)
<1>1. Space(1) BY PreparedFacts
<1> QED BY <1>1 DEF Cancellable, LaunchCancellable

\* A prepared operation never blocks the session: a claim method grants its
\* dispatch or cancelPreparedOperation takes it, whatever expired, was claimed
\* elsewhere or ran out in between.  Whatever the callers promise or do, only
\* two things can keep it from that: a request that the readers refuse, and a
\* capture or a launch that a caller put where one was to be handed over.
THEOREM Recoverable == Spec => [](RequestsSound /\ NothingIntrudes => PreparedRecoverable)
<1>1. ASSUME PreparedInv, NothingIntrudes PROVE PreparedRecoverable
  <2> SUFFICES ASSUME session.active # NoPointer, ops[Active].state = "prepared",
                      ops[Active].request.kind # "atomic-crash-capture"
               PROVE  SessionReadable /\ (Dispatchable(Active) \/ Cancellable(Active))
    BY DEF PreparedRecoverable
  <2>1. SessionReadable /\ ActiveNamed BY <1>1 DEF PreparedInv, ReadableInv, WriterInv
  <2>2. PICK i \in OpId : i = Active BY <2>1 DEF ActiveNamed, Active
  <2>3. session.active.id = i /\ ops[i].state = "prepared" BY <2>2 DEF Active
  <2>0. (\/ ops[i].request.kind = "checkpoint-capture" /\ CaptureHandoff(i)
         \/ ops[i].request.kind = "writer-launch-attempt" /\ LaunchHandoff(i))
          => claims[i].claimant # i
    BY <1>1, <2>3 DEF NothingIntrudes
  <2>4. CASE ops[i].expected.lifecycle = "BLOCKED"
    <3>1. ops[i].request.kind = "writer-force-fence"
      BY <1>1, <2>2, <2>3, <2>4, BlockedIsFenced
    <3> QED BY <1>1, <2>1, <2>2, <2>3, <2>4, <3>1, FenceRecovers DEF Dispatchable
  <2>5. CASE ops[i].request.kind = "checkpoint-capture" /\ CaptureHandoff(i)
    BY <1>1, <2>1, <2>2, <2>3, <2>0, <2>5, CaptureRecovers DEF Dispatchable
  <2>6. CASE ops[i].request.kind = "writer-launch-attempt" /\ LaunchHandoff(i)
    BY <1>1, <2>1, <2>2, <2>3, <2>0, <2>6, LaunchRecovers DEF Dispatchable
  <2> QED BY <1>1, <2>1, <2>2, <2>3, <2>4, <2>5, <2>6, OthersCancel
<1>2. SoundPrepared => (RequestsSound /\ NothingIntrudes => PreparedRecoverable)
  BY <1>1 DEF SoundPrepared
<1> QED BY <1>2, PreparedInvariance, PTL

\* A launch that a restore handed over can be dispatched while its lease lasts
\* and cancelled once it has expired, never both and never neither
\* (claimWriterLaunchAttemptDispatch, cancelPreparedOperation), whatever the
\* callers promise or do.
THEOREM Boundary == Spec => []HandoffBoundary
<1>1. ASSUME SoundPrepared PROVE HandoffBoundary
  <2> SUFFICES ASSUME session.active # NoPointer, ops[Active].state = "prepared",
                      ops[Active].request.kind = "writer-launch-attempt",
                      claims[Active].claimant # Active
               PROVE  Dispatchable(Active) = ~ Cancellable(Active)
    BY DEF HandoffBoundary
  <2>1. ActiveNamed BY <1>1 DEF SoundPrepared, WriterInv
  <2>2. PICK i \in OpId : i = Active BY <2>1 DEF ActiveNamed, Active
  <2>3. session.active.id = i /\ ops[i].state = "prepared" BY <2>2 DEF Active
  <2>4. PreparedInv BY <1>1, <2>2, <2>3 DEF SoundPrepared, LaunchWaits
  <2>5. (LaunchDispatchable(i) <=> ~leaseExpired) /\ (Cancellable(i) <=> leaseExpired)
    BY <2>2, <2>3, <2>4, LaunchRecovers
  <2>6. Dispatchable(i) <=> LaunchDispatchable(i)
    BY <2>2 DEF Dispatchable, AcquireDispatchable, ReleaseDispatchable, FenceDispatchable,
       CaptureDispatchable, GenerationDispatchable, ActivationDispatchable,
       StopDispatchable, GenericDispatchable, ActiveIn, LaunchDispatchable
  <2>7. Dispatchable(i) <=> ~Cancellable(i) BY <2>5, <2>6
  <2> QED BY <2>2, <2>7 DEF Dispatchable, Cancellable
<1> QED BY <1>1, PreparedInvariance, PTL

================================================================================
