---------------------------- MODULE SessionRelations ----------------------------
(***************************************************************************)
(* The rows of one session in the authority's database, what a transaction  *)
(* of PostgresSessionAuthority (src/src/postgres-session-authority.mjs)     *)
(* writes to them, and validateSessionRelations: the relations between the  *)
(* rows that every method checks before it acts.                            *)
(*                                                                          *)
(* The rows that a transaction writes together with an operation (capture   *)
(* attempt, catalogue entry, restore generation) exist exactly in the       *)
(* phases that write them, so they are read off the operation.              *)
(***************************************************************************)
EXTENDS SessionDocument

VARIABLES
    session,       \* the session row: revision and document
    ops,           \* the operation rows
    reservations,  \* the reservation rows
    claims,        \* the registry of operation identifiers
    leaseExpired   \* the authority clock has passed the lease's expiry

vars == <<session, ops, reservations, claims, leaseExpired>>

ClaimTypes ==
    {"free", "direct", "foreign", "stable-plan", "restore-launch-intent",
     "activation-launch-intent", "stop-capture-intent", "fence-capture-intent"}

NoClaim == [type |-> "free", claimant |-> None, materialized |-> FALSE]

Claims == [type : ClaimTypes, claimant : IdOrNone, materialized : BOOLEAN]

TypeOK ==
    /\ session \in Snapshots
    /\ ops \in [OpId -> Operations]
    /\ reservations \in [OpId -> ActivePhases \cup {"absent", "released"}]
    /\ claims \in [OpId -> Claims]
    /\ leaseExpired \in BOOLEAN

--------------------------------------------------------------------------------
(* What the transactions write. *)

Pointer(i, o) ==
    [id |-> i, kind |-> o.request.kind, state |-> o.state,
     expected |-> o.expected.revision, revision |-> o.revision]

Activated(d, i, o) ==
    [d EXCEPT !.revision = @ + 1, !.active = Pointer(i, o)]

Settled(d, i, o) ==
    [d EXCEPT !.revision = @ + 1, !.active = NoPointer, !.last = Pointer(i, o)]

PreparedRow(request, expected) ==
    [request |-> request, state |-> "prepared", revision |-> 0,
     expected |-> expected, result |-> NoResult]

CommittedRow(o, result) ==
    [o EXCEPT !.state = "committed", !.revision = @ + 1, !.result = result]

Outcome(outcome) == [NoResult EXCEPT !.outcome = outcome]

\* The result of a writer operation: the writer it leaves or ends.
WriterResult(outcome, epoch, lease, attachment, target) ==
    [outcome |-> outcome, epoch |-> epoch, lease |-> lease,
     attachment |-> attachment, target |-> target]

\* START_OPERATION_QUERY, START_RESERVATION_QUERY and the session document.
Start(i, document) ==
    LET o == [ops[i] EXCEPT !.state = "starting", !.revision = 1] IN
    /\ ops' = [ops EXCEPT ![i] = o]
    /\ reservations' = [reservations EXCEPT ![i] = "starting"]
    /\ session' = Activated(document, i, o)

\* COMMIT_ACTIVE_OPERATION_QUERY, RELEASE_ACTIVE_RESERVATION_QUERY and the
\* session document.
Commit(i, result, document) ==
    LET o == CommittedRow(ops[i], result) IN
    /\ ops' = [ops EXCEPT ![i] = o]
    /\ reservations' = [reservations EXCEPT ![i] = "released"]
    /\ session' = Settled(document, i, o)

\* The handoffs: commit i and, in the same transaction, materialize the
\* identifier that i claimed for j and reserve j on the session i leaves.
CommitAndReserve(i, result, document, j, request) ==
    LET o == CommittedRow(ops[i], result)
        settled == Settled(document, i, o)
        next == PreparedRow(request, settled)
    IN
    /\ ops' = [ops EXCEPT ![i] = o, ![j] = next]
    /\ reservations' = [reservations EXCEPT ![i] = "released", ![j] = "prepared"]
    /\ claims' = [claims EXCEPT ![j] = [@ EXCEPT !.materialized = TRUE]]
    /\ session' = Activated(settled, j, next)

ClaimFor(j, type, i) ==
    [claims EXCEPT ![j] =
        [type |-> type, claimant |-> i, materialized |-> FALSE]]

--------------------------------------------------------------------------------
(* The relations that every method validates before it acts. *)

Contract(o) == <<o.request.kind, o.request.version>>

Cancelled(o) ==
    o.state = "committed" /\ o.result.outcome = "cancelled-before-dispatch"

Undispatched(o) == o.state = "prepared" \/ Cancelled(o)

Committed(i, outcome) ==
    /\ i \in OpId
    /\ ops[i].state = "committed"
    /\ ops[i].result.outcome = outcome

ClaimedBy(j, type, i, materialized) ==
    /\ j \in OpId
    /\ claims[j] = [type |-> type, claimant |-> i, materialized |-> materialized]

\* validateOperationReservation
ReservationRelation(i) ==
    reservations[i] =
        IF ops[i].state = "committed" THEN "released" ELSE ops[i].state

\* validateCheckpointCaptureRelations
CaptureRelations(i) ==
    ops[i].state = "committed" =>
        Cancelled(ops[i]) \/ Committed(i, "checkpoint-captured")

\* validateRestoreGenerationRelations
GenerationRelations(i) ==
    LET o == ops[i] IN
    ~ Undispatched(o) =>
        /\ Committed(o.request.source, "checkpoint-captured")
        /\ o.state = "committed" => Committed(i, "restore-generation-committed")
        /\ o.request.version = 2 =>
             ClaimedBy(o.request.intent, "restore-launch-intent", i,
                       o.state = "committed")

\* validateLastOperationPointer of a stop that left x
StoppedAt(x, stop, attachment) ==
    /\ Committed(stop, "writer-launch-stopped")
    /\ x.lifecycle = "ATTACHED"
    /\ x.launch = NoLaunch
    /\ x.attachment.id = attachment
    /\ x.last.kind = "writer-launch-stop"
    /\ LastPointerRule(x, stop, ops[stop])
    /\ ops[stop].expected.launch.attachment = attachment

\* readRestoreAttachmentActivationPredecessorV1
PredecessorV1(r, detached) ==
    /\ StoppedAt(detached, r.stop, r.target)
    /\ ops[r.stop].expected.launch.generation = r.source

GenerationPredecessor(r, detached) ==
    detached.last.kind = "restore-generation" /\ detached.last.id = r.source

\* readRestoreAttachmentActivationPredecessorV2
PredecessorV2(r, detached) ==
    LET base == IF GenerationPredecessor(r, detached)
                THEN ops[r.source].expected ELSE detached
        capture == base.last.id
    IN
    /\ GenerationPredecessor(r, detached) =>
         /\ ops[r.source].request.version = 1
         /\ LastPointerRule(detached, r.source, ops[r.source])
    /\ base.last.kind = "checkpoint-capture"
    /\ base.lifecycle = "ATTACHED"
    /\ base.launch = NoLaunch
    /\ base.attachment.id = r.target
    /\ Committed(capture, "checkpoint-captured")
    /\ LastPointerRule(base, capture, ops[capture])
    /\ ops[capture].request.stop = r.stop
    /\ ops[capture].request.target = r.target
    /\ StoppedAt(ops[capture].expected, r.stop, r.target)

\* readRestoreAttachmentActivationCoreRelations: the generation was restored
\* into the attachment whose writer was stopped before the session detached.
ActivationCore(r, x) ==
    LET detach == x.last.id IN
    /\ Committed(r.source, "restore-generation-committed")
    /\ Committed(detach, "writer-released") \/ Committed(detach, "writer-fenced")
    /\ LastPointerRule(x, detach, ops[detach])
    /\ ops[r.source].expected.attachment = ops[detach].expected.attachment
    /\ ops[detach].expected.attachment.id = r.target
    /\ IF r.version = 1
       THEN PredecessorV1(r, ops[detach].expected)
       ELSE PredecessorV2(r, ops[detach].expected)

\* validateRestoreAttachmentActivationRelations
ActivationRelations(i) ==
    LET o == ops[i] IN
    /\ ~ Cancelled(o) => ActivationCore(o.request, o.expected)
    /\ ~ Undispatched(o) =>
         /\ ClaimedBy(o.request.intent, "activation-launch-intent", i,
                      o.state = "committed")
         /\ o.state = "committed" => Committed(i, "restore-attachment-activated")

\* readCommittedRestoreGenerationForLaunch and
\* validateWriterLaunchGenerationAttachmentRelation: the generation was
\* restored into this attachment, or this attachment activated it.
LaunchGeneration(r, attachment) ==
    LET activation == attachment.id IN
    /\ Committed(r.source, "restore-generation-committed")
    /\ \/ ops[r.source].expected.attachment = attachment
       \/ /\ Committed(activation, "restore-attachment-activated")
          /\ ops[activation].request.source = r.source
          /\ ops[activation].result.attachment = attachment

LaunchOutcomes ==
    {"writer-launch-started", "writer-launch-not-started",
     "writer-launch-complete-stopped"}

\* validateWriterLaunchAttemptRelations
LaunchRelations(i) ==
    LET o == ops[i] IN
    ~ Undispatched(o) =>
        /\ LaunchGeneration(o.request, o.expected.attachment)
        /\ o.state = "committed" => o.result.outcome \in LaunchOutcomes

\* writerLaunchPointerFor
LaunchPointer(i, o) ==
    [id |-> i, attachment |-> o.expected.attachment.id,
     generation |-> o.request.source, epoch |-> o.expected.epoch]

\* validateCurrentWriterLaunchRelation, validateWriterLaunchPointerRelations
CurrentLaunchRelation(d) ==
    d.launch # NoLaunch =>
        LET i == d.launch.id IN
        /\ Committed(i, "writer-launch-started")
        /\ LaunchRelations(i)
        /\ d.launch = LaunchPointer(i, ops[i])
        /\ d.lease.id = ops[i].expected.lease.id
        /\ d.lease.epoch = ops[i].expected.lease.epoch
        /\ d.lease.term >= ops[i].expected.lease.term
        /\ d.attachment = ops[i].expected.attachment

\* writerLaunchStopInput
StopNamesItself(i, r) ==
    r.version = 3 => r.stop = i /\ r.intent # i

\* validateWriterLaunchStopRelations
StopRelations(i) ==
    LET o == ops[i] IN
    /\ StopNamesItself(i, o.request)
    /\ o.expected.launch # NoLaunch
    /\ CurrentLaunchRelation(o.expected)
    /\ o.request.version = 3 =>
         IF Undispatched(o)
         THEN claims[o.request.intent] = NoClaim
         ELSE ClaimedBy(o.request.intent, "stop-capture-intent", i,
                        o.state = "committed")
    /\ IF o.state = "committed"
       THEN Cancelled(o) \/ Committed(i, "writer-launch-stopped")
       ELSE session.launch = o.expected.launch

\* validateWriterForceFenceAtomicCaptureRelations
FenceRelations(i) ==
    LET o == ops[i] IN
    o.request.version = 2 =>
        IF Undispatched(o)
        THEN claims[o.request.intent].claimant # i
        ELSE ClaimedBy(o.request.intent, "fence-capture-intent", i,
                       Committed(i, "writer-fenced"))

\* validateAtomicCrashCaptureHandoffRelations
AtomicRelations(i) ==
    LET fence == claims[i].claimant IN
    /\ ops[i].state = "prepared"
    /\ Committed(fence, "writer-fenced")
    /\ ClaimedBy(i, "fence-capture-intent", fence, TRUE)
    /\ ops[i].expected.last = Pointer(fence, ops[fence])
    /\ ops[i].expected.active = NoPointer

\* The relations of one operation row, by kind.
Relations(i) ==
    LET kind == ops[i].request.kind IN
    /\ ReservationRelation(i)
    /\ kind = "checkpoint-capture" => CaptureRelations(i)
    /\ kind = "restore-generation" => GenerationRelations(i)
    /\ kind = "restore-activation" => ActivationRelations(i)
    /\ kind = "writer-launch-attempt" => LaunchRelations(i)
    /\ kind = "writer-launch-stop" => StopRelations(i)
    /\ kind = "writer-force-fence" => FenceRelations(i)
    /\ kind = "atomic-crash-capture" => AtomicRelations(i)

\* checkpointCaptureInputForWriterStopHandoff
CaptureHandoffRequest(stop) ==
    [NoRequest EXCEPT !.kind = "checkpoint-capture", !.stop = stop,
                      !.target = ops[stop].expected.attachment.id]

\* writerLaunchAttemptInputForRestoreHandoff and ...ActivationHandoff
LaunchHandoffRequest(generation) ==
    [NoRequest EXCEPT !.kind = "writer-launch-attempt", !.source = generation]

\* atomicCrashCaptureInputForWriterForceFenceHandoff
AtomicHandoffRequest(fence) ==
    [NoRequest EXCEPT !.kind = "atomic-crash-capture",
                      !.target = ops[fence].expected.attachment.id]

\* Operation i is what the handoff of operation j created.
HandedOver(i, j, request) ==
    /\ i = ops[j].request.intent
    /\ ops[i].request = request
    /\ ops[i].expected.last.id = j
    /\ claims[i].claimant = j
    /\ claims[i].materialized

\* The session as its last operation left it.
SettledSession ==
    IF session.active = NoPointer THEN session
    ELSE ops[session.active.id].expected

\* validateForceFenceTargetSource: with no attachment to fence, the target is
\* the one the blocked operation left.
FenceTargetSource(r, x) ==
    x.attachment = NoAttachment =>
        /\ x.lifecycle = "BLOCKED"
        /\ Committed(x.last.id, "writer-blocked")
        /\ ops[x.last.id].result.target = r.target

\* validateSessionRelations, on the active operation
ActiveRelations ==
    LET i == session.active.id IN
    IF session.active = NoPointer
    THEN \A j \in OpId :
            /\ ops[j].state \notin ActivePhases
            /\ reservations[j] \notin ActivePhases
    ELSE /\ ActivePointerRule(session, i, ops[i])
         /\ Relations(i)
         /\ ops[i].request.kind = "writer-force-fence" =>
              FenceTargetSource(ops[i].request, ops[i].expected)

\* validateSessionRelations, on the last operation: what a stop or a fence
\* hands over stays active until it is itself settled.
TerminalRelations ==
    LET i == session.last.id
        a == session.active.id
    IN
    /\ session.last = SettledSession.last
    /\ session.last # NoPointer =>
         /\ LastPointerRule(SettledSession, i, ops[i])
         /\ Relations(i)
         /\ (Contract(ops[i]) = <<"writer-launch-stop", 3>>
               /\ Committed(i, "writer-launch-stopped")) =>
              a # None /\ HandedOver(a, i, CaptureHandoffRequest(i))
         /\ (Contract(ops[i]) = <<"writer-force-fence", 2>>
               /\ Committed(i, "writer-fenced")) =>
              a # None /\ HandedOver(a, i, AtomicHandoffRequest(i))

\* readSessionSnapshot and validateSessionRelations: a method that finds
\* anything else refuses to read the session at all.
SessionReadable ==
    /\ CanonicalDocument(session)
    /\ RevisionState(session)
    /\ ActiveRelations
    /\ TerminalRelations
    /\ CurrentLaunchRelation(session)

================================================================================
