---------------------------- MODULE SessionAuthority ----------------------------
(***************************************************************************)
(* PostgresSessionAuthority (src/src/postgres-session-authority.mjs): the   *)
(* serializable transactions that move one session through its writer       *)
(* lifecycle.  Every method is one transaction over the session row, its    *)
(* operation rows, their reservations and the global registry of operation  *)
(* identifiers, so every method is one action.  A replay of a method that   *)
(* has already happened returns the stored receipt and changes nothing.     *)
(*                                                                          *)
(* The worker that called a method may crash, time out or be replaced       *)
(* between any two methods: nothing here says which worker takes the next   *)
(* step.                                                                    *)
(***************************************************************************)
EXTENDS SessionRelations

CONSTANTS
    Offers,         \* [OpId -> contracts its callers reserve under that id]
    FleetCompatible,\* the contracts the deployment has enabled
    Discipline      \* what callers promise beyond what the authority checks

\* A contract is an operation kind and the version of its request, or another
\* use of an identifier: by another session, or by a stable restore plan.
Contracts == (Kinds \cup {"foreign", "stable-plan"}) \X (1 .. 3)

\* Contracts that reserveOperation refuses until the whole fleet reads them.
GatedContracts ==
    {<<"restore-generation", 2>>, <<"restore-activation", 2>>,
     <<"writer-launch-stop", 3>>, <<"writer-force-fence", 2>>}

(* Promises of the callers that reserveOperation relies on and does not      *)
(* check:                                                                    *)
(*   own-stop            a stop that hands over to a capture names itself    *)
(*                       and a capture other than itself                     *)
(*   private-intent      nobody else uses the capture identifier that such a *)
(*                       stop names                                          *)
(*   capture-after-stop  no direct capture follows such a stop cancelled     *)
(*   launch-after-restore no direct launch follows a cancelled restore that  *)
(*                       was to hand over to a launch                        *)
(*   checked-activation  an activation names the history it builds on        *)
Promises ==
    {"own-stop", "private-intent", "capture-after-stop",
     "launch-after-restore", "checked-activation"}

ASSUME OffersAssumption == Offers \in [OpId -> SUBSET Contracts]

ASSUME FleetAssumption ==
    FleetCompatible \subseteq GatedContracts \cup {<<"generation-predecessor", 2>>}

ASSUME DisciplineAssumption == Discipline \subseteq Promises

\* registerSession
Init ==
    /\ session = RegisteredSession
    /\ ops = [i \in OpId |-> NoOperation]
    /\ reservations = [i \in OpId |-> "absent"]
    /\ claims = [i \in OpId |-> NoClaim]
    /\ leaseExpired = FALSE

--------------------------------------------------------------------------------
(* Requests.  The validators of canonicalOperationInput accept a request     *)
(* only for the session it expects, and reserveOperation only when that is   *)
(* the session it reads, so the admissible requests depend on the session.   *)

\* The identifiers a caller can name: of operations that exist, and of ones it
\* means to use.
Existing(kind) ==
    {i \in OpId : ops[i].state # "absent" /\ ops[i].request.kind = kind}

Intended(kind) == {i \in OpId : <<kind, 1>> \in Offers[i]}

Attached == session.lifecycle = "ATTACHED"

Detached == session.lifecycle = "DETACHED"

EpochLeft == session.epoch < MaxEpoch

\* writerAttachmentRequest
AcquireRequests ==
    {r \in {[NoRequest EXCEPT !.kind = "writer-attachment-acquire"]} :
        Detached /\ EpochLeft}

\* writerReleaseRequest
ReleaseRequests ==
    {r \in {[NoRequest EXCEPT !.kind = "writer-release",
                              !.target = session.attachment.id]} :
        Attached /\ session.launch = NoLaunch}

\* The target of a force fence: the attachment, or the one the acquisition
\* that blocked was making; after that, any target the caller names.
FenceTargets ==
    IF session.attachment # NoAttachment THEN {session.attachment.id}
    ELSE IF session.last.kind = "writer-attachment-acquire"
         THEN {session.last.id} ELSE OpId

\* writerForceFenceOperationRequest
FenceRequests(i) ==
    {r \in [kind : {"writer-force-fence"}, version : 1 .. 2,
            target : FenceTargets,
            intent : Intended("atomic-crash-capture") \cup {None},
            source : {None}, stop : {None}] :
        /\ session.lease # NoLease
        /\ EpochLeft
        /\ IF r.version = 1
           THEN r.intent = None /\ session.lifecycle \in {"ATTACHED", "BLOCKED"}
           ELSE /\ r.intent \notin {i, None}
                /\ Attached
                /\ session.attachment # NoAttachment}

\* checkpointCaptureOperationRequest; the stop operation a capture names is
\* not checked against the history.
CaptureRequests ==
    {r \in [kind : {"checkpoint-capture"}, version : {1},
            target : {session.attachment.id}, intent : {None}, source : {None},
            stop : {None, session.last.id}] :
        Attached /\ HasWriter(session)}

\* restoreGenerationOperationRequest; the checkpoint is looked up at dispatch.
GenerationRequests(i) ==
    {r \in [kind : {"restore-generation"}, version : 1 .. 2, target : {None},
            intent : Intended("writer-launch-attempt") \cup {None},
            source : Existing("checkpoint-capture"), stop : {None}] :
        /\ Attached
        /\ session.launch = NoLaunch
        /\ IF r.version = 1 THEN r.intent = None ELSE r.intent \notin {i, None}}

\* restoreAttachmentActivationOperationRequest; version 2 also reads the
\* history it names before it reserves.
ActivationRequests(i) ==
    {r \in [kind : {"restore-activation"}, version : 1 .. 2,
            target : {ops[j].expected.attachment.id :
                        j \in OpId \cap {session.last.id}},
            intent : Intended("writer-launch-attempt") \ {i},
            source : Existing("restore-generation"),
            stop : Existing("writer-launch-stop")] :
        /\ Detached
        /\ EpochLeft
        /\ session.last.kind \in {"writer-release", "writer-force-fence"}
        /\ r.stop # session.last.id
        /\ r.version = 2 \/ "checked-activation" \in Discipline =>
             ActivationCore(r, session)
        /\ (r.version = 2 /\ GenerationPredecessor(r, ops[session.last.id].expected))
             => <<"generation-predecessor", 2>> \in FleetCompatible}

\* writerLaunchAttemptOperationRequest; the generation is looked up at
\* dispatch.
LaunchRequests ==
    {r \in [kind : {"writer-launch-attempt"}, version : {1}, target : {None},
            intent : {None}, source : Existing("restore-generation"),
            stop : {None}] :
        Attached /\ session.launch = NoLaunch}

\* writerLaunchStopOperationRequest; StopNamesItself is checked by the readers.
StopRequests(i) ==
    {r \in [kind : {"writer-launch-stop"}, version : 1 .. 3, target : {None},
            intent : Intended("checkpoint-capture") \cup {None},
            source : {None}, stop : {None, i}] :
        /\ Attached
        /\ session.launch # NoLaunch
        /\ IF r.version = 3 THEN r.intent # None
           ELSE r.intent = None /\ r.stop = None}

RequestsOf(i) ==
    AcquireRequests \cup ReleaseRequests \cup FenceRequests(i)
      \cup CaptureRequests \cup GenerationRequests(i)
      \cup ActivationRequests(i) \cup LaunchRequests \cup StopRequests(i)
      \cup {NoRequest}

StopIntents(i) ==
    {ops[k].request.intent :
        k \in {k \in OpId \ {i} :
                 Contract(ops[k]) = <<"writer-launch-stop", 3>>}}

\* The promises of the callers, where a run assumes them.
Disciplined(i, r) ==
    LET handover == <<r.kind, r.version>> = <<"writer-launch-stop", 3>> IN
    /\ ("own-stop" \in Discipline /\ handover) => StopNamesItself(i, r)
    /\ "private-intent" \in Discipline =>
         /\ i \notin StopIntents(i)
         /\ handover => /\ claims[r.intent] = NoClaim
                        /\ r.intent \notin StopIntents(i)
    /\ ("capture-after-stop" \in Discipline /\ r.kind = "checkpoint-capture"
          /\ session.last # NoPointer) =>
         Contract(ops[session.last.id]) # <<"writer-launch-stop", 3>>
    /\ ("launch-after-restore" \in Discipline /\ r.kind = "writer-launch-attempt"
          /\ session.last # NoPointer) =>
         Contract(ops[session.last.id]) # <<"restore-generation", 2>>

\* A caller that keeps its promises leaves the capture identifiers of others
\* alone when it claims j for operation i.
IntentFree(j, i) ==
    /\ claims[j] = NoClaim
    /\ "private-intent" \in Discipline => j \notin StopIntents(i)

--------------------------------------------------------------------------------
(* Reservation. *)

\* Mutant: the bound is one revision too far.
SpaceOneTooMany(n) == session.revision + n <= MaxRevision + 1

\* Revisions that must remain before a method writes (revisionAfter).
Space(n) == session.revision + n <= MaxRevision

\* Mutant: every prepared operation is taken to be cancellable.
ReserveSpaceToCancel(r) == 2

\* A reserved operation can still be cancelled; a fence of a blocked session
\* cannot, so it keeps the revisions to reach BLOCKED again.
ReserveSpace(r) ==
    IF r.kind = "writer-force-fence" /\ session.lifecycle = "BLOCKED" THEN 4 ELSE 2

HandoffToTypedOperation ==
    {<<"restore-generation", 2>>, <<"restore-activation", 1>>,
     <<"restore-activation", 2>>, <<"writer-launch-stop", 3>>}

\* Mutant: the budget of the operation a handoff creates is forgotten.
DispatchSpaceWithoutHandoff(r) == 3

\* A dispatched operation can be marked uncertain and then settled, together
\* with the operation it hands over to.
DispatchSpace(r) ==
    CASE <<r.kind, r.version>> \in HandoffToTypedOperation -> 7
      [] <<r.kind, r.version>> = <<"writer-force-fence", 2>> -> 4
      [] r.kind = "generic" -> 2
      [] OTHER -> 3

FinalizeSpace(r) ==
    CASE <<r.kind, r.version>> \in HandoffToTypedOperation -> 5
      [] <<r.kind, r.version>> = <<"writer-force-fence", 2>> -> 2
      [] OTHER -> 1

\* reserveOperation, on an identifier nobody has used, or on one that a stable
\* restore plan keeps for this restore.
ReserveOperation(i, r) ==
    /\ ops[i].state = "absent"
    /\ session.active = NoPointer
    /\ <<r.kind, r.version>> \in Offers[i]
    /\ <<r.kind, r.version>> \in GatedContracts =>
         <<r.kind, r.version>> \in FleetCompatible
    /\ r.kind = "writer-force-fence" => FenceTargetSource(r, session)
    /\ session.lifecycle = "BLOCKED" => r.kind = "writer-force-fence"
    /\ Space(ReserveSpace(r))
    /\ \/ claims[i] = NoClaim
       \/ /\ r.kind = "restore-generation"
          /\ claims[i].type = "stable-plan"
          /\ ~ claims[i].materialized
    /\ Disciplined(i, r)
    /\ claims' = [claims EXCEPT ![i] =
         IF @ = NoClaim
         THEN [type |-> "direct", claimant |-> i, materialized |-> TRUE]
         ELSE [@ EXCEPT !.materialized = TRUE]]
    /\ ops' = [ops EXCEPT ![i] = PreparedRow(r, session)]
    /\ reservations' = [reservations EXCEPT ![i] = "prepared"]
    /\ session' = Activated(session, i, PreparedRow(r, session))
    /\ UNCHANGED leaseExpired

\* The operation that a method names, in one of the phases it accepts.
ActiveIn(i, kind, phases) ==
    /\ session.active.id = i
    /\ ops[i].request.kind = kind
    /\ ops[i].state \in phases

Dispatched == {"starting", "uncertain"}

\* Mutant: the clock is not read again after the locks.
LeaseNeverChecked == TRUE

\* The lease has not expired on the authority clock, read after the locks.
LeaseLive == ~ leaseExpired

--------------------------------------------------------------------------------
(* The writer: acquire, renew, release and force-fence. *)

\* Mutant: a grant reuses the epoch.
EpochReused == session.epoch

\* nextWriterEpoch
NextEpoch == session.epoch + 1

\* writerLeaseFor, restoreAttachmentActivationLeaseFor
MintedLease(i) == [id |-> i, epoch |-> NextEpoch, term |-> 0]

AttachmentUnderLease == [id |-> session.lease.id, epoch |-> session.lease.epoch]

\* Mutant: a renewal is granted like a new lease.
RenewalMintsLease(i) == [id |-> i, epoch |-> session.epoch, term |-> 0]

\* renewedWriterLease: the same lease, extended.
RenewedLease(i) == [session.lease EXCEPT !.term = @ + 1]

AcquireDispatchable(i) ==
    /\ ActiveIn(i, "writer-attachment-acquire", {"prepared"})
    /\ Detached
    /\ EpochLeft
    /\ Space(DispatchSpace(ops[i].request))

\* claimWriterAttachmentDispatch
ClaimWriterAttachmentDispatch(i) ==
    /\ AcquireDispatchable(i)
    /\ Start(i, [session EXCEPT !.lifecycle = "ATTACHING",
                                !.epoch = NextEpoch,
                                !.lease = MintedLease(i)])
    /\ leaseExpired' = FALSE
    /\ UNCHANGED claims

\* finalizeWriterAttachment: an expired lease is still attached.
FinalizeWriterAttachment(i) ==
    LET attachment == AttachmentUnderLease IN
    /\ ActiveIn(i, "writer-attachment-acquire", Dispatched)
    /\ session.lifecycle = "ATTACHING"
    /\ Space(FinalizeSpace(ops[i].request))
    /\ Commit(i, WriterResult("writer-attached", session.epoch, session.lease,
                              attachment, None),
              [session EXCEPT !.lifecycle = "ATTACHED",
                              !.attachment = attachment])
    /\ UNCHANGED <<claims, leaseExpired>>

\* renewWriterLease: one transaction inserts the operation committed.
RenewWriterLease(i) ==
    LET lease == RenewedLease(i)
        request == [NoRequest EXCEPT !.kind = "writer-lease-renew"]
        result == WriterResult("writer-lease-renewed", session.epoch, lease,
                               session.attachment, None)
        o == [PreparedRow(request, session) EXCEPT !.state = "committed",
                                                   !.result = result]
    IN
    /\ ops[i].state = "absent"
    /\ <<"writer-lease-renew", 1>> \in Offers[i]
    /\ IntentFree(i, i)
    /\ session.active = NoPointer
    /\ Attached
    /\ LeaseLive
    /\ Space(1)
    /\ ops' = [ops EXCEPT ![i] = o]
    /\ reservations' = [reservations EXCEPT ![i] = "released"]
    /\ claims' = [claims EXCEPT ![i] =
         [type |-> "direct", claimant |-> i, materialized |-> TRUE]]
    /\ session' = Settled([session EXCEPT !.lease = lease], i, o)
    /\ UNCHANGED leaseExpired

ReleaseDispatchable(i) ==
    /\ ActiveIn(i, "writer-release", {"prepared"})
    /\ Attached
    /\ session.launch = NoLaunch
    /\ Space(DispatchSpace(ops[i].request))

\* claimWriterReleaseDispatch
ClaimWriterReleaseDispatch(i) ==
    /\ ReleaseDispatchable(i)
    /\ Start(i, [session EXCEPT !.lifecycle = "RELEASING"])
    /\ UNCHANGED <<claims, leaseExpired>>

\* Mutant: the attachment is not reset.
OnlyLeaseDropped == [session EXCEPT !.lifecycle = "DETACHED", !.lease = NoLease]

NoWriterLeft ==
    [session EXCEPT !.lifecycle = "DETACHED", !.lease = NoLease,
                    !.attachment = NoAttachment, !.launch = NoLaunch]

\* finalizeWriterRelease
FinalizeWriterRelease(i) ==
    /\ ActiveIn(i, "writer-release", Dispatched)
    /\ session.lifecycle = "RELEASING"
    /\ Space(FinalizeSpace(ops[i].request))
    /\ Commit(i, WriterResult("writer-released", session.epoch, session.lease,
                              session.attachment, ops[i].request.target),
              NoWriterLeft)
    /\ leaseExpired' = FALSE
    /\ UNCHANGED claims

FenceDispatchable(i) ==
    LET r == ops[i].request IN
    /\ ActiveIn(i, "writer-force-fence", {"prepared"})
    /\ session.lifecycle \in {"ATTACHED", "BLOCKED"}
    /\ FenceTargetSource(r, ops[i].expected)
    /\ EpochLeft
    /\ Space(DispatchSpace(r))
    /\ r.version = 2 => IntentFree(r.intent, i)

\* claimWriterForceFenceDispatch: the epoch moves before the provider fences.
ClaimWriterForceFenceDispatch(i) ==
    LET r == ops[i].request IN
    /\ FenceDispatchable(i)
    /\ Start(i, [session EXCEPT !.lifecycle = "FENCING", !.epoch = NextEpoch])
    /\ claims' = IF r.version = 2
                 THEN ClaimFor(r.intent, "fence-capture-intent", i) ELSE claims
    /\ UNCHANGED leaseExpired

FencedResult(i) ==
    WriterResult("writer-fenced", session.epoch, session.lease,
                 session.attachment, ops[i].request.target)

\* finalizeWriterForceFence
FinalizeWriterForceFence(i) ==
    /\ ActiveIn(i, "writer-force-fence", Dispatched)
    /\ ops[i].request.version = 1
    /\ session.lifecycle = "FENCING"
    /\ Space(FinalizeSpace(ops[i].request))
    /\ Commit(i, FencedResult(i), NoWriterLeft)
    /\ leaseExpired' = FALSE
    /\ UNCHANGED claims

\* finalizeWriterForceFenceAndReserveAtomicCrashCapture
FinalizeWriterForceFenceAndReserveAtomicCrashCapture(i) ==
    LET j == ops[i].request.intent IN
    /\ ActiveIn(i, "writer-force-fence", Dispatched)
    /\ ops[i].request.version = 2
    /\ session.lifecycle = "FENCING"
    /\ Space(FinalizeSpace(ops[i].request))
    /\ ClaimedBy(j, "fence-capture-intent", i, FALSE)
    /\ CommitAndReserve(i, FencedResult(i), NoWriterLeft, j,
                        AtomicHandoffRequest(i))
    /\ leaseExpired' = FALSE

\* Mutant: an acquisition has no target in its request.
BlockedTargetRequested(i) == ops[i].request.target

\* writerFenceTargetForInput: what a later fence must act on.
BlockedTarget(i) ==
    IF ops[i].request.kind = "writer-attachment-acquire" THEN i
    ELSE ops[i].request.target

\* Mutant: a writer that could not be proved gone is dropped.
BlockedWriterDropped == [NoWriterLeft EXCEPT !.lifecycle = "BLOCKED"]

BlockedSession == [session EXCEPT !.lifecycle = "BLOCKED"]

\* finalizeWriterOperationBlocked
FinalizeWriterOperationBlocked(i) ==
    /\ session.active.id = i
    /\ ops[i].state = "uncertain"
    /\ <<ops[i].request.kind, session.lifecycle>> \in
         {<<"writer-attachment-acquire", "ATTACHING">>,
          <<"writer-release", "RELEASING">>,
          <<"writer-force-fence", "FENCING">>}
    /\ Space(1)
    /\ Commit(i, WriterResult("writer-blocked", session.epoch, session.lease,
                              session.attachment, BlockedTarget(i)),
              BlockedSession)
    /\ UNCHANGED <<claims, leaseExpired>>

--------------------------------------------------------------------------------
(* Checkpoint captures and restored generations. *)

\* isAtomicWriterStopCaptureHandoff, on a prepared capture.  It refuses to
\* judge a capture that follows a stop which never handed over.
CaptureHandoff(i) ==
    /\ session.last # NoPointer
    /\ Contract(ops[session.last.id]) = <<"writer-launch-stop", 3>>

CaptureHandoffSound(i) ==
    CaptureHandoff(i) =>
        /\ Committed(session.last.id, "writer-launch-stopped")
        /\ HandedOver(i, session.last.id, CaptureHandoffRequest(session.last.id))

CaptureDispatchable(i) ==
    /\ ActiveIn(i, "checkpoint-capture", {"prepared"})
    /\ Attached
    /\ session.attachment.id = ops[i].request.target
    /\ CaptureHandoffSound(i)
    /\ Space(DispatchSpace(ops[i].request))
    /\ LeaseLive \/ CaptureHandoff(i)

\* claimCheckpointCaptureDispatch
ClaimCheckpointCaptureDispatch(i) ==
    /\ CaptureDispatchable(i)
    /\ Start(i, session)
    /\ UNCHANGED <<claims, leaseExpired>>

\* finalizeCheckpointCapture
FinalizeCheckpointCapture(i) ==
    /\ ActiveIn(i, "checkpoint-capture", Dispatched)
    /\ Space(FinalizeSpace(ops[i].request))
    /\ Commit(i, Outcome("checkpoint-captured"), session)
    /\ UNCHANGED <<claims, leaseExpired>>

\* readCommittedCheckpointSource: a checkpoint of an earlier epoch.
CheckpointSource(source) ==
    /\ Committed(source, "checkpoint-captured")
    /\ ops[source].expected.lease.epoch < session.lease.epoch

GenerationDispatchable(i) ==
    LET r == ops[i].request IN
    /\ ActiveIn(i, "restore-generation", {"prepared"})
    /\ Attached
    /\ Space(DispatchSpace(r))
    /\ CheckpointSource(r.source)
    /\ r.version = 2 => IntentFree(r.intent, i)
    /\ LeaseLive

\* claimRestoreDestinationGenerationDispatch
ClaimRestoreDestinationGenerationDispatch(i) ==
    LET r == ops[i].request IN
    /\ GenerationDispatchable(i)
    /\ Start(i, session)
    /\ claims' = IF r.version = 2
                 THEN ClaimFor(r.intent, "restore-launch-intent", i) ELSE claims
    /\ UNCHANGED leaseExpired

\* finalizeRestoreDestinationGeneration
FinalizeRestoreDestinationGeneration(i) ==
    /\ ActiveIn(i, "restore-generation", Dispatched)
    /\ ops[i].request.version = 1
    /\ Space(FinalizeSpace(ops[i].request))
    /\ Commit(i, Outcome("restore-generation-committed"), session)
    /\ UNCHANGED <<claims, leaseExpired>>

\* finalizeRestoreDestinationGenerationAndReserveWriterLaunchAttempt
FinalizeRestoreGenerationAndReserveLaunch(i) ==
    LET j == ops[i].request.intent IN
    /\ ActiveIn(i, "restore-generation", Dispatched)
    /\ ops[i].request.version = 2
    /\ Space(FinalizeSpace(ops[i].request))
    /\ ClaimedBy(j, "restore-launch-intent", i, FALSE)
    /\ CommitAndReserve(i, Outcome("restore-generation-committed"), session, j,
                        LaunchHandoffRequest(i))
    /\ UNCHANGED leaseExpired

--------------------------------------------------------------------------------
(* Activation of a restored attachment, launches and stops. *)

ActivationDispatchable(i) ==
    /\ ActiveIn(i, "restore-activation", {"prepared"})
    /\ Detached
    /\ Space(DispatchSpace(ops[i].request))
    /\ EpochLeft
    /\ IntentFree(ops[i].request.intent, i)

\* claimRestoreAttachmentActivationDispatch
ClaimRestoreAttachmentActivationDispatch(i) ==
    /\ ActivationDispatchable(i)
    /\ Start(i, [session EXCEPT !.lifecycle = "ATTACHING",
                                !.epoch = NextEpoch,
                                !.lease = MintedLease(i)])
    /\ claims' = ClaimFor(ops[i].request.intent, "activation-launch-intent", i)
    /\ leaseExpired' = FALSE

\* finalizeRestoreAttachmentActivationAndReserveWriterLaunchAttempt
FinalizeActivationAndReserveLaunch(i) ==
    LET j == ops[i].request.intent
        attachment == AttachmentUnderLease
    IN
    /\ ActiveIn(i, "restore-activation", Dispatched)
    /\ session.lifecycle = "ATTACHING"
    /\ Space(FinalizeSpace(ops[i].request))
    /\ ClaimedBy(j, "activation-launch-intent", i, FALSE)
    /\ CommitAndReserve(
         i, WriterResult("restore-attachment-activated", session.epoch,
                         session.lease, attachment, None),
         [session EXCEPT !.lifecycle = "ATTACHED", !.attachment = attachment],
         j, LaunchHandoffRequest(ops[i].request.source))
    /\ UNCHANGED leaseExpired

\* isAtomicRestoreLaunchHandoff and ...ActivationLaunchHandoff, on a prepared
\* launch.  They refuse to judge a launch that follows a restore which never
\* handed over.
LaunchHandoff(i) ==
    /\ session.last # NoPointer
    /\ Contract(ops[session.last.id]) \in
         {<<"restore-generation", 2>>, <<"restore-activation", 1>>,
          <<"restore-activation", 2>>}

LaunchHandoffSound(i) ==
    LaunchHandoff(i) =>
        LET j == session.last.id IN
        HandedOver(i, j, LaunchHandoffRequest(
            IF ops[j].request.kind = "restore-generation"
            THEN j ELSE ops[j].request.source))

LaunchDispatchable(i) ==
    /\ ActiveIn(i, "writer-launch-attempt", {"prepared"})
    /\ Attached
    /\ session.launch = NoLaunch
    /\ session.lease = ops[i].expected.lease
    /\ session.attachment = ops[i].expected.attachment
    /\ Space(DispatchSpace(ops[i].request))
    /\ session.last.kind = "restore-activation" => LaunchHandoffSound(i)
    /\ LaunchGeneration(ops[i].request, session.attachment)
    /\ LeaseLive

\* claimWriterLaunchAttemptDispatch
ClaimWriterLaunchAttemptDispatch(i) ==
    /\ LaunchDispatchable(i)
    /\ Start(i, session)
    /\ UNCHANGED <<claims, leaseExpired>>

\* Mutant: the started writer is not recorded in the session.
LaunchUnrecorded(i, outcome) == session

\* writerLaunchPointerFor: only a started writer is recorded.
LaunchedSession(i, outcome) ==
    IF outcome = "writer-launch-started"
    THEN [session EXCEPT !.launch = LaunchPointer(i, ops[i])]
    ELSE session

\* finalizeWriterLaunchAttempt
FinalizeWriterLaunchAttempt(i, outcome) ==
    /\ ActiveIn(i, "writer-launch-attempt", Dispatched)
    /\ Space(FinalizeSpace(ops[i].request))
    /\ Commit(i, Outcome(outcome), LaunchedSession(i, outcome))
    /\ UNCHANGED <<claims, leaseExpired>>

StopDispatchable(i) ==
    LET r == ops[i].request IN
    /\ ActiveIn(i, "writer-launch-stop", {"prepared"})
    /\ Attached
    /\ session.launch = ops[i].expected.launch
    /\ Space(DispatchSpace(r))
    /\ r.version = 3 => IntentFree(r.intent, i)

\* claimWriterLaunchStopDispatch: no lease check, a stop is always allowed.
ClaimWriterLaunchStopDispatch(i) ==
    LET r == ops[i].request IN
    /\ StopDispatchable(i)
    /\ Start(i, session)
    /\ claims' = IF r.version = 3
                 THEN ClaimFor(r.intent, "stop-capture-intent", i) ELSE claims
    /\ UNCHANGED leaseExpired

WriterStopped == [session EXCEPT !.launch = NoLaunch]

\* finalizeWriterLaunchStop
FinalizeWriterLaunchStop(i) ==
    /\ ActiveIn(i, "writer-launch-stop", Dispatched)
    /\ ops[i].request.version # 3
    /\ Space(FinalizeSpace(ops[i].request))
    /\ Commit(i, Outcome("writer-launch-stopped"), WriterStopped)
    /\ UNCHANGED <<claims, leaseExpired>>

\* finalizeWriterLaunchStopAndReserveCheckpointCapture
FinalizeWriterLaunchStopAndReserveCapture(i) ==
    LET j == ops[i].request.intent IN
    /\ ActiveIn(i, "writer-launch-stop", Dispatched)
    /\ ops[i].request.version = 3
    /\ Space(FinalizeSpace(ops[i].request))
    /\ ClaimedBy(j, "stop-capture-intent", i, FALSE)
    /\ CommitAndReserve(i, Outcome("writer-launch-stopped"), WriterStopped, j,
                        CaptureHandoffRequest(i))
    /\ UNCHANGED leaseExpired

--------------------------------------------------------------------------------
(* Every kind: generic dispatch, uncertainty and cancellation. *)

GenericDispatchable(i) ==
    /\ ActiveIn(i, "generic", {"prepared"})
    /\ Space(DispatchSpace(ops[i].request))

\* claimOperationDispatch
ClaimOperationDispatch(i) ==
    /\ GenericDispatchable(i)
    /\ Start(i, session)
    /\ UNCHANGED <<claims, leaseExpired>>

\* markOperationUncertain
MarkOperationUncertain(i) ==
    LET o == [ops[i] EXCEPT !.state = "uncertain", !.revision = 2] IN
    /\ session.active.id = i
    /\ ops[i].state = "starting"
    /\ Space(IF ops[i].request.kind \in TypedKinds THEN 2 ELSE 1)
    /\ ops' = [ops EXCEPT ![i] = o]
    /\ reservations' = [reservations EXCEPT ![i] = "uncertain"]
    /\ session' = Activated(session, i, o)
    /\ UNCHANGED <<claims, leaseExpired>>

\* Mutant: a launch that a restore handed over is never cancelled.
HandoffNeverCancelled(i) == ~ LaunchHandoff(i)

LaunchCancellable(i) ==
    LaunchHandoff(i) => LaunchHandoffSound(i) /\ leaseExpired

\* What a handoff prepared is not the caller's to cancel: a capture never, a
\* launch only once its lease has expired and it can no longer be dispatched.
Cancellable(i) ==
    LET kind == ops[i].request.kind IN
    /\ session.active.id = i
    /\ ops[i].state = "prepared"
    /\ ops[i].expected.lifecycle # "BLOCKED"
    /\ kind # "atomic-crash-capture"
    /\ kind = "checkpoint-capture" => ~ CaptureHandoff(i)
    /\ kind = "writer-launch-attempt" => LaunchCancellable(i)
    /\ Space(1)

\* cancelPreparedOperation
CancelPreparedOperation(i) ==
    /\ Cancellable(i)
    /\ Commit(i, Outcome("cancelled-before-dispatch"), session)
    /\ UNCHANGED <<claims, leaseExpired>>

--------------------------------------------------------------------------------
(* The rest of the world. *)

\* The authority clock passes the expiry of the lease.
LeaseExpires ==
    /\ session.lease # NoLease
    /\ ~ leaseExpired
    /\ leaseExpired' = TRUE
    /\ UNCHANGED <<session, ops, reservations, claims>>

\* Another session uses an identifier, or a stable restore plan keeps one.
ForeignClaim(j, type) ==
    /\ type \in {"foreign", "stable-plan"}
    /\ <<type, 1>> \in Offers[j]
    /\ IntentFree(j, None)
    /\ claims' = [claims EXCEPT ![j] =
         [type |-> type, claimant |-> None, materialized |-> FALSE]]
    /\ UNCHANGED <<session, ops, reservations, leaseExpired>>

--------------------------------------------------------------------------------
(* The specification. *)

\* The methods that grant the dispatch of a prepared operation.
Dispatch(i) ==
    \/ ClaimWriterAttachmentDispatch(i)
    \/ ClaimWriterReleaseDispatch(i)
    \/ ClaimWriterForceFenceDispatch(i)
    \/ ClaimCheckpointCaptureDispatch(i)
    \/ ClaimRestoreDestinationGenerationDispatch(i)
    \/ ClaimRestoreAttachmentActivationDispatch(i)
    \/ ClaimWriterLaunchAttemptDispatch(i)
    \/ ClaimWriterLaunchStopDispatch(i)
    \/ ClaimOperationDispatch(i)

\* The methods that record what a dispatched operation did.
Settle(i) ==
    \/ FinalizeWriterAttachment(i)
    \/ FinalizeWriterRelease(i)
    \/ FinalizeWriterForceFence(i)
    \/ FinalizeWriterForceFenceAndReserveAtomicCrashCapture(i)
    \/ FinalizeWriterOperationBlocked(i)
    \/ FinalizeCheckpointCapture(i)
    \/ FinalizeRestoreDestinationGeneration(i)
    \/ FinalizeRestoreGenerationAndReserveLaunch(i)
    \/ FinalizeActivationAndReserveLaunch(i)
    \/ \E outcome \in LaunchOutcomes : FinalizeWriterLaunchAttempt(i, outcome)
    \/ FinalizeWriterLaunchStop(i)
    \/ FinalizeWriterLaunchStopAndReserveCapture(i)

Step(i) ==
    \/ \E r \in RequestsOf(i) : ReserveOperation(i, r)
    \/ RenewWriterLease(i)
    \/ Dispatch(i)
    \/ MarkOperationUncertain(i)
    \/ Settle(i)
    \/ CancelPreparedOperation(i)

Next ==
    \/ SessionReadable /\ \E i \in OpId : Step(i)
    \/ LeaseExpires
    \/ \E j \in OpId, type \in {"foreign", "stable-plan"} : ForeignClaim(j, type)

Spec == Init /\ [][Next]_vars

\* A recovery round: its launch lane lists the prepared launch attempts and
\* cancels what is the authority's to cancel (reconcileWithinGuard).
ReconcileLaunchAttempt(i) ==
    /\ ops[i].request.kind = "writer-launch-attempt"
    /\ SessionReadable
    /\ CancelPreparedOperation(i)

\* The scheduler repeats its rounds, and time passes.
FairSpec ==
    /\ Spec
    /\ WF_vars(\E i \in OpId : ReconcileLaunchAttempt(i))
    /\ WF_vars(LeaseExpires)

--------------------------------------------------------------------------------
(* Safety. *)

Active == session.active.id

\* What the readers demand of a request and reserveOperation does not check: a
\* stop that hands over names itself and a capture nobody has claimed before it
\* is dispatched, an activation names the history it builds on.
RequestSound(i) ==
    LET o == ops[i] IN
    /\ Contract(o) = <<"writer-launch-stop", 3>> =>
         /\ StopNamesItself(i, o.request)
         /\ Undispatched(o) => claims[o.request.intent] = NoClaim
    /\ (o.request.kind = "restore-activation" /\ o.state = "prepared") =>
         ActivationCore(o.request, o.expected)

\* The operations a reader looks at.
Read == OpId \cap {session.active.id, session.last.id}

RequestsSound == \A i \in Read : RequestSound(i)

\* An operation prepared where one is handed over is the one handed over.
NothingIntrudes ==
    \A i \in OpId \cap {session.active.id} :
        (ops[i].state = "prepared"
           /\ \/ ops[i].request.kind = "checkpoint-capture" /\ CaptureHandoff(i)
              \/ ops[i].request.kind = "writer-launch-attempt" /\ LaunchHandoff(i))
          => claims[i].claimant # i

\* Some claim method grants the dispatch of the prepared operation i.
Dispatchable(i) ==
    \/ AcquireDispatchable(i) \/ ReleaseDispatchable(i) \/ FenceDispatchable(i)
    \/ CaptureDispatchable(i) \/ GenerationDispatchable(i)
    \/ ActivationDispatchable(i) \/ LaunchDispatchable(i)
    \/ StopDispatchable(i) \/ GenericDispatchable(i)

\* The authority never writes a session that its own readers refuse: after any
\* sequence of methods validateSessionRelations still accepts the document, the
\* active and the last operation with their reservations, the identifier
\* claims of the handoffs and the launch pointer.
AlwaysReadable == SessionReadable

\* A prepared operation can be dispatched or cancelled: neither an expired
\* lease, nor a crossed identifier, nor the end of the revision space leaves it
\* blocking the session ("a prepared operation must retain enough revision
\* space to reach one legal terminal state").  Atomic crash captures are left
\* out: no method settles them.
PreparedRecoverable ==
    (session.active # NoPointer /\ ops[Active].state = "prepared"
       /\ ops[Active].request.kind # "atomic-crash-capture")
      => SessionReadable /\ (Dispatchable(Active) \/ Cancellable(Active))

\* Once a typed operation is dispatched its outcome can be recorded, also after
\* it was marked uncertain: enough revisions remain for the whole handoff, and
\* the identifier of the operation it hands over to is still its own.
DispatchedRecoverable ==
    (session.active # NoPointer /\ ops[Active].state \in Dispatched
       /\ ops[Active].request.kind \in TypedKinds)
      => LET o == ops[Active] IN
         /\ Space(FinalizeSpace(o.request) + IF o.state = "starting" THEN 1 ELSE 0)
         /\ o.request.intent # None =>
              /\ claims[o.request.intent].claimant = Active
              /\ ~ claims[o.request.intent].materialized
              /\ ops[o.request.intent].state = "absent"

\* The operations that minted a lease, and the epoch of that lease.
Minters ==
    {i \in OpId :
        /\ ops[i].request.kind \in {"writer-attachment-acquire", "restore-activation"}
        /\ ops[i].state # "absent"
        /\ ~ Undispatched(ops[i])}

MintedEpoch(i) ==
    IF ops[i].state = "committed" THEN ops[i].result.lease.epoch
    ELSE session.lease.epoch

\* Every dispatched writer got an epoch of its own, above those of all the
\* writers before it, so the provider can tell a superseded writer from the
\* current one (nextWriterEpoch).
EpochsFenceWriters ==
    /\ \A i, j \in Minters : MintedEpoch(i) = MintedEpoch(j) => i = j
    /\ \A i \in Minters : MintedEpoch(i) <= session.epoch
    /\ session.lease # NoLease =>
         /\ session.lease.id \in Minters
         /\ session.lease.epoch = MintedEpoch(session.lease.id)
         /\ \A i \in Minters : MintedEpoch(i) <= session.lease.epoch

\* However often a fence blocks, the target that the next fence must name is
\* the writer whose lease the session still holds: finalizeWriterOperationBlocked
\* never replaces the anchored target.
FenceTargetAnchored ==
    /\ session.lifecycle = "BLOCKED" =>
         ops[session.last.id].result.target = session.lease.id
    /\ session.lifecycle = "FENCING" =>
         ops[Active].request.target = session.lease.id

\* Launch attempts whose process may be running: dispatched, or started and
\* neither stopped nor fenced.
MayRun(i) ==
    /\ ops[i].request.kind = "writer-launch-attempt"
    /\ \/ ops[i].state \in Dispatched
       \/ /\ Committed(i, "writer-launch-started")
          /\ \A k \in OpId :
               ops[k].expected.launch.id = i =>
                 ~ Committed(k, "writer-launch-stopped") /\ ~ Committed(k, "writer-fenced")

\* The session never forgets a writer process that may run: it is the launch
\* attempt in flight with no other launch recorded, or the recorded launch,
\* under the lease that is still held.  So there is at most one.
RunningWriterTracked ==
    \A i \in OpId : MayRun(i) =>
        /\ session.attachment = ops[i].expected.attachment
        /\ IF Active = i THEN session.launch = NoLaunch ELSE session.launch.id = i

\* What a launch handed over by a restore waits for: it can be dispatched while
\* its lease lasts and cancelled once it has expired, never both and never
\* neither ("complementary boundaries around the same bound lease").
HandoffBoundary ==
    (session.active # NoPointer /\ ops[Active].state = "prepared"
       /\ ops[Active].request.kind = "writer-launch-attempt"
       /\ claims[Active].claimant # Active)
      => Dispatchable(Active) = ~ Cancellable(Active)

--------------------------------------------------------------------------------
(* Action properties and liveness. *)

\* A writer leaves the session only by a proof that names it: a release or a
\* fence of its own attachment, already dispatched.  Until then its lease stays
\* in the document, at most renewed, and a blocked session only starts to fence.
WriterLeavesByProof ==
    [][session.lease # NoLease =>
         \/ /\ session'.lease.id = session.lease.id
            /\ session'.lease.term >= session.lease.term
            /\ session.lifecycle = "BLOCKED" =>
                 session'.lifecycle \in {"BLOCKED", "FENCING"}
         \/ /\ session'.lease = NoLease
            /\ session'.lifecycle = "DETACHED"
            /\ session.lifecycle \in {"RELEASING", "FENCING"}
            /\ ops[Active].request.target = session.lease.id]_vars

\* A prepared launch does not hold its session for good, whether the process
\* that was to dispatch it is there or not, and whatever became of the lease,
\* the revisions and the identifiers meanwhile: it is dispatched while its lease
\* lasts, or the launch lane can cancel it, at the latest once the lease that a
\* restore handed over with it has expired.  It is the only prepared operation
\* that the recovery rounds take up (listWriterLaunchAttemptRecoveryCandidates,
\* cancelPreparedOperation).
PreparedLaunch(i) ==
    /\ session.active.id = i
    /\ ops[i].state = "prepared"
    /\ ops[i].request.kind = "writer-launch-attempt"

PreparedLaunchEnds == \A i \in OpId : PreparedLaunch(i) ~> ~ PreparedLaunch(i)

\* The promise to the holders of leases: the operations that minted a lease are
\* the holders, a force fence revokes, a release or a finished fence vacates.
Granted ==
    [i \in OpId |-> IF i \in Minters THEN MintedEpoch(i) ELSE 0]

Lease ==
    INSTANCE FencedLease WITH
        Holder <- OpId, Nobody <- None, LastEpoch <- MaxEpoch,
        epoch <- session.epoch, holder <- session.lease.id, granted <- Granted

ImplementsFencedLease == Lease!LeaseSpec

================================================================================
