-------------------------- MODULE CheckpointCapture --------------------------
(***************************************************************************)
(* Checkpoints of a session directory: a capture of a writer that stopped  *)
(* in this process, the capture that a durable stop left prepared, its     *)
(* reconciliation, and the restore of a checkpoint.  Every call runs under *)
(* the advisory lock of its operation, moves the operation's row, and has  *)
(* the tree published in between.  The publication is the one that         *)
(* AtomicPublication promises.                                             *)
(***************************************************************************)
EXTENDS StorageContracts, StoppedWriterCapability

CONSTANTS Hosts, Nowhere,      \* processes; no process
          Captures, Restores,  \* operation identifiers
          NoOperation,
          LastEpoch,           \* bound: fencing epochs, which name the writers
          MaxWrites,           \* bound: changes of the session directory
          MaxAttempts,         \* bound: capture attempt identifiers
          MaxMishaps           \* bound: failures and crashes

ASSUME CaptureAssumption ==
    /\ Nowhere \notin Hosts
    /\ NoOperation \notin Captures \cup Restores /\ Captures \cap Restores = {}
    /\ LastEpoch \in Nat /\ MaxWrites \in Nat
    /\ MaxAttempts \in Nat /\ MaxMishaps \in Nat
    /\ Epoch = [e \in 1 .. LastEpoch |-> e]

VARIABLES session,    \* the session row
          operation,  \* operation[o]: the row, with its attempt and catalogue entry
          published,  \* published[o]: the publication's record and tree
          directory,  \* the session directory and the writer that changes it
          advisory,   \* advisory[o]: who holds the operation's lock
          inFlight,   \* inFlight[h]: the call of process h
          minted,     \* capture attempt identifiers in use
          told,       \* told[o]: the content a caller was told of
          mishaps

captureVars == <<session, operation, published, directory, advisory, inFlight,
                 minted, told, mishaps, writer>>

Operations == Captures \cup Restores
Unknown == 99
Here == [session |-> "ours", storage |-> "ours"]
\* base is the revision of the session the request was made for.
NoRow == [state |-> "absent", revision |-> 0, base |-> 0, epoch |-> 0,
          source |-> NoOperation, handoff |-> FALSE, attempt |-> 0, content |-> Unknown]
NoPublication == [state |-> "none", epoch |-> 0, content |-> Unknown]
NoContext == [epoch |-> 0, expired |-> FALSE]
\* expected is the operation revision that finalisation asks for; context is the
\* session as the claim returned it.
NotRunning == [at |-> "idle", kind |-> "none", o |-> NoOperation, epoch |-> 0,
               attempt |-> 0, base |-> 0, expected |-> 0, began |-> FALSE,
               content |-> Unknown, context |-> NoContext, source |-> NoOperation]

CaptureInit ==
    /\ session = [revision |-> 0, epoch |-> 0, expired |-> FALSE, active |-> NoOperation]
    /\ operation = [o \in Operations |-> NoRow]
    /\ published = [o \in Operations |-> NoPublication]
    /\ directory = [content |-> 0, live |-> 0, still |-> [e \in 1 .. LastEpoch |-> Unknown]]
    /\ advisory = [o \in Operations |-> Nowhere]
    /\ inFlight = [h \in Hosts |-> NotRunning]
    /\ told = [o \in Operations |-> Unknown]
    /\ minted = 0 /\ mishaps = 0
    /\ CapabilityInit(Hosts)

Mishap == mishaps < MaxMishaps /\ mishaps' = mishaps + 1
Mint == minted < MaxAttempts /\ minted' = minted + 1
Running(h, at) == inFlight[h].at = at
Onward(h, at) == inFlight' = [inFlight EXCEPT ![h].at = at]
rows == <<session, operation>>

-----------------------------------------------------------------------------
(* The rest of the session.                                                *)

\* The writer of the epoch no longer changes the directory.
Silenced(d, e) ==
    IF d.live = e /\ e > 0 THEN [d EXCEPT !.live = 0, !.still[e] = d.content] ELSE d

\* The session's writer is released or fenced and a new one is attached and
\* launched on h.  No operation of the session is active meanwhile.
AttachWriter(h) ==
    LET e == session.epoch + 1 IN
    /\ session.active = NoOperation /\ session.epoch < LastEpoch
    /\ registerWriter(h, e)
    /\ session' = [session EXCEPT !.revision = @ + 1, !.epoch = e, !.expired = FALSE]
    /\ directory' = [Silenced(directory, session.epoch) EXCEPT !.live = e]
    /\ UNCHANGED <<minted, operation, published, advisory, inFlight, told, mishaps>>

WriterWrites ==
    /\ directory.live > 0 /\ directory.content < MaxWrites
    /\ directory' = [directory EXCEPT !.content = @ + 1]
    /\ UNCHANGED <<minted, rows, published, advisory, inFlight, told, mishaps, writer>>

LeaseRunsOut ==
    /\ session.epoch > 0 /\ ~ session.expired
    /\ session' = [session EXCEPT !.expired = TRUE]
    /\ UNCHANGED <<minted, operation, published, directory, advisory, inFlight, told, mishaps, writer>>

BeginWriterStop(h) ==
    /\ beginStop(h)
    /\ UNCHANGED <<minted, rows, published, directory, advisory, inFlight, told, mishaps>>

\* The stop callback of the launcher: a capability is issued for a writer that
\* is known to have stopped.
WriterStopReturns(h) ==
    /\ writer[h].state = "stopping"
    /\ \/ /\ directory' = Silenced(directory, writer[h].a)
          /\ writer' = [writer EXCEPT ![h] = issueCapability(h)]
          /\ UNCHANGED mishaps
       \/ /\ Mishap
          /\ directory' \in {directory, Silenced(directory, writer[h].a)}
          /\ writer' = [writer EXCEPT ![h] = stopFailed(h)]
    /\ UNCHANGED <<minted, rows, published, advisory, inFlight, told>>

WriterRetired(h) ==
    /\ retireWriter(h)
    /\ UNCHANGED <<minted, rows, published, directory, advisory, inFlight, told, mishaps>>

\* A durable stop commits and leaves the capture of its writer prepared.
StopLeavesCapture(o) ==
    /\ session.active = NoOperation /\ operation[o] = NoRow
    /\ session.epoch > 0 /\ directory.live # session.epoch
    /\ directory.still[session.epoch] # Unknown
    /\ operation' = [operation EXCEPT ![o] =
         [NoRow EXCEPT !.state = "prepared", !.epoch = session.epoch, !.handoff = TRUE,
                       !.base = session.revision, !.attempt = minted + 1]]
    /\ session' = [session EXCEPT !.revision = @ + 1, !.active = o]
    /\ Mint
    /\ UNCHANGED <<published, directory, advisory, inFlight, told, mishaps, writer>>

-----------------------------------------------------------------------------
(* What a request must say.  The caller presents an attachment, the        *)
(* descriptor of the checkpoint and the mutation.                          *)

Places == [session : {"ours", "theirs"}, storage : {"ours", "theirs"}]
At(place, e) == [session |-> place.session, storage |-> place.storage, epoch |-> e]
Descriptor(place, id, e, class) ==
    [session |-> place.session, storage |-> place.storage, id |-> id, epoch |-> e,
     class |-> class]
Mutation(id, e, op) ==
    [session |-> Here.session, storage |-> Here.storage, id |-> id, epoch |-> e,
     operation |-> op, kind |-> "checkpoint"]

normalizeCaptureRequest(attachment, checkpoint, request) ==
    /\ assertSessionAttachment(attachment)
    /\ assertCheckpointDescriptor(checkpoint)
    /\ assertStorageMutationRequest(request)
    /\ SameStorage(attachment, checkpoint) /\ SameStorage(attachment, request)
    /\ attachment.epoch = request.epoch /\ attachment.epoch = checkpoint.epoch
    /\ checkpoint.class = "clean"
    /\ request.operation = "checkpoint" /\ request.id = checkpoint.id

normalizeCaptureReconciliationRequest(checkpoint, request) ==
    /\ assertCheckpointDescriptor(checkpoint)
    /\ assertStorageMutationRequest(request)
    /\ SameStorage(checkpoint, request) /\ checkpoint.epoch = request.epoch
    /\ checkpoint.class = "clean"
    /\ request.operation = "checkpoint" /\ request.id = checkpoint.id

\* The lease at registration has the fence of the attachment that is presented.
normalizeResolvedWriter(h, attachment) ==
    writer[h].state # "none" /\ Epoch[writer[h].a] = attachment.epoch

\* The claimed session has the attachment, the lease and the storage that the
\* caller and the registered writer name, and its lease had time left then.
Lease(m) == [session |-> "ours", epoch |-> m.context.epoch]
normalizeStorageAndFence(m, request) ==
    assertStorageMutationMatchesLeaseSnapshot(request, Lease(m), Here, m.context.expired)

normalizeCaptureContext(h) ==
    LET mine == inFlight[h] IN
    /\ normalizeStorageAndFence(mine, Mutation(mine.o, mine.epoch, "checkpoint"))
    /\ assertCanonicalFenceMatch(Lease(mine),
                                 [session |-> "ours", epoch |-> Epoch[writer[h].a]],
                                 mine.context.expired)
    /\ operation[mine.o].attempt = mine.attempt

\* A prepared capture keeps the fence of the stopped writer as an identity: its
\* lease may have expired.
normalizePreparedCaptureContext(m) ==
    assertStorageMutationMatchesLeaseSnapshot(
        Mutation(m.o, m.epoch, "checkpoint"), Lease(m), Here, FALSE)

\* The admission of a restore, and the context that the foreground supplies.
normalizeRestoreRequest(checkpoint, request) ==
    assertRestoreCheckpointAdmission(checkpoint, request)

normalizeRestoreContext(m) ==
    /\ normalizeStorageAndFence(m, Mutation(m.source, m.epoch, "restore"))
    /\ m.context.epoch > operation[m.source].epoch

-----------------------------------------------------------------------------
(* What a receipt of the session authority must say: m is the call, row    *)
(* the operation and s the session as the transaction left them.           *)

\* The request that is rebuilt from the row is the caller's.
canonicalTypedCaptureRequest(m, row) == row.epoch = m.epoch /\ row.attempt = m.attempt
validateOperationCommon(m, row) == row.base = m.base /\ canonicalTypedCaptureRequest(m, row)

\* Every transition of the operation is one of the session, which nothing else
\* moves meanwhile.
validateSessionTuple(row, s, active) ==
    /\ s.revision = row.base + row.revision + 1
    /\ s.epoch = row.epoch /\ s.active = active

validateHistoricalSessionIdentity(row, s) ==
    s.revision >= row.base + row.revision + 1

\* The attempt's row is written by the claim and closed by finalisation.
AttemptState(row) ==
    CASE row.state \in {"starting", "uncertain"} -> "authorized"
      [] row.state = "committed" -> "committed"
      [] OTHER -> "none"
normalizeCaptureAttempt(row, state) == row.attempt > 0 /\ AttemptState(row) = state

normalizeCatalogueDocument(row, completion) == row.content = completion
normalizeCatalogue(row, completion) ==
    AttemptState(row) = "committed" /\ normalizeCatalogueDocument(row, completion)

reserveReceipt(m, row, s) ==
    /\ row.state = "prepared" /\ row.revision = 0
    /\ validateOperationCommon(m, row) /\ validateSessionTuple(row, s, m.o)

claimReceipt(m, row, s) ==
    /\ row.state = "starting" /\ row.revision = 1
    /\ validateOperationCommon(m, row)
    /\ normalizeCaptureAttempt(row, "authorized")
    /\ validateSessionTuple(row, s, m.o)

normalizeFinalizationReceipt(m, row, s, finalized) ==
    /\ row.state = "committed" /\ row.revision = m.expected + 1
    /\ validateOperationCommon(m, row)
    /\ normalizeCaptureAttempt(row, "committed")
    /\ normalizeCatalogue(row, m.content)
    /\ IF finalized THEN validateSessionTuple(row, s, NoOperation)
                    ELSE validateHistoricalSessionIdentity(row, s)

normalizePreparedCaptureReadReceipt(m, row, s) ==
    /\ row.state = "prepared" /\ row.revision = 0 /\ AttemptState(row) = "none"
    /\ validateSessionTuple(row, s, m.o)

normalizeReconciliationReadReceipt(m, row, s) ==
    \/ /\ \/ row.state = "starting" /\ row.revision = 1
          \/ row.state = "uncertain" /\ row.revision = 2
       /\ normalizeCaptureAttempt(row, "authorized") /\ validateSessionTuple(row, s, m.o)
    \/ /\ row.state = "committed" /\ row.revision \in {2, 3}
       /\ normalizeCaptureAttempt(row, "committed") /\ row.content # Unknown
       /\ validateHistoricalSessionIdentity(row, s)

-----------------------------------------------------------------------------
(* The calls.  A transaction is applied and answered, or its answer or the *)
(* whole of it is lost; an answer shows the rows it wrote and is checked.  *)

Transaction(h, can, row, active, receipt, next, failed) ==
    LET mine == inFlight[h]
        s == [session EXCEPT !.revision = @ + 1, !.active = active]
        applied == operation' = [operation EXCEPT ![mine.o] = row] /\ session' = s
    IN
    /\ \/ /\ can /\ applied /\ UNCHANGED mishaps
          /\ inFlight' = [inFlight EXCEPT ![h] = IF receipt THEN next ELSE failed]
       \/ can /\ applied /\ inFlight' = [inFlight EXCEPT ![h] = failed] /\ Mishap
       \/ /\ inFlight' = [inFlight EXCEPT ![h] = failed] /\ UNCHANGED rows
          /\ IF can THEN Mishap ELSE UNCHANGED mishaps
    /\ UNCHANGED <<published, directory, advisory, minted, told, writer>>

\* A read, or the probe of the lock, that answers or fails.
Question(h, next, failed) ==
    /\ \/ inFlight' = [inFlight EXCEPT ![h] = next] /\ UNCHANGED mishaps
       \/ inFlight' = [inFlight EXCEPT ![h] = failed] /\ next # failed /\ Mishap
    /\ UNCHANGED <<rows, published, directory, advisory, minted, told, writer>>

Gone(h, at) == [inFlight[h] EXCEPT !.at = at]
AfterFailure(h) ==
    IF inFlight[h].began THEN Gone(h, "mark") ELSE Gone(h, "failed")

\* The probe of the lock is awaited on its own, and so is the effect after it:
\* the lock may be lost between the two.
assertGuardHeld(h) == advisory[inFlight[h].o] = h
Probe(h, at, next, failed) ==
    /\ Running(h, at)
    /\ Question(h, IF assertGuardHeld(h) THEN Gone(h, next) ELSE failed, failed)

\* Mutant: the evidence that is presented is not asked for.
AnyWriter(h) == writer' = [writer EXCEPT ![h].state = "consuming"]

\* The stopped-writer evidence is consumed, once, by this capture.
EvidenceConsumed(h) == consumeCapability(h)

captureCheckpoint(h, o, place, e, class) ==
    /\ Running(h, "idle")
    /\ normalizeCaptureRequest(At(place, e), Descriptor(Here, o, e, class),
                               Mutation(o, e, "checkpoint"))
    /\ normalizeResolvedWriter(h, At(place, e))
    /\ EvidenceConsumed(h)
    /\ Mint
    /\ inFlight' = [inFlight EXCEPT ![h] =
         [NotRunning EXCEPT !.at = "enter", !.kind = "capture", !.o = o, !.epoch = e,
                            !.attempt = minted + 1]]
    /\ UNCHANGED <<rows, published, directory, advisory, told, mishaps>>

Begins(h, o, kind) ==
    /\ Running(h, "idle")
    /\ inFlight' = [inFlight EXCEPT ![h] =
         [NotRunning EXCEPT !.at = "enter", !.kind = kind, !.o = o,
                            !.epoch = operation[o].epoch]]
    /\ UNCHANGED <<rows, published, directory, advisory, minted, told, mishaps, writer>>

\* Recovery lists the captures that are under way and the prepared ones that a
\* stop handed over, and takes each on its route.
listCheckpointCaptureRecoveryCandidates ==
    {o \in Captures : \/ operation[o].state \in {"starting", "uncertain"}
                      \/ operation[o].state = "prepared" /\ operation[o].handoff}

normalizeCandidate(o, e, route) ==
    /\ normalizeCaptureReconciliationRequest(Descriptor(Here, o, e, "clean"),
                                             Mutation(o, e, "checkpoint"))
    /\ operation[o].epoch = e
    /\ route = IF operation[o].state = "prepared" THEN "resume" ELSE "reconcile"

resumePreparedCheckpointCapture(h, o, e) ==
    /\ o \in listCheckpointCaptureRecoveryCandidates /\ normalizeCandidate(o, e, "resume")
    /\ Begins(h, o, "resume")

reconcileCheckpointCapture(h, o, e) ==
    /\ o \in listCheckpointCaptureRecoveryCandidates /\ normalizeCandidate(o, e, "reconcile")
    /\ Begins(h, o, "reconcile")

\* A restore is asked for once more when an earlier call left it undecided.
restoreCheckpoint(h, r, c, storage) ==
    LET row == operation[r]
        e == IF row = NoRow THEN session.epoch ELSE row.epoch
    IN
    /\ Running(h, "idle")
    /\ IF row = NoRow THEN operation[c].state = "committed" ELSE row.source = c
    /\ normalizeRestoreRequest(
         Descriptor([session |-> "ours", storage |-> storage], c, operation[c].epoch, "clean"),
         Mutation(c, e, "restore"))
    /\ inFlight' = [inFlight EXCEPT ![h] =
         [NotRunning EXCEPT !.at = "enter", !.kind = "restore", !.o = r, !.epoch = e,
                            !.source = c]]
    /\ UNCHANGED <<rows, published, directory, advisory, minted, told, mishaps, writer>>

\* runExclusive of the operation guard.
invokeOperationGuard(h) ==
    LET mine == inFlight[h]
        first == CASE mine.kind = "capture" -> "session"
                   [] mine.kind = "resume" -> "prepared"
                   [] mine.kind = "reconcile" -> "attempt"
                   [] mine.kind = "restore" -> "restore"
    IN
    /\ Running(h, "enter")
    /\ \/ /\ advisory[mine.o] = Nowhere
          /\ advisory' = [advisory EXCEPT ![mine.o] = h]
          /\ Onward(h, first) /\ UNCHANGED mishaps
       \/ Mishap /\ Onward(h, "failed") /\ UNCHANGED advisory
    /\ UNCHANGED <<rows, published, directory, minted, told, writer>>

-----------------------------------------------------------------------------
(* runCapture.                                                             *)

\* The session's writer must be the one whose capture is asked for.
checkpointCaptureAdmission(h) ==
    session.epoch = inFlight[h].epoch

readSession(h) ==
    /\ Running(h, "session")
    /\ Question(h, IF checkpointCaptureAdmission(h)
                   THEN [Gone(h, "reserve") EXCEPT !.base = session.revision]
                   ELSE Gone(h, "failed"),
                Gone(h, "failed"))

reserveCapture(h) ==
    LET mine == inFlight[h] IN
    /\ Running(h, "reserve")
    /\ Transaction(h, /\ operation[mine.o] = NoRow /\ session.active = NoOperation
                      /\ session.revision = mine.base,
                   [NoRow EXCEPT !.state = "prepared", !.epoch = mine.epoch,
                                 !.base = mine.base, !.attempt = mine.attempt],
                   mine.o, reserveReceipt(mine, operation'[mine.o], session'),
                   Gone(h, "claim"), Gone(h, "cancel"))

\* claimCheckpointCaptureDispatch: a lease that has expired stops a capture but
\* not the one that a stop handed over.
CanClaim(h) ==
    LET row == operation[inFlight[h].o] IN
    /\ row.state = "prepared" /\ row.attempt = inFlight[h].attempt
    /\ row.handoff \/ ~ session.expired

Context == [epoch |-> session.epoch, expired |-> session.expired]

Claim(h, failed) ==
    LET mine == inFlight[h] IN
    Transaction(h, CanClaim(h),
                [operation[mine.o] EXCEPT !.state = "starting", !.revision = @ + 1], mine.o,
                claimReceipt(mine, operation'[mine.o], session'),
                [Gone(h, "publish") EXCEPT !.began = TRUE, !.expected = 1,
                                           !.context = Context],
                Gone(h, failed))

claimCapture(h) == Running(h, "claim") /\ Claim(h, "cancel")

\* What a stop left prepared stays for the next recovery.
claimPreparedCapture(h) == Running(h, "claim-prepared") /\ Claim(h, "failed")

\* bestEffortCancelPrepared reads the operation again before it cancels it.
reconcilePrepared(h) ==
    LET row == operation[inFlight[h].o] IN
    /\ Running(h, "cancel")
    /\ Question(h, IF row.state = "prepared" /\ row.attempt = inFlight[h].attempt
                   THEN Gone(h, "cancelling") ELSE Gone(h, "failed"),
                Gone(h, "failed"))

cancelPrepared(h) ==
    LET row == operation[inFlight[h].o] IN
    /\ Running(h, "cancelling")
    /\ Transaction(h, /\ row.state = "prepared" /\ row.attempt = inFlight[h].attempt
                      /\ ~ row.handoff,
                   [row EXCEPT !.state = "cancelled", !.revision = @ + 1], NoOperation,
                   TRUE, Gone(h, "failed"), Gone(h, "failed"))

-----------------------------------------------------------------------------
(* Prepared captures and reconciliation start from the attempt's row.      *)

\* What is prepared is shown only if a stop handed it over.
readCheckpointCaptureAttempt(row) ==
    row.handoff \/ row.state \in {"starting", "uncertain", "committed"}

readPreparedAttempt(h) ==
    LET mine == inFlight[h]
        row == operation[mine.o]
    IN
    /\ Running(h, "prepared")
    /\ Question(h,
         IF /\ readCheckpointCaptureAttempt(row)
            /\ normalizePreparedCaptureReadReceipt(mine, row, session)
         THEN [Gone(h, "prepared-read") EXCEPT !.attempt = row.attempt, !.base = row.base]
         ELSE Gone(h, "failed"),
         Gone(h, "failed"))

probePrepared(h) == Probe(h, "prepared-read", "claim-prepared", Gone(h, "failed"))

readAttempt(h) ==
    LET mine == inFlight[h]
        row == operation[mine.o]
        committed == row.state = "committed"
    IN
    /\ Running(h, "attempt")
    /\ Question(h,
         IF /\ readCheckpointCaptureAttempt(row)
            /\ normalizeReconciliationReadReceipt(mine, row, session)
         THEN [Gone(h, "verify") EXCEPT
                 !.attempt = row.attempt, !.base = row.base,
                 !.expected = IF committed THEN row.revision - 1 ELSE row.revision,
                 !.began = row.state = "starting"]
         ELSE Gone(h, "failed"),
         Gone(h, "failed"))

-----------------------------------------------------------------------------
(* The foreground of a restore.  The tree is published by the call that    *)
(* was granted the dispatch; every other one verifies what is published.   *)

readRestore(h) ==
    LET row == operation[inFlight[h].o] IN
    /\ Running(h, "restore")
    /\ Question(h,
         CASE row = NoRow -> [Gone(h, "reserve-restore") EXCEPT !.base = session.revision]
           [] row.state = "prepared" -> [Gone(h, "claim-restore") EXCEPT !.base = row.base]
           [] OTHER -> Gone(h, "read-restore"),
         Gone(h, "failed"))

reserveRestore(h) ==
    LET mine == inFlight[h] IN
    /\ Running(h, "reserve-restore")
    /\ Transaction(h, /\ operation[mine.o] = NoRow /\ session.active = NoOperation
                      /\ session.revision = mine.base /\ session.epoch = mine.epoch,
                   [NoRow EXCEPT !.state = "prepared", !.base = mine.base,
                                 !.epoch = mine.epoch, !.source = mine.source],
                   mine.o, reserveReceipt(mine, operation'[mine.o], session'),
                   Gone(h, "claim-restore"), Gone(h, "failed"))

\* claimRestoreDestinationGenerationDispatch: of a checkpoint of an earlier epoch,
\* while the lease lasts.
claimRestore(h) ==
    LET mine == inFlight[h]
        row == operation[mine.o]
    IN
    /\ Running(h, "claim-restore")
    /\ Transaction(h, /\ row.state = "prepared" /\ row.epoch = session.epoch
                      /\ operation[row.source].state = "committed"
                      /\ operation[row.source].epoch < session.epoch
                      /\ ~ session.expired,
                   [row EXCEPT !.state = "starting", !.revision = @ + 1], mine.o,
                   TRUE,
                   [Gone(h, "publish") EXCEPT !.expected = 1, !.context.epoch = session.epoch],
                   Gone(h, "read-restore"))

readGenerationOptional(h) ==
    LET row == operation[inFlight[h].o] IN
    /\ Running(h, "read-restore")
    /\ Question(h,
         IF row.state \in {"starting", "uncertain", "committed"}
         THEN [Gone(h, "verify") EXCEPT
                 !.base = row.base, !.context.epoch = session.epoch,
                 !.expected = IF row.state = "committed" THEN row.revision - 1
                                                        ELSE row.revision]
         ELSE Gone(h, "failed"),
         Gone(h, "failed"))

-----------------------------------------------------------------------------
(* The publication, its verification, and the row's last transition.       *)

Admitted(h) ==
    LET mine == inFlight[h] IN
    CASE mine.kind = "capture" -> normalizeCaptureContext(h)
      [] mine.kind = "resume" -> normalizePreparedCaptureContext(mine)
      [] mine.kind = "restore" -> normalizeRestoreContext(mine)

\* publishFreshCheckpointArtifact wants an operation nothing was published for;
\* a restore takes up what an earlier publication left.
Publishable(kind, p) == kind = "restore" \/ p.state = "none"

Content(o) ==
    IF o \in Restores
    THEN IF published[o].state = "none" THEN published[operation[o].source].content
                                        ELSE published[o].content
    ELSE directory.content

probeDispatched(h) == Probe(h, "publish", "publishing", AfterFailure(h))

\* The call goes on although its lock was lost since the probe.
publish(h) ==
    LET mine == inFlight[h]
        p == published[mine.o]
        tree == [state |-> "committed", epoch |-> mine.epoch, content |-> Content(mine.o)]
    IN
    /\ Running(h, "publishing")
    /\ IF Admitted(h) /\ Publishable(mine.kind, p)
       THEN \/ /\ published' = [published EXCEPT ![mine.o] = tree]
               /\ inFlight' = [inFlight EXCEPT ![h] = [Gone(h, "published") EXCEPT
                                                       !.content = tree.content]]
               /\ UNCHANGED mishaps
            \/ /\ Mishap /\ inFlight' = [inFlight EXCEPT ![h] = AfterFailure(h)]
               /\ \E left \in {p, [tree EXCEPT !.state = "left"], tree} :
                    published' = [published EXCEPT ![mine.o] =
                                    IF p.state = "committed" THEN p ELSE left]
       ELSE /\ inFlight' = [inFlight EXCEPT ![h] = AfterFailure(h)]
            /\ UNCHANGED <<published, mishaps>>
    /\ UNCHANGED <<rows, directory, advisory, minted, told, writer>>

probeAttempt(h) == Probe(h, "verify", "verifying", AfterFailure(h))

\* verifyCommittedCheckpointArtifact, verifyCommittedRestoreDestination.
verify(h) ==
    LET p == published[inFlight[h].o] IN
    /\ Running(h, "verifying")
    /\ Question(h, IF /\ p.state = "committed"
                      /\ inFlight[h].kind = "restore" => normalizeRestoreContext(inFlight[h])
                   THEN [Gone(h, "published") EXCEPT !.content = p.content]
                   ELSE AfterFailure(h),
                AfterFailure(h))

\* The publication's record is of this request, and the tree of a restore is the
\* one that the artifact's proof describes.
normalizePublicationOutcome(h) ==
    LET mine == inFlight[h]
        method == IF mine.kind = "restore" THEN "restore" ELSE "checkpoint"
    IN
    /\ assertStorageMutationResult(
         [request |-> Mutation(mine.o, published[mine.o].epoch, method),
          status |-> Status[method]],
         Mutation(mine.o, mine.epoch, method))
    /\ mine.kind = "restore" =>
         mine.content = operation[mine.source].content

\* The outcome is looked at where the publication returns, before the probe.
probePublished(h) ==
    /\ Running(h, "published")
    /\ Question(h, IF normalizePublicationOutcome(h) /\ assertGuardHeld(h)
                   THEN Gone(h, "finalizing") ELSE AfterFailure(h),
                AfterFailure(h))

\* A transaction knows nothing of the lock: the row's revision orders the calls.
\* A restore reads its row back whatever it was answered.
finalize(h) ==
    LET mine == inFlight[h]
        row == operation[mine.o]
        answered == IF mine.kind = "restore" THEN Gone(h, "readback") ELSE Gone(h, "done")
        failed == CASE mine.kind = "resume" -> Gone(h, "unanswered")
                    [] mine.kind = "restore" -> Gone(h, "readback")
                    [] OTHER -> AfterFailure(h)
    IN
    /\ Running(h, "finalizing")
    /\ IF row.state = "committed"
       THEN Question(h, IF normalizeFinalizationReceipt(mine, row, session, FALSE)
                        THEN answered ELSE failed,
                     failed)
       ELSE Transaction(h, /\ row.state \in {"starting", "uncertain"}
                           /\ row.revision = mine.expected,
                        [row EXCEPT !.state = "committed", !.revision = @ + 1,
                                    !.content = mine.content],
                        NoOperation,
                        normalizeFinalizationReceipt(mine, operation'[mine.o], session', TRUE),
                        answered, failed)

\* Mutant: an answer that was lost is taken for a finalisation.
TakenForDone(h) ==
    /\ Running(h, "readback")
    /\ Question(h, Gone(h, "done"), AfterFailure(h))

probeUnanswered(h) == Probe(h, "unanswered", "readback", AfterFailure(h))

\* A finalisation without an answer may have happened.
readback(h) ==
    LET mine == inFlight[h]
        row == operation[mine.o]
    IN
    /\ Running(h, "readback")
    /\ Question(h, IF row.state = "committed" /\ row.content = mine.content
                   THEN Gone(h, "done") ELSE AfterFailure(h),
                AfterFailure(h))

markUncertain(h) ==
    LET row == operation[inFlight[h].o] IN
    /\ Running(h, "mark")
    /\ Transaction(h, row.state = "starting", [row EXCEPT !.state = "uncertain", !.revision = @ + 1],
                   inFlight[h].o, TRUE, Gone(h, "failed"), Gone(h, "failed"))

\* The callback has returned and the lock is released.
captureReturns(h, ok) ==
    LET mine == inFlight[h] IN
    /\ Running(h, IF ok THEN "done" ELSE "failed") 
    /\ inFlight' = [inFlight EXCEPT ![h] = NotRunning]
    /\ advisory' = [advisory EXCEPT ![mine.o] = IF @ = h THEN Nowhere ELSE @]
    /\ told' = IF ok THEN [told EXCEPT ![mine.o] = mine.content] ELSE told
    /\ IF mine.kind = "capture" THEN snapshotSettled(h, ok) ELSE UNCHANGED writer
    /\ UNCHANGED <<rows, published, directory, minted, mishaps>>

\* A lock that is not released cleanly makes a failure of a call that succeeded.
ReleaseFails(h) ==
    /\ Running(h, "done")
    /\ Mishap
    /\ inFlight' = [inFlight EXCEPT ![h] = AfterFailure(h)]
    /\ advisory' = [advisory EXCEPT ![inFlight[h].o] = IF @ = h THEN Nowhere ELSE @]
    /\ UNCHANGED <<rows, published, directory, minted, told, writer>>

\* The connection that holds the lock dies while the call goes on.
GuardLost(h) ==
    /\ inFlight[h].at # "idle" /\ assertGuardHeld(h)
    /\ Mishap
    /\ advisory' = [advisory EXCEPT ![inFlight[h].o] = Nowhere]
    /\ UNCHANGED <<rows, published, directory, inFlight, minted, told, writer>>

\* The process dies; its container, if it runs, goes on.
HostDies(h) ==
    /\ inFlight[h].at # "idle"
    /\ Mishap
    /\ inFlight' = [inFlight EXCEPT ![h] = NotRunning]
    /\ advisory' = [o \in Operations |-> IF advisory[o] = h THEN Nowhere ELSE advisory[o]]
    /\ writer' = [writer EXCEPT ![h] = NoWriter]
    /\ UNCHANGED <<rows, published, directory, minted, told>>

CaptureStep(h) ==
    \/ invokeOperationGuard(h) \/ readSession(h) \/ reserveCapture(h) \/ claimCapture(h)
    \/ readPreparedAttempt(h) \/ claimPreparedCapture(h)
    \/ reconcilePrepared(h) \/ cancelPrepared(h) \/ readAttempt(h) \/ readRestore(h)
    \/ reserveRestore(h) \/ claimRestore(h) \/ readGenerationOptional(h)
    \/ probePrepared(h) \/ probeDispatched(h) \/ probeAttempt(h) \/ probePublished(h)
    \/ probeUnanswered(h)
    \/ publish(h) \/ verify(h) \/ finalize(h) \/ readback(h) \/ markUncertain(h)
    \/ captureReturns(h, TRUE) \/ captureReturns(h, FALSE)
    \/ ReleaseFails(h) \/ GuardLost(h) \/ HostDies(h)

CaptureNext ==
    \/ \E h \in Hosts :
         \/ AttachWriter(h) \/ BeginWriterStop(h) \/ WriterStopReturns(h) \/ WriterRetired(h)
         \/ \E o \in Captures, e \in 0 .. LastEpoch :
              \/ \E place \in Places, class \in {"clean", "crash"} :
                   captureCheckpoint(h, o, place, e, class)
              \/ resumePreparedCheckpointCapture(h, o, e)
              \/ reconcileCheckpointCapture(h, o, e)
         \/ \E r \in Restores, c \in Captures, storage \in {"ours", "theirs"} :
              restoreCheckpoint(h, r, c, storage)
         \/ CaptureStep(h)
    \/ \E o \in Captures : StopLeavesCapture(o)
    \/ WriterWrites \/ LeaseRunsOut

-----------------------------------------------------------------------------
\* A checkpoint in the catalogue holds what its writer left when it stopped,
\* whatever writer has changed the directory since, and a restored generation
\* holds what its checkpoint holds.
CapturedIsStill ==
    /\ \A o \in Captures : operation[o].state = "committed" =>
         operation[o].content = directory.still[operation[o].epoch]
    /\ \A r \in Restores : operation[r].state = "committed" =>
         operation[r].content = operation[operation[r].source].content

\* Whoever was told that a checkpoint was captured or restored finds its row
\* committed with the content that was published, and what was cancelled was
\* never published: not after lost answers, lost locks and deaths either.
CaptureToldTrue ==
    \A o \in Operations :
        /\ told[o] # Unknown =>
             operation[o].state = "committed" /\ operation[o].content = told[o]
        /\ operation[o].state = "committed" =>
             published[o].state = "committed" /\ published[o].content = operation[o].content
        /\ operation[o].state = "cancelled" => published[o] = NoPublication
=============================================================================
