--------------------------- MODULE DetachedRestore ---------------------------
(***************************************************************************)
(* One restore plan of one session: the foreground that carries it from    *)
(* stop and capture over the destination generation, the detachment of the *)
(* old writer and the activation of the new attachment to the launch, and  *)
(* the recovery calls that finish what it left.  Every stage has a row in  *)
(* the authority, an advisory lock and, but for renewal, stop and launch,  *)
(* an effect outside the database.  The stop and the launch themselves are *)
(* those of LogicalWriterLauncher; here they only succeed or are left.     *)
(* Recovery goes through its lanes a page at a time and keeps its place in *)
(* durable cursors, so that other sessions come between its visits.        *)
(***************************************************************************)
EXTENDS Naturals, FiniteSets

CONSTANTS
    Workers, Free,   \* processes; nobody
    Deployments,     \* who makes which calls, and the other sessions to recover
    MaxFaults

CallKinds == {"restore", "captures", "recover"}

(* The sessions in the order of their identifiers: this one is the second, *)
(* a neighbour before or after it always waits in every lane of recovery.  *)
Ours == 2
Neighbours == {1, 3}

ASSUME RestoreAssumption ==
    /\ Free \notin Workers
    /\ Deployments \subseteq [calls : [Workers -> SUBSET CallKinds],
                              neighbours : SUBSET Neighbours]
    /\ MaxFaults \in Nat

Guarded == {"capture", "generation", "detach", "activation"}
Stages == Guarded \cup {"renewal", "stop", "launch"}
Lanes == {"generation", "activation", "launch"}

ActiveStates == {"prepared", "starting", "uncertain"}
CommittedStates == {"settled", "settled-late"}
RowStates == {"absent", "blocked"} \cup ActiveStates \cup CommittedStates

VARIABLES
    row,         \* the operation of each stage in the authority
    effect,      \* what became of the work of a stage outside the database
    dispatched,  \* how often that work was begun
    guard,       \* who holds the advisory lock of an operation
    lifecycle,   \* who holds the lifecycle lock, shared or exclusive
    worker,      \* where each process is in its call
    faults,
    told,        \* a foreground was answered that the restore is complete
    cursor,      \* the session each lane of recovery has got to, 0 at the start
    deployment

sweep == <<cursor, deployment>>
vars == <<row, effect, dispatched, guard, lifecycle, worker, faults, told, sweep>>

NoCall == [call |-> "none", at |-> "idle", inside |-> "none", saw |-> "absent",
           seen |-> "absent", granted |-> FALSE, spare |-> FALSE,
           lane |-> "none", after |-> 0, next |-> 0]

Init ==
    /\ row = [s \in Stages |-> "absent"]
    /\ effect = [s \in Guarded |-> "none"]
    /\ dispatched = [s \in Guarded |-> 0]
    /\ guard = [s \in Guarded |-> Free]
    /\ lifecycle = [shared |-> {}, exclusive |-> Free]
    /\ worker = [w \in Workers |-> NoCall]
    /\ faults = 0
    /\ told = FALSE
    /\ cursor = [l \in Lanes |-> 0]
    /\ deployment \in Deployments

-----------------------------------------------------------------------------
(* The authority: one operation of the session is active at a time, and a  *)
(* row is moved only from the revision its caller names.                   *)
Active == {s \in Stages : row[s] \in ActiveStates \cup {"blocked"}}

Committed(s) == row[s] \in CommittedStates

\* The row after a finalisation from revision 1 or 2.
Settled(from) == IF from = "starting" THEN "settled" ELSE "settled-late"

\* A finalisation repeated with the revision it was first made from is answered
\* again; any other revision is a conflict.
Finalizable(s, from) ==
    /\ from \in {"starting", "uncertain"}
    /\ row[s] \in {from, Settled(from)}

With(s, state) == [row EXCEPT ![s] = state]

\* The revision a committed row was finalised from.
From(state) == IF state = "settled" THEN "starting"
               ELSE IF state = "settled-late" THEN "uncertain"
               ELSE state

\* Mutant: a claim repeated for an operation that was dispatched is granted.
GrantedAgain(s) == row[s] \in {"prepared", "starting"}

\* Only the claim that moves the prepared row grants the dispatch.
Granted(s) == row[s] = "prepared"

Claimed(s) == IF row[s] = "prepared" THEN With(s, "starting") ELSE row

MarkedUncertain(s) == IF row[s] = "starting" THEN With(s, "uncertain") ELSE row

-----------------------------------------------------------------------------
(* Moving a worker releases the lock of the procedure it leaves and, at    *)
(* the end of its call, the lifecycle lock.                                *)
To(w, next) ==
    /\ worker' = [worker EXCEPT ![w] = next]
    /\ guard' = [s \in Guarded |->
                    IF guard[s] = w /\ next.inside # s THEN Free ELSE guard[s]]
    /\ lifecycle' = IF next.call # "none" THEN lifecycle
                    ELSE [shared |-> lifecycle.shared \ {w},
                          exclusive |-> IF lifecycle.exclusive = w THEN Free
                                        ELSE lifecycle.exclusive]

At(w, place) == worker[w].at = place

Go(w, place) == [worker[w] EXCEPT !.at = place]

Out(w, place) == [worker[w] EXCEPT !.at = place, !.inside = "none", !.granted = FALSE,
                                   !.saw = "absent"]

\* The advisory lock of the operation, and the lifecycle lock, are still held.
Holds(w) == guard[worker[w].inside] = w

Leased(w) == w \in lifecycle.shared \/ lifecycle.exclusive = w

Fault == faults < MaxFaults /\ faults' = faults + 1

\* A transaction of the authority: it is answered, or its answer is lost and it
\* was committed or not.
Transact(w, new, answered, lost) ==
    /\ \/ /\ row' = new
          /\ To(w, answered)
          /\ UNCHANGED faults
       \/ /\ Fault
          /\ row' \in {row, new}
          /\ To(w, lost)
    /\ UNCHANGED <<effect, dispatched, told, sweep>>

\* A transaction that only reads: a lost answer fails the call.
Query(w, answered, lost) == Transact(w, row, answered, lost)

Only(w, next) ==
    /\ To(w, next)
    /\ UNCHANGED <<row, effect, dispatched, faults, told, sweep>>

\* Enter the lock of an operation, or fail because another holds it.
TakesGuard(w, s, place, busy) ==
    /\ IF guard[s] = Free
       THEN /\ worker' = [worker EXCEPT ![w] = [@ EXCEPT !.at = place, !.inside = s]]
            /\ guard' = [guard EXCEPT ![s] = w]
            /\ UNCHANGED lifecycle
       ELSE To(w, busy)
    /\ UNCHANGED <<row, effect, dispatched, faults, told, sweep>>

\* The work of a stage is begun outside the database.
Begin(w, s, next) ==
    /\ effect' = [effect EXCEPT ![s] = IF @ = "none" THEN "begun" ELSE @]
    /\ dispatched' = [dispatched EXCEPT ![s] = IF @ < 2 THEN @ + 1 ELSE @]
    /\ To(w, next)
    /\ UNCHANGED <<row, faults, told, sweep>>

\* It is finished and answered, or fails, or was finished and the answer is lost.
Finish(w, s, answered, failed) ==
    /\ \/ /\ effect' = [effect EXCEPT ![s] = "done"]
          /\ To(w, answered)
          /\ UNCHANGED faults
       \/ /\ Fault
          /\ effect' \in {effect, [effect EXCEPT ![s] = "done"]}
          /\ To(w, failed)
    /\ UNCHANGED <<row, dispatched, told, sweep>>

-----------------------------------------------------------------------------
(* The foreground: what it finds decides where it goes on.                 *)
Kept(w, next) == IF Leased(w) THEN next ELSE NoCall

KeptBoth(w, next) == IF Leased(w) /\ Holds(w) THEN next ELSE NoCall

SessionView ==
    IF row["stop"] \in ActiveStates THEN "stop"
    ELSE IF row["generation"] = "prepared" THEN "generation"
    ELSE IF \A s \in Stages : row[s] = "absent" THEN "fresh"
    ELSE "workflow"

StartRestore(w) ==
    /\ "restore" \in deployment.calls[w]
    /\ At(w, "idle")
    /\ lifecycle.exclusive = Free
    /\ lifecycle' = [lifecycle EXCEPT !.shared = @ \cup {w}]
    /\ worker' = [worker EXCEPT ![w] = [NoCall EXCEPT !.call = "restore", !.at = "session"]]
    /\ UNCHANGED <<row, effect, dispatched, guard, faults, told, sweep>>

ReadSession(w) ==
    /\ At(w, "session")
    /\ Query(w, [Go(w, "capture-row") EXCEPT !.seen = SessionView], NoCall)

ReadCapture(w) ==
    /\ At(w, "capture-row")
    /\ Query(w, [Go(w, "generation-row") EXCEPT !.saw = row["capture"]], NoCall)

\* An active stop cannot be resumed, and neither can a renewal whose answer was
\* lost; a captured session goes on with what the rows say.
Plan(w, generation) ==
    LET capture == worker[w].saw IN
    IF worker[w].seen = "stop" THEN NoCall
    ELSE IF generation # "absent"
         THEN IF capture \in CommittedStates
              THEN [Go(w, "generation") EXCEPT !.saw = generation] ELSE NoCall
    ELSE IF capture = "absent"
         THEN IF worker[w].seen = "fresh" THEN Go(w, "renewal") ELSE NoCall
    ELSE Kept(w, Out(w, IF capture = "prepared" THEN "resume" ELSE "reconcile"))

\* The read of a generation does not know a prepared one.
ReadGeneration(w) ==
    /\ At(w, "generation-row")
    /\ Query(w, Plan(w, IF row["generation"] = "prepared" THEN "absent"
                        ELSE row["generation"]), NoCall)

Renew(w) ==
    /\ At(w, "renewal")
    /\ IF SessionView = "fresh"
       THEN Transact(w, With("renewal", "settled"), Kept(w, Go(w, "stop")), NoCall)
       ELSE Only(w, NoCall)

\* The launcher stops the writer and hands over to the prepared capture; a stop
\* that was left active stays so.
StopForCapture(w) ==
    LET handed == [row EXCEPT !["stop"] = "settled", !["capture"] = "prepared"] IN
    /\ At(w, "stop")
    /\ IF Active = {} /\ row["stop"] = "absent"
       THEN /\ \/ /\ row' = handed
                  /\ To(w, [Out(w, "resume") EXCEPT !.spare = TRUE])
                  /\ UNCHANGED faults
               \/ /\ Fault
                  /\ row' \in {row, With("stop", "uncertain"), handed}
                  /\ To(w, NoCall)
            /\ UNCHANGED <<effect, dispatched, told, sweep>>
       ELSE Only(w, NoCall)

Captured(w) ==
    /\ At(w, "captured")
    /\ Query(w, IF Committed("capture") THEN Out(w, "generation") ELSE NoCall, NoCall)

-----------------------------------------------------------------------------
(* The mutation authority publishes a prepared capture or verifies one     *)
(* that was dispatched.                                                    *)
CaptureDone(w) ==
    IF worker[w].call = "restore" THEN Kept(w, [Out(w, "captured") EXCEPT !.spare = FALSE])
    ELSE NoCall

\* After a stop of its own the composition falls back to verification.
CaptureFailed(w) ==
    IF worker[w].spare THEN [Out(w, "reconcile") EXCEPT !.spare = FALSE] ELSE NoCall

HeldOr(w, next, otherwise) == IF Holds(w) THEN next ELSE otherwise

EnterResume(w) ==
    /\ At(w, "resume")
    /\ TakesGuard(w, "capture", "resume-read", CaptureFailed(w))

ResumeRead(w) ==
    /\ At(w, "resume-read")
    /\ Query(w, IF row["capture"] = "prepared"
                THEN HeldOr(w, Go(w, "resume-claim"), CaptureFailed(w))
                ELSE CaptureFailed(w), CaptureFailed(w))

ResumeClaim(w) ==
    /\ At(w, "resume-claim")
    /\ Transact(w, Claimed("capture"),
                IF ~Granted("capture") THEN CaptureFailed(w)
                ELSE HeldOr(w, Go(w, "resume-publish"), Go(w, "resume-mark")),
                CaptureFailed(w))

ResumePublish(w) ==
    /\ At(w, "resume-publish")
    /\ Begin(w, "capture", Go(w, "resume-publishing"))

ResumePublished(w) ==
    /\ At(w, "resume-publishing")
    /\ Finish(w, "capture", HeldOr(w, Go(w, "resume-finalize"), Go(w, "resume-mark")),
              Go(w, "resume-mark"))

ResumeFinalize(w) ==
    /\ At(w, "resume-finalize")
    /\ IF Finalizable("capture", "starting")
       THEN Transact(w, With("capture", "settled"), CaptureDone(w), Go(w, "resume-readback"))
       ELSE Only(w, Go(w, "resume-readback"))

ResumeReadback(w) ==
    /\ At(w, "resume-readback")
    /\ Query(w, IF Holds(w) /\ Committed("capture") THEN CaptureDone(w)
                ELSE Go(w, "resume-mark"), Go(w, "resume-mark"))

ResumeMark(w) ==
    /\ At(w, "resume-mark")
    /\ Transact(w, MarkedUncertain("capture"), CaptureFailed(w), CaptureFailed(w))

EnterReconcile(w) ==
    /\ At(w, "reconcile")
    /\ TakesGuard(w, "capture", "reconcile-read", NoCall)

ReconcileRead(w) ==
    /\ At(w, "reconcile-read")
    /\ Query(w, IF row["capture"] \in {"absent", "prepared"} THEN NoCall
                ELSE [Go(w, IF Holds(w) THEN "reconcile-verify" ELSE "reconcile-mark")
                         EXCEPT !.saw = From(row["capture"])], NoCall)

\* Only an operation that was read as starting is marked.
ReconcileFailed(w) ==
    IF worker[w].saw = "starting" THEN Go(w, "reconcile-mark") ELSE NoCall

ReconcileVerify(w) ==
    /\ At(w, "reconcile-verify")
    /\ Only(w, IF effect["capture"] = "done" /\ Holds(w) THEN Go(w, "reconcile-finalize")
               ELSE ReconcileFailed(w))

ReconcileFinalize(w) ==
    /\ At(w, "reconcile-finalize")
    /\ IF Finalizable("capture", worker[w].saw)
       THEN Transact(w, With("capture", Settled(worker[w].saw)), CaptureDone(w),
                     ReconcileFailed(w))
       ELSE Only(w, ReconcileFailed(w))

ReconcileMark(w) ==
    /\ At(w, "reconcile-mark")
    /\ Transact(w, IF worker[w].saw = "starting" THEN MarkedUncertain("capture") ELSE row,
                NoCall, NoCall)

-----------------------------------------------------------------------------
(* The destination generation in the foreground.                           *)
EnterGeneration(w) ==
    /\ At(w, "generation")
    /\ TakesGuard(w, "generation",
                  IF worker[w].saw # "absent" THEN "generation-publish"
                  ELSE IF worker[w].seen = "generation" THEN "generation-claim"
                  ELSE "generation-reserve", NoCall)

GenerationReserve(w) ==
    /\ At(w, "generation-reserve")
    /\ IF row["generation"] = "prepared" \/ (row["generation"] = "absent" /\ Active = {})
       THEN Transact(w, With("generation", "prepared"), Go(w, "generation-claim"), NoCall)
       ELSE Only(w, NoCall)

\* Whoever did not see the grant may only verify a committed publication.
RereadGeneration(w) == [Go(w, "generation-publish") EXCEPT !.saw = row["generation"]]

GenerationClaim(w) ==
    /\ At(w, "generation-claim")
    /\ IF row["generation"] = "absent" THEN Only(w, NoCall)
       ELSE Transact(w, Claimed("generation"),
                     KeptBoth(w, [Go(w, "generation-publish") EXCEPT
                                    !.saw = Claimed("generation")["generation"],
                                    !.granted = Granted("generation")]),
                     Go(w, "generation-reread"))

GenerationReread(w) ==
    /\ At(w, "generation-reread")
    /\ Query(w, IF row["generation"] \in {"absent", "prepared"} THEN NoCall
                ELSE KeptBoth(w, RereadGeneration(w)), NoCall)

GenerationPublish(w) ==
    /\ At(w, "generation-publish")
    /\ worker[w].granted
    /\ Begin(w, "generation", Go(w, "generation-publishing"))

GenerationVerify(w) ==
    /\ At(w, "generation-publish")
    /\ ~worker[w].granted
    /\ Only(w, IF effect["generation"] = "done"
               THEN KeptBoth(w, Go(w, "generation-finalize")) ELSE NoCall)

GenerationPublished(w) ==
    /\ At(w, "generation-publishing")
    /\ Finish(w, "generation", KeptBoth(w, Go(w, "generation-finalize")), NoCall)

\* What the finalisation answers is not looked at: the row is read after it.
GenerationFinalize(w) ==
    /\ At(w, "generation-finalize")
    /\ IF Finalizable("generation", worker[w].saw)
       THEN Transact(w, With("generation", Settled(worker[w].saw)),
                     Go(w, "generation-committed"), Go(w, "generation-committed"))
       ELSE Only(w, Go(w, "generation-committed"))

\* The session of this read is the one the detachment starts from.
GenerationCommitted(w) ==
    /\ At(w, "generation-committed")
    /\ Query(w, IF Committed("generation")
                THEN [Out(w, "activation-row") EXCEPT !.seen = row["detach"]]
                ELSE NoCall, NoCall)

ReadActivation(w) ==
    /\ At(w, "activation-row")
    /\ Query(w, [Go(w, "launch-row") EXCEPT !.saw = row["activation"]], NoCall)

ReadLaunch(w) ==
    LET activation == worker[w].saw IN
    /\ At(w, "launch-row")
    /\ Query(w, IF row["launch"] # "absent"
                THEN IF activation \in CommittedStates
                     THEN [Go(w, "launch") EXCEPT !.saw = row["launch"]] ELSE NoCall
                ELSE Go(w, IF activation = "absent" THEN "detach" ELSE "activate"), NoCall)

-----------------------------------------------------------------------------
(* The detachment of the old writer: what is not proved is blocked.        *)
Detached(w) == Kept(w, Out(w, "activate"))

\* Where a receipt of the detachment leads.
DetachNext(w, state) ==
    CASE state \in CommittedStates -> Detached(w)
      [] state \in {"starting", "uncertain"} -> Go(w, "detach-block")
      [] state = "prepared" -> Go(w, "detach-claim")
      [] OTHER -> NoCall

EnterDetach(w) ==
    /\ At(w, "detach")
    /\ IF worker[w].seen \in CommittedStates THEN Only(w, Go(w, "activate"))
       ELSE IF worker[w].seen = "blocked" THEN Only(w, NoCall)
       ELSE TakesGuard(w, "detach", "detach-reserve", NoCall)

DetachReserve(w) ==
    LET reserved == IF row["detach"] = "absent" /\ Active = {}
                    THEN With("detach", "prepared") ELSE row IN
    /\ At(w, "detach-reserve")
    /\ Transact(w, reserved, DetachNext(w, reserved["detach"]), NoCall)

\* A claim whose answer is lost is claimed again while it reads as prepared;
\* once it reads as starting nobody knows who dispatched it.
DetachClaim(w) ==
    /\ At(w, "detach-claim")
    /\ \/ /\ row' = Claimed("detach")
          /\ To(w, IF Granted("detach")
                   THEN HeldOr(w, Go(w, "detach-dispatch"), Go(w, "detach-block"))
                   ELSE DetachNext(w, row["detach"]))
          /\ UNCHANGED faults
       \/ /\ Fault
          /\ row' \in {row, Claimed("detach")}
          /\ To(w, DetachNext(w, row'["detach"]))
    /\ UNCHANGED <<effect, dispatched, told, sweep>>

DetachDispatch(w) ==
    /\ At(w, "detach-dispatch")
    /\ Begin(w, "detach", Go(w, "detaching"))

DetachProved(w) ==
    /\ At(w, "detaching")
    /\ Finish(w, "detach", HeldOr(w, Go(w, "detach-finalize"), Go(w, "detach-block")),
              Go(w, "detach-block"))

DetachFinalize(w) ==
    /\ At(w, "detach-finalize")
    /\ IF row["detach"] \in {"starting", "uncertain"}
       THEN Transact(w, With("detach", Settled(row["detach"])), Detached(w), NoCall)
       ELSE Only(w, IF Committed("detach") THEN Detached(w) ELSE NoCall)

DetachMark(w) ==
    /\ At(w, "detach-block")
    /\ IF Committed("detach") THEN Only(w, Detached(w))
       ELSE Transact(w, MarkedUncertain("detach"), Go(w, "detach-blocked"), NoCall)

DetachBlocked(w) ==
    /\ At(w, "detach-blocked")
    /\ IF row["detach"] = "uncertain"
       THEN Transact(w, With("detach", "blocked"), NoCall, NoCall)
       ELSE Only(w, IF Committed("detach") THEN Detached(w) ELSE NoCall)

-----------------------------------------------------------------------------
(* The activation: the foreground reserves it, the coordinator claims or   *)
(* reconciles it, for the foreground and for recovery.                     *)
EnterActivate(w) ==
    /\ At(w, "activate")
    /\ TakesGuard(w, "activation", "activation-reserve", NoCall)

ActivationReserve(w) ==
    LET on == [Out(w, "activation-guard") EXCEPT !.saw = worker[w].saw, !.spare = TRUE] IN
    /\ At(w, "activation-reserve")
    /\ IF worker[w].saw # "absent" THEN Only(w, Kept(w, on))
       ELSE IF row["activation"] = "prepared"
               \/ (row["activation"] = "absent" /\ Committed("detach") /\ Active = {})
            THEN Transact(w, With("activation", "prepared"), Kept(w, on), NoCall)
       ELSE Only(w, NoCall)

ActivationFailed(w) ==
    IF worker[w].call = "restore" THEN NoCall ELSE Out(w, "advance")

ActivationDone(w, launch) ==
    IF worker[w].call = "restore" THEN Kept(w, [Out(w, "launch") EXCEPT !.saw = launch])
    ELSE Out(w, "advance")

EnterActivation(w) ==
    /\ At(w, "activation-guard")
    /\ TakesGuard(w, "activation",
                  IF worker[w].saw \in {"absent", "prepared"} THEN "activation-claim"
                  ELSE "activation-read", ActivationFailed(w))

\* What the coordinator does with the row it has: a committed one is handed over
\* again, one that another worker started is marked uncertain first.
ActivationCore(w, state, granted, starting) ==
    LET on == [worker[w] EXCEPT !.saw = From(state), !.granted = granted,
                                !.seen = "absent", !.spare = TRUE] IN
    IF state \in CommittedStates THEN [on EXCEPT !.at = "activation-finalize"]
    ELSE IF state = "uncertain" \/ (state = "starting" /\ granted)
         THEN HeldOr(w, [on EXCEPT !.at = "activation-provider"], ActivationFailed(w))
    ELSE IF state = "starting" THEN starting
    ELSE ActivationFailed(w)

ActivationClaim(w) ==
    /\ At(w, "activation-claim")
    /\ IF row["activation"] = "absent" THEN Only(w, ActivationFailed(w))
       ELSE Transact(w, Claimed("activation"),
                     ActivationCore(w, Claimed("activation")["activation"],
                                    Granted("activation"), Go(w, "activation-mark")),
                     Go(w, "activation-read"))

ActivationRead(w) ==
    /\ At(w, "activation-read")
    /\ Query(w, ActivationCore(w, row["activation"], FALSE, Go(w, "activation-mark")),
             ActivationFailed(w))

ActivationMark(w) ==
    /\ At(w, "activation-mark")
    /\ Transact(w, MarkedUncertain("activation"), Go(w, "activation-reread"),
                Go(w, "activation-reread"))

ActivationReread(w) ==
    /\ At(w, "activation-reread")
    /\ Query(w, ActivationCore(w, row["activation"], FALSE, ActivationFailed(w)),
             ActivationFailed(w))

\* A fresh attachment is prepared only by the worker that was granted the
\* dispatch, and only while it knows the operation as starting.
MayPrepare(w) ==
    /\ effect["activation"] = "none"
    /\ worker[w].granted
    /\ worker[w].saw = "starting"

\* The published destination is verified, then the provider says whether the
\* attachment was applied, is absent and quiescent, or cannot say.
ActivationProvider(w) ==
    /\ At(w, "activation-provider")
    /\ \/ /\ To(w, IF effect["generation"] # "done" \/ ~Holds(w) THEN ActivationFailed(w)
                   ELSE IF effect["activation"] = "done" THEN Go(w, "activation-finalize")
                   ELSE IF MayPrepare(w) THEN Go(w, "activation-prepare")
                   ELSE ActivationFailed(w))
          /\ UNCHANGED faults
       \/ /\ Fault
          /\ To(w, ActivationFailed(w))
    /\ UNCHANGED <<row, effect, dispatched, told, sweep>>

ActivationPrepare(w) ==
    /\ At(w, "activation-prepare")
    /\ Begin(w, "activation", [Go(w, "activation-preparing") EXCEPT !.seen = "dispatched"])

ActivationPrepared(w) ==
    /\ At(w, "activation-preparing")
    /\ Finish(w, "activation",
              HeldOr(w, Go(w, "activation-finalize"), Go(w, "activation-uncertain")),
              Go(w, "activation-uncertain"))

ActivationUnfinished(w) ==
    IF worker[w].seen = "dispatched" THEN Go(w, "activation-uncertain") ELSE ActivationFailed(w)

\* The activation is committed and its launch prepared in one transaction; a
\* lost answer is tried once more.
ActivationFinalize(w) ==
    LET launch == IF row["launch"] = "absent" THEN "prepared" ELSE row["launch"] IN
    /\ At(w, "activation-finalize")
    /\ IF Finalizable("activation", worker[w].saw)
       THEN Transact(w, [row EXCEPT !["activation"] = Settled(worker[w].saw),
                                    !["launch"] = launch],
                     ActivationDone(w, launch),
                     IF worker[w].spare THEN [worker[w] EXCEPT !.spare = FALSE]
                     ELSE ActivationUnfinished(w))
       ELSE Only(w, ActivationUnfinished(w))

ActivationUncertain(w) ==
    /\ At(w, "activation-uncertain")
    /\ Transact(w, MarkedUncertain("activation"), ActivationFailed(w), ActivationFailed(w))

\* The launcher runs the prepared launch or reconciles the one it finds; a
\* restore that gets there is complete.
Launch(w, answered, next) ==
    IF row["launch"] \in CommittedStates
       \/ (row["launch"] \in ActiveStates /\ (worker[w].saw = "prepared" => row["launch"] = "prepared"))
    THEN /\ \/ /\ row' = IF Committed("launch") THEN row ELSE With("launch", "settled")
               /\ To(w, next)
               /\ told' = (told \/ answered)
               /\ UNCHANGED faults
            \/ /\ Fault
               /\ row["launch"] \in ActiveStates
               /\ row' \in {row} \cup {With("launch", l) : l \in {"starting", "uncertain", "settled"}}
               /\ To(w, next)
               /\ UNCHANGED told
         /\ UNCHANGED <<effect, dispatched, sweep>>
    ELSE Only(w, next)

RunLaunch(w) ==
    /\ At(w, "launch")
    /\ Launch(w, Leased(w), NoCall)

-----------------------------------------------------------------------------
(* Recovery: a sweep takes the lifecycle lock alone and goes through its   *)
(* lanes, one candidate of each; captures are swept without it.            *)
StartCaptures(w) ==
    /\ "captures" \in deployment.calls[w]
    /\ At(w, "idle")
    /\ row["capture"] \in ActiveStates
    /\ Only(w, [NoCall EXCEPT !.call = "captures",
                              !.at = IF row["capture"] = "prepared" THEN "resume"
                                     ELSE "reconcile"])

StartRecovery(w) ==
    /\ "recover" \in deployment.calls[w]
    /\ At(w, "idle")
    /\ lifecycle = [shared |-> {}, exclusive |-> Free]
    /\ lifecycle' = [lifecycle EXCEPT !.exclusive = w]
    /\ worker' = [worker EXCEPT ![w] = [NoCall EXCEPT !.call = "recover", !.at = "lane",
                                                      !.lane = "generation"]]
    /\ UNCHANGED <<row, effect, dispatched, guard, faults, told, sweep>>

\* The candidates of a lane are dispatched; those of the launch lane may wait.
InLane(l) ==
    row[l] \in IF l = "launch" THEN ActiveStates ELSE {"starting", "uncertain"}

\* The page behind a position: its one candidate, and whether there are more.
Page(l, position) ==
    {p \in deployment.neighbours \cup (IF InLane(l) THEN {Ours} ELSE {}) : p > position}

First(page) == CHOOSE p \in page : \A q \in page : p <= q

\* Mutant: a lane whose last page was listed stays there.
NextPositionStays(page, position) == IF page = {} THEN position ELSE First(page)

\* A page that is not the last leads behind its candidate, the last one leads
\* back to the start.
NextPosition(page, position) == IF Cardinality(page) > 1 THEN First(page) ELSE 0

\* Where a candidate of each lane is reconciled.
Visit(w, l) ==
    CASE l = "generation" -> Go(w, "recover")
      [] l = "activation" -> [Go(w, "activation-guard") EXCEPT !.saw = "uncertain"]
      [] l = "launch" -> Go(w, "launch-visit")

ListLane(w) ==
    LET l == worker[w].lane
        page == Page(l, cursor[l])
        at == IF page # {} /\ First(page) = Ours THEN Visit(w, l) ELSE Go(w, "advance") IN
    /\ At(w, "lane")
    /\ Query(w, Kept(w, [at EXCEPT !.after = cursor[l],
                                   !.next = NextPosition(page, cursor[l])]), NoCall)

NextLane(w) ==
    CASE worker[w].lane = "generation" -> [Out(w, "lane") EXCEPT !.lane = "activation"]
      [] worker[w].lane = "activation" -> [Out(w, "lane") EXCEPT !.lane = "launch"]
      [] OTHER -> NoCall

\* The cursor is where this sweep read it.
CursorMatches(w) == cursor[worker[w].lane] = worker[w].after

\* Whatever became of the candidate, the cursor is moved from where it was read;
\* a sweep that lost its lock, its answer or the race for the cursor ends.
AdvanceLane(w) ==
    /\ At(w, "advance")
    /\ \/ /\ CursorMatches(w)
          /\ cursor' = [cursor EXCEPT ![worker[w].lane] = worker[w].next]
          /\ To(w, Kept(w, [NextLane(w) EXCEPT !.after = 0, !.next = 0]))
          /\ UNCHANGED faults
       \/ /\ ~(Leased(w) /\ CursorMatches(w))
          /\ To(w, NoCall)
          /\ UNCHANGED <<cursor, faults>>
       \/ /\ Fault
          /\ To(w, NoCall)
          /\ UNCHANGED cursor
    /\ UNCHANGED <<row, effect, dispatched, told, deployment>>

Recovered(w) == Out(w, "advance")

EnterRecover(w) ==
    /\ At(w, "recover")
    /\ TakesGuard(w, "generation", "recover-read", Recovered(w))

RecoverRead(w) ==
    /\ At(w, "recover-read")
    /\ Query(w, CASE row["generation"] = "starting" -> Go(w, "recover-mark")
                  [] row["generation"] = "uncertain" ->
                       HeldOr(w, Go(w, "recover-verify"), Recovered(w))
                  [] OTHER -> Recovered(w), Recovered(w))

RecoverMark(w) ==
    /\ At(w, "recover-mark")
    /\ Transact(w, MarkedUncertain("generation"), Go(w, "recover-reread"),
                Go(w, "recover-reread"))

RecoverReread(w) ==
    /\ At(w, "recover-reread")
    /\ Query(w, IF row["generation"] = "uncertain" /\ Holds(w) THEN Go(w, "recover-verify")
                ELSE Recovered(w), Recovered(w))

\* Mutant: the destination counts as published once it was dispatched.
DispatchIsPublication == effect["generation"] # "none"

\* The verifier accepts a committed publication and nothing else.
DestinationPublished == effect["generation"] = "done"

RecoverVerify(w) ==
    /\ At(w, "recover-verify")
    /\ Only(w, IF DestinationPublished /\ Holds(w) THEN Go(w, "recover-finalize")
               ELSE Recovered(w))

RecoverFinalize(w) ==
    /\ At(w, "recover-finalize")
    /\ IF Finalizable("generation", "uncertain")
       THEN Transact(w, With("generation", "settled-late"), Recovered(w), Recovered(w))
       ELSE Only(w, Recovered(w))

LaunchVisit(w) ==
    /\ At(w, "launch-visit")
    /\ Launch(w, FALSE, Out(w, "advance"))

-----------------------------------------------------------------------------
(* Faults: a process dies, or the connection that holds a lock does while  *)
(* its process goes on; a provider finishes what it was asked later.       *)
Crash(w) ==
    /\ ~At(w, "idle")
    /\ Fault
    /\ To(w, NoCall)
    /\ UNCHANGED <<row, effect, dispatched, told, sweep>>

LoseGuard(w) ==
    /\ \E s \in Guarded : guard[s] = w
    /\ Fault
    /\ guard' = [s \in Guarded |-> IF guard[s] = w THEN Free ELSE guard[s]]
    /\ UNCHANGED <<row, effect, dispatched, lifecycle, worker, told, sweep>>

LoseLifecycle(w) ==
    /\ Leased(w)
    /\ Fault
    /\ lifecycle' = [shared |-> lifecycle.shared \ {w},
                     exclusive |-> IF lifecycle.exclusive = w THEN Free
                                   ELSE lifecycle.exclusive]
    /\ UNCHANGED <<row, effect, dispatched, guard, worker, told, sweep>>

ProviderFinishes(s) ==
    /\ s \in {"detach", "activation"}
    /\ effect[s] = "begun"
    /\ effect' = [effect EXCEPT ![s] = "done"]
    /\ UNCHANGED <<row, dispatched, guard, lifecycle, worker, faults, told, sweep>>

Step(w) ==
    \/ ReadSession(w) \/ ReadCapture(w) \/ ReadGeneration(w) \/ Renew(w)
    \/ StopForCapture(w) \/ Captured(w) \/ EnterResume(w) \/ ResumeRead(w)
    \/ ResumeClaim(w) \/ ResumePublish(w) \/ ResumePublished(w)
    \/ ResumeFinalize(w) \/ ResumeReadback(w) \/ ResumeMark(w)
    \/ EnterReconcile(w) \/ ReconcileRead(w) \/ ReconcileVerify(w)
    \/ ReconcileFinalize(w) \/ ReconcileMark(w) \/ EnterGeneration(w)
    \/ GenerationReserve(w) \/ GenerationClaim(w) \/ GenerationReread(w)
    \/ GenerationPublish(w) \/ GenerationVerify(w) \/ GenerationPublished(w)
    \/ GenerationFinalize(w) \/ GenerationCommitted(w) \/ ReadActivation(w)
    \/ ReadLaunch(w) \/ EnterDetach(w) \/ DetachReserve(w) \/ DetachClaim(w)
    \/ DetachDispatch(w) \/ DetachProved(w) \/ DetachFinalize(w)
    \/ DetachMark(w) \/ DetachBlocked(w) \/ EnterActivate(w)
    \/ ActivationReserve(w) \/ EnterActivation(w) \/ ActivationClaim(w)
    \/ ActivationRead(w) \/ ActivationMark(w) \/ ActivationReread(w)
    \/ ActivationProvider(w) \/ ActivationPrepare(w) \/ ActivationPrepared(w)
    \/ ActivationFinalize(w) \/ ActivationUncertain(w) \/ RunLaunch(w)
    \/ ListLane(w) \/ AdvanceLane(w) \/ EnterRecover(w) \/ RecoverRead(w)
    \/ RecoverMark(w) \/ RecoverReread(w) \/ RecoverVerify(w)
    \/ RecoverFinalize(w) \/ LaunchVisit(w)

Next ==
    \/ \E w \in Workers :
         \/ StartRestore(w) \/ StartCaptures(w) \/ StartRecovery(w)
         \/ Step(w)
         \/ Crash(w) \/ LoseGuard(w) \/ LoseLifecycle(w)
    \/ \E s \in Guarded : ProviderFinishes(s)

Spec == Init /\ [][Next]_vars

(* A call that was made goes on, and the sweeps come round again.          *)
FairSpec ==
    /\ Spec
    /\ \A w \in Workers : WF_vars(Step(w)) /\ SF_vars(StartRecovery(w))
                                           /\ SF_vars(StartCaptures(w))

-----------------------------------------------------------------------------
TypeOK ==
    /\ row \in [Stages -> RowStates]
    /\ effect \in [Guarded -> {"none", "begun", "done"}]
    /\ dispatched \in [Guarded -> 0..2]
    /\ guard \in [Guarded -> Workers \cup {Free}]
    /\ lifecycle \in [shared : SUBSET Workers, exclusive : Workers \cup {Free}]
    /\ \A w \in Workers : worker[w].inside \in Guarded \cup {"none"}
    /\ faults \in 0..MaxFaults
    /\ told \in BOOLEAN
    /\ cursor \in [Lanes -> 0..Ours]
    /\ deployment \in Deployments

(* The effect of a stage is begun at most once, whoever claims, reclaims,  *)
(* resumes or recovers it and whichever answers and locks are lost.        *)
BegunOnce == \A s \in Guarded : dispatched[s] <= 1

(* What a row records as committed has happened outside the database: the  *)
(* checkpoint and the destination are published, the old writer is         *)
(* detached, the new attachment is applied; and a foreground that was told *)
(* that the restore is complete finds every stage of it so.                *)
CommittedIsReal ==
    /\ \A s \in Guarded : Committed(s) => effect[s] = "done"
    /\ told => \A s \in Guarded \cup {"launch"} : Committed(s)

\* Nobody is in a call.
Quiet == \A w \in Workers : At(w, "idle")

\* Its effect happened and its row does not say so.
Unsettled(s) == row[s] \in {"starting", "uncertain"} /\ effect[s] = "done"

(* If the foregrounds pause again and again, a capture, a generation or an *)
(* activation that was dispatched and whose effect happened is committed   *)
(* in the end, by whoever recovers it: none stays unsettled.               *)
DoneIsSettled ==
    []<>Quiet => []<>(\A s \in Guarded \ {"detach"} : ~Unsettled(s))

=============================================================================
