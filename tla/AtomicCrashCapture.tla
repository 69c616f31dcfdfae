------------------------- MODULE AtomicCrashCapture -------------------------
(***************************************************************************)
(* The capture of a stopped writer as one LVM snapshot.  A process that    *)
(* holds the stop's capability claims a row of the catalogue, creates the  *)
(* snapshot inside the capability, commits the row and retires the writer. *)
(* A statement or an lvcreate whose answer is lost may still be executed.  *)
(* One capture for each launch attempt.                                    *)
(***************************************************************************)
EXTENDS PodmanWriterSupervisor, StoppedWriterCapability

VARIABLES
    row,         \* the catalogue's row of each capture
    lv,          \* whether the snapshot of each capture exists
    dispatched,  \* how often lvcreate was called for each capture
    late,        \* statements and commands that may still be executed
    take         \* the capture attempt that each process remembers

captureVars == <<row, lv, dispatched, late, take>>

NoTake == [pc |-> "none", a |-> "none", authority |-> "none",
           sent |-> "none", known |-> FALSE, again |-> FALSE]

CaptureInit ==
    /\ row = [a \in Attempts |-> "absent"]
    /\ lv = [a \in Attempts |-> FALSE]
    /\ dispatched = [a \in Attempts |-> 0]
    /\ late = {}
    /\ take = [p \in Procs |-> NoTake]

Taking(p, pc) == take[p].pc = pc
Goes(p, pc) == take' = [take EXCEPT ![p].pc = pc]

(* Something that succeeds, or fails.                                      *)
MayFail(ok, err) ==
    \/ ok /\ UNCHANGED faults
    \/ Fault /\ err

-----------------------------------------------------------------------------
(* The catalogue.  A row found by a claim is never dispatched again.       *)
claimStarting(a) == [row EXCEPT ![a] = IF @ = "absent" THEN "starting" ELSE @]
markUncertain(a) == [row EXCEPT ![a] = IF @ = "starting" THEN "uncertain" ELSE @]
commitResult(a) ==
    [row EXCEPT ![a] = IF @ \in {"starting", "uncertain"} THEN "committed" ELSE @]

Executed(c, a) == CASE c = "claim" -> claimStarting(a)
                    [] c = "mark" -> markUncertain(a)
                    [] c = "commit" -> commitResult(a)

(* Where the capture goes on when the statement was executed.              *)
After(c, a) == CASE c = "claim" -> IF row[a] = "absent" THEN "consume" ELSE "verify"
                 [] c = "mark" -> "verify"
                 [] c = "commit" -> "retire"

(* No answer; known if the store says that nothing was committed.          *)
Unanswered(p, known) ==
    take' = [take EXCEPT ![p].pc = "read", ![p].sent = take[p].pc,
                         ![p].known = known /\ ~take[p].again]

Statement(p) ==
    LET a == take[p].a
        c == take[p].pc
    IN  /\ c \in {"claim", "mark", "commit"}
        /\ MayFail(row' = Executed(c, a) /\ Goes(p, After(c, a)) /\ UNCHANGED late,
                   \/ /\ row' \in {row, Executed(c, a)}
                      /\ Unanswered(p, FALSE)
                      /\ UNCHANGED late
                   \/ /\ late' = late \cup {<<c, a>>}
                      /\ Unanswered(p, FALSE)
                      /\ UNCHANGED row
                   \/ Unanswered(p, TRUE) /\ UNCHANGED <<row, late>>)
        /\ UNCHANGED <<lv, dispatched, writer>>

(* claimWithRecovery and transitionWithRecovery: what was not committed is *)
(* sent once more if the row still allows it.                              *)
Retryable(c, a) == row[a] \in CASE c = "claim" -> {"absent"}
                                [] c = "mark" -> {"starting"}
                                [] c = "commit" -> {"starting", "uncertain"}

ReadRow(p) ==
    LET a == take[p].a
        c == take[p].sent
    IN  /\ Taking(p, "read")
        /\ MayFail(CASE c = "commit" /\ row[a] = "committed" -> Goes(p, "retire")
                     [] take[p].known /\ Retryable(c, a) ->
                          take' = [take EXCEPT ![p].pc = c, ![p].again = TRUE]
                     [] OTHER -> Goes(p, "verify"),
                   Goes(p, "verify"))
        /\ UNCHANGED <<row, lv, dispatched, late, writer>>

-----------------------------------------------------------------------------
(* The stop has issued its capability (completeStop).                      *)
CaptureBegins(p, a) ==
    take' = [take EXCEPT ![p] = [NoTake EXCEPT !.pc = "claim", !.a = a, !.authority = "issued"]]

(* resolveCaptureAuthority, which consumes the capability.                 *)
Consumed(p, pc, authority) ==
    take' = [take EXCEPT ![p] = [@ EXCEPT !.pc = pc, !.authority = authority, !.again = FALSE]]

ResolveAuthority(p) ==
    /\ Taking(p, "consume")
    /\ IF writer[p].state = "issued"
       THEN consumeCapability(p) /\ Consumed(p, "create", "resolving")
       ELSE UNCHANGED writer /\ Consumed(p, "mark", "uncertain")
    /\ UNCHANGED <<row, lv, dispatched, late, faults>>

(* The snapshot callback settles.  A writer revoked meanwhile has lost its *)
(* capability, and the capture is uncertain although it was taken.         *)
CaptureSettled(p, ok) ==
    /\ snapshotSettled(p, ok)
    /\ IF ok /\ ~writer[p].revoking THEN Consumed(p, "commit", "consumed")
       ELSE Consumed(p, "mark", "uncertain")

(* lvcreate under the name the capture determines, and the digest of what  *)
(* it made.                                                                *)
captureSnapshot(p) ==
    LET a == take[p].a IN
    /\ Taking(p, "create")
    /\ dispatched' = [dispatched EXCEPT ![a] = @ + 1]
    /\ MayFail(/\ lv' = [lv EXCEPT ![a] = TRUE]
               /\ CaptureSettled(p, ~lv[a])
               /\ UNCHANGED late,
               /\ CaptureSettled(p, FALSE)
               /\ \/ lv' \in {lv, [lv EXCEPT ![a] = TRUE]} /\ UNCHANGED late
                  \/ late' = late \cup {<<"create", a>>} /\ UNCHANGED lv)
    /\ UNCHANGED row

(* verifyCommittedAtomicCrashCapture: the row, and the snapshot itself.    *)
Verified(a) == row[a] = "committed" /\ lv[a]

verifyCommitted(p) ==
    /\ Taking(p, "verify")
    /\ MayFail(Goes(p, IF Verified(take[p].a) THEN "retire" ELSE "uncertain"),
               Goes(p, "uncertain"))
    /\ UNCHANGED <<row, lv, dispatched, late, writer>>

reconcileCapture(p) ==
    /\ Taking(p, "uncertain")
    /\ Goes(p, "verify")
    /\ UNCHANGED <<row, lv, dispatched, late, writer, faults>>

(* The writer is retired after its capture, or before it was consumed.     *)
Retirable(p) ==
    \/ take[p].authority = "consumed" /\ writer[p].state = "consumed"
    \/ take[p].authority = "issued" /\ writer[p].state = "issued"

retireAttempt(p) ==
    /\ Taking(p, "retire")
    /\ IF Retirable(p)
       THEN writer' = [writer EXCEPT ![p] = Retired(p)] /\ Goes(p, "retired")
       ELSE UNCHANGED writer /\ Goes(p, "retirement-uncertain")
    /\ UNCHANGED <<row, lv, dispatched, late, faults>>

(* What was lost is executed after all.                                    *)
LateLands ==
    \E c \in late :
        /\ late' = late \ {c}
        /\ row' = IF c[1] = "create" THEN row ELSE Executed(c[1], c[2])
        /\ lv' = IF c[1] = "create" THEN [lv EXCEPT ![c[2]] = TRUE] ELSE lv
        /\ UNCHANGED <<dispatched, take, writer, faults>>

(* A process dies; what it had sent may still be executed.                 *)
CaptureDies(p) ==
    LET sent == IF take[p].pc \in {"claim", "mark", "commit", "create"}
                THEN {<<take[p].pc, take[p].a>>} ELSE {}
    IN  /\ late' \in {late, late \cup sent}
        /\ dispatched' = IF late' # late /\ Taking(p, "create")
                         THEN [dispatched EXCEPT ![take[p].a] = @ + 1] ELSE dispatched
        /\ take' = [take EXCEPT ![p] = NoTake]
        /\ UNCHANGED <<row, lv>>

(* The host is gone with its commands; the database is not.                *)
HostLosesCaptures ==
    /\ late' = {c \in late : c[1] # "create"}
    /\ take' = [p \in Procs |-> NoTake]
    /\ UNCHANGED <<row, lv, dispatched>>

CaptureStep(p) ==
    \/ Statement(p) \/ ReadRow(p) \/ ResolveAuthority(p) \/ captureSnapshot(p)
    \/ verifyCommitted(p) \/ reconcileCapture(p)

(* A capture is dispatched once, its row is committed only for a snapshot  *)
(* that exists, and a writer is retired after its capture only while the   *)
(* catalogue holds the commit, whatever answers were lost and whatever was *)
(* executed late (captureAtomicCrashCheckpoint, verifyAndRetire).          *)
CrashCaptureIsReal ==
    /\ \A a \in Attempts :
          /\ dispatched[a] <= 1
          /\ row[a] = "committed" => lv[a] /\ dispatched[a] = 1
    /\ \A p \in Procs :
          take[p].pc \in {"retire", "retired"} => row[take[p].a] = "committed"
=============================================================================
