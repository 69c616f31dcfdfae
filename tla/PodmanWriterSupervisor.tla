----------------------- MODULE PodmanWriterSupervisor -----------------------
(***************************************************************************)
(* The supervisor that launches, reconciles and stops one writer container *)
(* for each launch attempt, and records every stage before the next.  Its  *)
(* podman commands run detached: a command is killed when it fails, except *)
(* a start, which may have executed; what a dead supervisor had sent may   *)
(* still land.                                                             *)
(***************************************************************************)
EXTENDS SupervisorStateFiles

CONSTANTS Procs, MaxFaults

ASSUME SupervisorAssumption == MaxFaults \in Nat /\ "none" \notin Procs

VARIABLES
    box,     \* the container of each attempt, as podman shows it
    stray,   \* commands of supervisors that are gone or hang
    run,     \* the supervisor call of each process
    starts,  \* how often a start of each attempt was executed
    faults

supervisorVars == <<files, box, stray, run, starts>>

NoRun == [pc |-> "idle", a |-> "none", mode |-> "none", by |-> "none",
          rev |-> NoRecord, result |-> "none"]

SupervisorInit ==
    /\ FilesInit
    /\ box = [a \in Attempts |-> "none"]
    /\ stray = {}
    /\ run = [p \in Procs |-> NoRun]
    /\ starts = [a \in Attempts |-> 0]

(* One more failure.                                                       *)
Fault == faults < MaxFaults /\ faults' = faults + 1

Continue(p, pc) == run' = [run EXCEPT ![p].pc = pc]
Finish(p, result) == run' = [run EXCEPT ![p].pc = "done", ![p].result = result]
Record(p, rev) == run' = [run EXCEPT ![p].pc = "open", ![p].rev = rev]

(* A call with the attempt and, for a stop, the operation it is for.       *)
Request(p, a, mode, by) ==
    run' = [run EXCEPT ![p] = [NoRun EXCEPT !.pc = "read", !.a = a, !.mode = mode, !.by = by]]

At(p, pc) == run[p].pc = pc

(* readState, and what each call does with what it finds.                  *)
LaunchFound(p, rev) ==
    CASE rev = NoRecord -> Continue(p, "authority")
      [] rev = Started -> Finish(p, "started")
      [] rev = Stopped -> Continue(p, "prove")
      [] OTHER -> Finish(p, "failed")

ReconcileFound(p, rev) ==
    CASE rev = Stopped -> Continue(p, "prove")
      [] rev \in {NoRecord, Preparing} -> Continue(p, "list")
      [] rev \in {Created, Started, Stopping} -> Continue(p, "observe")
      [] OTHER -> Finish(p, "failed")

\* Mutant: a stop that was never recorded is taken to have happened.
StopFoundAssumed(p, rev) ==
    LET mode == run[p].mode
        same == StoppedBy(run[p].a) = run[p].by
    IN  CASE rev = Started /\ mode # "restop" -> Record(p, Stopping)
          [] rev = Stopping /\ mode # "fresh" /\ same -> Continue(p, "stop")
          [] rev = Stopped /\ mode # "fresh" /\ same -> Continue(p, "prove")
          [] rev \in {Created, Started} /\ mode = "restop" -> Finish(p, "stopped")
          [] rev = NoRecord /\ mode = "restop" -> Finish(p, "unknown")
          [] OTHER -> Finish(p, "failed")

StopFound(p, rev) ==
    LET mode == run[p].mode
        same == StoppedBy(run[p].a) = run[p].by
    IN  CASE rev = Started /\ mode # "restop" -> Record(p, Stopping)
          [] rev = Stopping /\ mode # "fresh" /\ same -> Continue(p, "stop")
          [] rev = Stopped /\ mode # "fresh" /\ same -> Continue(p, "prove")
          [] rev \in {Created, Started} /\ mode = "restop" -> Finish(p, "unknown")
          [] rev = NoRecord /\ mode = "restop" -> Finish(p, "unknown")
          [] OTHER -> Finish(p, "failed")

ReadState(p) ==
    /\ At(p, "read")
    /\ LET a == run[p].a IN
       \/ /\ files' = Helped(a)
          /\ CASE run[p].mode = "launch" -> LaunchFound(p, Current(a))
               [] run[p].mode = "reconcile" -> ReconcileFound(p, Current(a))
               [] OTHER -> StopFound(p, Current(a))
          /\ UNCHANGED faults
       \/ Fault /\ Finish(p, "failed") /\ UNCHANGED files
    /\ UNCHANGED <<box, stray, starts>>

(* The user namespace, the image and the attachment are verified; nothing  *)
(* is done yet.                                                            *)
AcquireFilesystemAuthority(p) ==
    /\ At(p, "authority")
    /\ \/ Record(p, Preparing) /\ UNCHANGED faults
       \/ Fault /\ Finish(p, "failed")
    /\ UNCHANGED <<files, box, stray, starts>>

-----------------------------------------------------------------------------
(* What follows each record.                                               *)
Recorded(p) ==
    CASE run[p].rev = Preparing -> Continue(p, "create")
      [] run[p].rev = Created -> Continue(p, "start")
      [] run[p].rev = Started -> Finish(p, "started")
      [] run[p].rev = Stopping -> Continue(p, "stop")
      [] run[p].rev = Stopped -> Continue(p, "prove")

By(p) == IF run[p].rev >= Stopping THEN run[p].by ELSE "none"

(* writeExclusive for the revision the call is at.                         *)
Lost(p) ==
    LET a == run[p].a
        r == run[p].rev
    IN  CASE r = Preparing -> Finish(p, IF Current(a) = Started THEN "started" ELSE "failed")
          [] r # Preparing /\ SameRecord(a, r, By(p)) -> Recorded(p)
          [] OTHER -> Finish(p, "failed")

Write(p, outcome) ==
    /\ files' = outcome.files
    /\ CASE outcome.result = "lost" -> Lost(p)
         [] outcome.result = "failed" -> Finish(p, "failed")
         [] outcome.result = "written" -> Continue(p, "link")
         [] outcome.result = "linked" -> Continue(p, "sync")
         [] outcome.result = "created" -> Recorded(p)

WriteRecord(p) ==
    LET a == run[p].a
        r == run[p].rev
    IN  /\ \/ /\ \/ At(p, "open") /\ Write(p, WritePending(a, r, By(p)))
                 \/ At(p, "link") /\ Write(p, LinkPending(a, r))
                 \/ At(p, "sync") /\ Write(p, FinishPublication(a, r))
              /\ UNCHANGED faults
           \/ /\ run[p].pc \in {"open", "link", "sync"}
              /\ Fault
              /\ Finish(p, "failed")
              /\ files' \in IF At(p, "open") THEN HalfWritten(a, r, By(p)) ELSE {files}
        /\ UNCHANGED <<box, stray, starts>>

-----------------------------------------------------------------------------
(* runPodman: a command that fails is killed with its group, so that its   *)
(* effect has happened by then or never will.                              *)
Podman(p, effect, ok) ==
    \/ effect /\ ok /\ UNCHANGED faults
    \/ Fault /\ (effect \/ UNCHANGED box) /\ Finish(p, "failed")

CreateContainer(p) ==
    LET a == run[p].a IN
    /\ At(p, "create")
    /\ IF box[a] = "none"
       THEN Podman(p, box' = [box EXCEPT ![a] = "created"], Record(p, Created))
       ELSE Finish(p, "failed") /\ UNCHANGED <<box, faults>>
    /\ UNCHANGED <<files, stray, starts>>

Execute(a) ==
    LET startable == box[a] \in {"created", "exited"} IN
    /\ box' = [box EXCEPT ![a] = IF startable THEN "running" ELSE @]
    /\ starts' = [starts EXCEPT ![a] = IF startable THEN @ + 1 ELSE @]

(* The container is inspected and started.  A start that was sent and      *)
(* failed is never settled: the call hangs.                                *)
StartContainer(p) ==
    LET a == run[p].a IN
    /\ At(p, "start")
    /\ \/ /\ box[a] = "created"
          /\ Execute(a)
          /\ Continue(p, "running")
          /\ UNCHANGED <<stray, faults>>
       \/ /\ box[a] = "created"
          /\ Fault
          /\ \/ Finish(p, "failed") /\ UNCHANGED stray
             \/ Continue(p, "hung") /\ stray' = stray \cup {<<"start", a>>}
          /\ UNCHANGED <<box, starts>>
       \/ box[a] # "created" /\ Finish(p, "failed") /\ UNCHANGED <<box, starts, stray, faults>>
    /\ UNCHANGED files

(* The container runs on the attachment the authority holds.               *)
ProveRunning(p) ==
    /\ At(p, "running")
    /\ IF box[run[p].a] = "running"
       THEN Podman(p, UNCHANGED box, Record(p, Started))
       ELSE Finish(p, "failed") /\ UNCHANGED <<box, faults>>
    /\ UNCHANGED <<files, stray, starts>>

(* Stopped, waited for and inspected.                                      *)
StopContainer(p) ==
    LET a == run[p].a IN
    /\ At(p, "stop")
    /\ IF box[a] \in {"running", "exited"}
       THEN Podman(p, box' = [box EXCEPT ![a] = "exited"], Record(p, Stopped))
       ELSE Finish(p, "failed") /\ UNCHANGED <<box, faults>>
    /\ UNCHANGED <<files, stray, starts>>

(* proveNoStoppedContainer: removed by name and id, and listed by neither. *)
ProveNoStoppedContainer(p) ==
    LET a == run[p].a IN
    /\ At(p, "prove")
    /\ IF box[a] \in {"exited", "created", "none"}
       THEN Podman(p, box' = [box EXCEPT ![a] = "none"],
                   Finish(p, IF run[p].mode \in {"launch", "reconcile"}
                             THEN "proved" ELSE "stopped"))
       ELSE Finish(p, "failed") /\ UNCHANGED <<box, faults>>
    /\ UNCHANGED <<files, stray, starts>>

(* reconcileWriterLaunch, before and after a container id was recorded.    *)
ListContainers(p) ==
    LET a == run[p].a IN
    /\ At(p, "list")
    /\ Podman(p, UNCHANGED box,
              Finish(p, CASE box[a] = "none" -> "not-started"
                          [] box[a] = "exited" -> "exited"
                          [] OTHER -> "failed"))
    /\ UNCHANGED <<files, stray, starts>>

\* Mutant: a container that does not run has stopped.
ObserveNotRunning(p) ==
    LET a == run[p].a IN
    /\ At(p, "observe")
    /\ Podman(p, UNCHANGED box,
              Finish(p, IF box[a] # "running" THEN "exited" ELSE "failed"))
    /\ UNCHANGED <<files, stray, starts>>

ObserveContainer(p) ==
    LET a == run[p].a IN
    /\ At(p, "observe")
    /\ Podman(p, UNCHANGED box,
              Finish(p, IF box[a] = "exited" THEN "exited" ELSE "failed"))
    /\ UNCHANGED <<files, stray, starts>>

SupervisorStep(p) ==
    \/ ReadState(p) \/ AcquireFilesystemAuthority(p) \/ WriteRecord(p)
    \/ CreateContainer(p) \/ StartContainer(p) \/ ProveRunning(p)
    \/ StopContainer(p) \/ ProveNoStoppedContainer(p)
    \/ ListContainers(p) \/ ObserveContainer(p)

-----------------------------------------------------------------------------
(* The writer ends by itself.                                              *)
ContainerExits(a) ==
    /\ box[a] = "running"
    /\ box' = [box EXCEPT ![a] = "exited"]
    /\ UNCHANGED <<files, stray, run, starts, faults>>

(* A command of a supervisor that is gone or hangs lands after all.        *)
StrayLands ==
    \E c \in stray :
        /\ stray' = stray \ {c}
        /\ IF c[1] = "start" THEN Execute(c[2])
           ELSE /\ box' = [box EXCEPT ![c[2]] = IF @ = "none" THEN "created" ELSE @]
                /\ UNCHANGED starts
        /\ UNCHANGED <<files, run, faults>>

(* The process of a supervisor dies; a command it had sent may land.       *)
SupervisorDies(p) ==
    LET a == run[p].a
        sent == CASE At(p, "create") -> {<<"create", a>>}
                  [] At(p, "start") -> {<<"start", a>>}
                  [] OTHER -> {}
    IN  /\ run' = [run EXCEPT ![p] = NoRun]
        /\ stray' \in {stray, stray \cup sent}
        /\ files' \in IF At(p, "open") THEN HalfWritten(a, run[p].rev, By(p)) ELSE {files}
        /\ UNCHANGED <<box, starts>>

(* The host loses power: nothing runs, and containers that ran have exited.*)
HostLosesPower ==
    /\ LosePower
    /\ run' = [p \in Procs |-> NoRun]
    /\ stray' = {}
    /\ box' = [a \in Attempts |-> IF box[a] = "running" THEN "exited" ELSE box[a]]
    /\ UNCHANGED starts
=============================================================================
