-------------------------- MODULE RestoreDeployment --------------------------
(***************************************************************************)
(* The life of one detached-restore deployment in a process: the topology  *)
(* preflight, the runtime controller with its scheduler, calls that are    *)
(* admitted while it is ready, the settlement groups they and the recovery *)
(* step go through, and the pools, which are closed last.                  *)
(*                                                                         *)
(* An await is the end of a step; what a call does before its first await  *)
(* (closing admission, stopping controller, scheduler and every group)     *)
(* is one step.  A breach in any group or an error of a pool or connection *)
(* starts the same stop as a caller, in whatever context it happens.       *)
(***************************************************************************)
EXTENDS PhysicalSettlement, RecoveryScheduler

CONSTANTS
    Callers,
    ImageGroup,     \* the group that resolves and inspects images
    Deployments     \* which groups each work calls, in each deployment

RecoveryStep == "step"

ASSUME DeploymentAssumption ==
    /\ Works = Callers \cup {RecoveryStep}
    /\ ImageGroup \in Groups \ QuiescentGroups
    /\ Deployments \subseteq [Works -> SUBSET Groups]

VARIABLES
    reach,          \* the groups each work of this deployment calls
    phys,           \* the settlement groups
    sched,          \* the scheduler
    ctl,            \* the runtime controller
    dep,            \* the deployment
    job,            \* calls: out, or in flight
    rsv,            \* one image reservation
    use             \* what each call does with it

lifeVars == <<reach, phys, sched, ctl, dep, job, rsv, use>>

Outcomes == {"resolved", "rejected"}
Working(w) == IF w = RecoveryStep THEN sched.loop = "step" ELSE job[w] = "in"
Context(w) == IF w = RecoveryStep THEN "outside" ELSE "ingress"

-----------------------------------------------------------------------------
(* Stopping.  A next state is computed as a record of the four parts.      *)

Now == [phys |-> phys, sched |-> sched, ctl |-> ctl, dep |-> dep]

Becomes(s) ==
    \E t \in {s} : /\ phys' = maybeCompleteStop(t.phys)
                   /\ sched' = t.sched /\ ctl' = t.ctl /\ dep' = t.dep

\* Controller stop(): refused from an admitted call, which would wait for
\* itself.
controllerStop(s, context) ==
    IF context = "ingress" THEN [s EXCEPT !.dep.refused = TRUE]
    ELSE IF s.ctl.stop # "none" THEN s
    ELSE [s EXCEPT !.ctl.state = "stopping", !.ctl.stop = "pending",
                   !.sched = schedulerStop(@)]

beginControllerAndSettlementStops(s, context) ==
    LET c == controllerStop(s, context) IN
    [c EXCEPT !.phys = stopGroups(@, Groups)]

beginStop(s, fatal, context) ==
    LET f == [s EXCEPT !.dep.fatal = @ \/ (fatal /\ s.dep.state # "stopped")] IN
    IF f.dep.stop # "none" THEN f
    ELSE beginControllerAndSettlementStops(
            [f EXCEPT !.dep.state = "stopping", !.dep.stop = "waiting",
                      !.dep.awaits = (f.dep.start # "none")], context)

\* Mutant: a fatal event stops the deployment in the context it comes from.
InheritedScope(context) == context

\* handlePoolError runs the stop in fatalScope, which was made outside any call.
fatalScope(context) == "outside"

\* requestFatalShutdown, where a step of the groups was fatal.
AfterFatal(s, context) ==
    IF ~s.phys.fatal THEN s
    ELSE LET t == beginStop(s, TRUE, fatalScope(context)) IN
         [t EXCEPT !.phys.fatal = FALSE]

Physical(p, context) ==
    \E q \in {p} : Becomes(AfterFatal([Now EXCEPT !.phys = q], context))

-----------------------------------------------------------------------------
(* Works and their providers.                                              *)

\* A call is admitted by the deployment and by the controller.
runIngress(c) ==
    /\ job[c] = "out" /\ reach[c] # {}
    /\ dep.state = "ready" /\ ctl.state = "ready"
    /\ job' = [job EXCEPT ![c] = "in"]
    /\ UNCHANGED <<phys, sched, ctl, dep, rsv, use>>

IngressReturns(c) ==
    /\ job[c] = "in"
    /\ phys.slot[c] = Idle /\ use[c] \notin {"revalidate", "consume"}
    /\ job' = [job EXCEPT ![c] = "out"]
    /\ use' = [use EXCEPT ![c] = IF @ = "refused" THEN "none" ELSE @]
    /\ UNCHANGED <<phys, sched, ctl, dep, rsv>>

\* settledValue of a binding: the group is asked, the provider begins.
settledValue(w, g, contract) ==
    /\ Working(w) /\ phys.slot[w] = Idle
    /\ phys.life[g] = "running"
    /\ Physical(invoke(phys, w, g, contract), Context(w))

Invokes(w, g) ==
    /\ w \in Callers => use[w] \notin {"revalidate", "consume"}
    /\ \E contract \in BOOLEAN : settledValue(w, g, contract)
    /\ UNCHANGED <<job, rsv, use>>

ClockPasses(w) ==
    LET r == phys.slot[w] IN
    /\ r.phase \in {"accepting", "draining"} /\ r.time # "over"
    /\ phys' = [phys EXCEPT !.slot[w].time =
                   IF r.phase = "accepting" /\ r.time = "early" THEN "due" ELSE "over"]
    /\ UNCHANGED <<sched, ctl, dep, job, rsv, use>>

TimerFires(w) ==
    /\ enforceElapsedBoundaries(phys.slot[w]) # phys.slot[w]
    /\ Physical(WithSlot(phys, w, enforceElapsedBoundaries(phys.slot[w])), Context(w))
    /\ UNCHANGED <<job, rsv, use>>

ProviderSettles(w) ==
    /\ phys.slot[w].pending
    /\ \E ok \in BOOLEAN :
          Physical(WithSlot(phys, w, observeProvider(phys.slot[w], ok)), Context(w))
    /\ UNCHANGED <<job, rsv, use>>

\* The work continues after the await of its invocation.
Continues(w) ==
    /\ phys.slot[w].phase \in {"done", "breached"}
    /\ w \in Callers => use[w] \notin {"revalidate", "consume"}
    /\ phys' = Consumed(phys, w)
    /\ UNCHANGED <<sched, ctl, dep, job, rsv, use>>

-----------------------------------------------------------------------------
(* The image reservation of a plan: revalidated before and consumed at a    *)
(* launch, each time by inspecting the image again.                         *)

NoReservation == [binding |-> "none", coordinator |-> "none"]

\* prepareImageReservation: the plan was resolved and inspected.
prepareImageReservation(c) ==
    /\ job[c] = "in" /\ rsv = NoReservation /\ phys.slot[c].group = ImageGroup
    /\ phys.slot[c].phase = "done" /\ phys.slot[c].result = "success"
    /\ phys' = Consumed(phys, c)
    /\ rsv' = [binding |-> "issued", coordinator |-> "issued"]
    /\ UNCHANGED <<sched, ctl, dep, job, use>>

\* A use that overlaps another revokes the reservation under it.
useRefused(c) ==
    /\ job[c] = "in" /\ phys.slot[c] = Idle
    /\ use[c] = "none" /\ rsv.binding \in {"using", "consumed", "revoked"}
    /\ use' = [use EXCEPT ![c] = "refused"]
    /\ rsv' = [rsv EXCEPT !.binding = IF @ = "using" THEN "revoked" ELSE @]
    /\ UNCHANGED <<phys, sched, ctl, dep, job>>

useReservation(c) ==
    /\ ImageGroup \in reach[c]
    /\ use[c] = "none" /\ rsv.binding = "issued" /\ rsv.coordinator = "issued"
    /\ settledValue(c, ImageGroup, TRUE)
    /\ \E kind \in {"revalidate", "consume"} : use' = [use EXCEPT ![c] = kind]
    /\ rsv' = [binding |-> "using", coordinator |-> "revalidating"]
    /\ UNCHANGED job

\* The image is inspected and what was measured is what the plan says.
verifyEvidence(same, r) == same /\ r.result = "success"

\* Mutant: the state before the inspection is not looked at again.
RevalidatedAnyway(same, state, next) == IF same THEN next ELSE "revoked"

\* The inspection is back: the coordinator compares what was measured, then
\* the binding looks whether anybody interfered.
revalidated(same, state, next) == IF same /\ state # "revoked" THEN next ELSE "revoked"

reservationUsed(c) ==
    /\ use[c] \in {"revalidate", "consume"}
    /\ phys.slot[c].phase \in {"done", "breached"}
    /\ phys' = Consumed(phys, c)
    /\ \E same \in BOOLEAN :
          LET next == IF use[c] = "consume" THEN "consumed" ELSE "issued"
              measured == verifyEvidence(same, phys.slot[c])
          IN /\ rsv' = [coordinator |-> revalidated(measured, rsv.coordinator, next),
                        binding |-> revalidated(measured, rsv.binding, next)]
             /\ use' = [use EXCEPT ![c] = IF rsv'.binding = "revoked" THEN "refused"
                                          ELSE IF @ = "consume" THEN "holds" ELSE "none"]
    /\ UNCHANGED <<sched, ctl, dep, job>>

-----------------------------------------------------------------------------
(* The scheduler.                                                          *)

\* runOnce has returned and its receipt was observed.
StepSettles ==
    /\ sched.loop = "step" /\ phys.slot[RecoveryStep] = Idle
    /\ \E receipt \in {"completed", "uncertain", "observer-failed"} :
          /\ sched' = settleStep(sched, receipt # "observer-failed")
          /\ ctl' = [ctl EXCEPT !.first = IF @ = "none" THEN receipt ELSE @]
    /\ UNCHANGED <<phys, dep, job, rsv, use>>

LoopContinues ==
    /\ sched.loop \in {"stepped", "threw", "woken"}
    /\ sched' = runLoop(sched)
    /\ UNCHANGED <<phys, ctl, dep, job, rsv, use>>

IntervalEnds ==
    /\ sched.loop = "delay"
    /\ sched' = [sched EXCEPT !.loop = "woken"]
    /\ UNCHANGED <<phys, ctl, dep, job, rsv, use>>

-----------------------------------------------------------------------------
(* The runtime controller.                                                 *)

observeSchedulerCompletion ==
    /\ sched.loop = "end" /\ ctl.state \in {"starting", "ready"}
    /\ ctl' = [ctl EXCEPT !.state = "failed"]
    /\ UNCHANGED <<phys, sched, dep, job, rsv, use>>

\* The catch of startInternal.
ControllerUndoes ==
    /\ ctl' = [ctl EXCEPT !.start = "undo",
                          !.state = IF @ = "starting" THEN "failed" ELSE @]
    /\ sched' = schedulerStop(sched)

Migrated ==
    /\ ctl.start = "migrate"
    /\ \E ok \in BOOLEAN :
          IF ok /\ ctl.state = "starting"
          THEN /\ sched' = schedulerStart(sched)
               /\ ctl' = [ctl EXCEPT !.start = "step"]
          ELSE ControllerUndoes
    /\ UNCHANGED <<phys, dep, job, rsv, use>>

validateInitialRecoveryReceipt ==
    /\ ctl.start = "step" /\ ctl.first # "none"
    /\ IF ctl.first = "completed" /\ ctl.state = "starting"
       THEN /\ ctl' = [ctl EXCEPT !.start = "ok", !.state = "ready"]
            /\ UNCHANGED sched
       ELSE ControllerUndoes
    /\ UNCHANGED <<phys, dep, job, rsv, use>>

stopSchedulerAfterStartFailure ==
    /\ ctl.start = "undo" /\ sched.completion # "none"
    /\ ctl' = [ctl EXCEPT !.start = "failed"]
    /\ UNCHANGED <<phys, sched, dep, job, rsv, use>>

\* What stopInternal awaits: the scheduler, an active start, admitted calls.
ControllerDrained ==
    /\ sched.completion # "none"
    /\ ctl.start \notin {"migrate", "step", "undo"}
    /\ \A c \in Callers : job[c] = "out"

ControllerStops ==
    /\ ctl.stop = "pending" /\ ControllerDrained
    /\ ctl' = IF sched.completion = "rejected"
              THEN [ctl EXCEPT !.state = "failed", !.stop = "rejected"]
              ELSE [ctl EXCEPT !.state = "stopped", !.stop = "resolved"]
    /\ UNCHANGED <<phys, sched, dep, job, rsv, use>>

-----------------------------------------------------------------------------
(* The deployment.                                                         *)

deploymentStart ==
    /\ dep.state = "idle"
    /\ dep' = [dep EXCEPT !.state = "starting", !.start = "preflight"]
    /\ UNCHANGED <<phys, sched, ctl, job, rsv, use>>

\* Mutant: a failed start waits for its own stop, which waits for the start.
CleanupAwaitsStart(s) ==
    IF s.dep.state # "starting" THEN [s EXCEPT !.dep.start = "failed"]
    ELSE [beginStop(s, FALSE, "outside") EXCEPT !.dep.start = "cleanup"]

\* A start that fails by itself stops what it began; one that was stopped
\* leaves that to the stop.
startFails(s) ==
    IF s.dep.state # "starting" THEN [s EXCEPT !.dep.start = "failed"]
    ELSE beginControllerAndSettlementStops(
            [s EXCEPT !.dep.state = "stopping", !.dep.start = "cleanup",
                      !.dep.stop = "waiting", !.dep.awaits = FALSE], "outside")

topologyPreflight ==
    /\ dep.start = "preflight"
    /\ \E ok \in BOOLEAN :
          IF ok /\ dep.state = "starting"
          THEN /\ dep' = [dep EXCEPT !.start = "controller"]
               /\ ctl' = [ctl EXCEPT !.state = "starting", !.start = "migrate"]
               /\ UNCHANGED <<phys, sched>>
          ELSE Becomes(AfterFatal(startFails(Now), "outside"))
    /\ UNCHANGED <<job, rsv, use>>

ControllerStarted ==
    /\ dep.start = "controller" /\ ctl.start \in {"ok", "failed"}
    /\ IF ctl.start = "ok" /\ dep.state = "starting"
       THEN /\ dep' = [dep EXCEPT !.state = "ready", !.start = "ok"]
            /\ UNCHANGED <<phys, sched, ctl>>
       ELSE Becomes(AfterFatal(startFails(Now), "outside"))
    /\ UNCHANGED <<job, rsv, use>>

StartCleanedUp ==
    /\ dep.start = "cleanup" /\ dep.stop \in Outcomes
    /\ dep' = [dep EXCEPT !.start = "failed"]
    /\ UNCHANGED <<phys, sched, ctl, job, rsv, use>>

\* stop() of a caller outside every admitted call.
deploymentStop ==
    /\ dep.stop = "none"
    /\ Becomes(AfterFatal(beginStop(Now, FALSE, "outside"), "outside"))
    /\ UNCHANGED <<job, rsv, use>>

\* A pool or one of its connections fails, perhaps one a call has opened.
handlePoolError ==
    /\ dep.pools # "closed" /\ ~dep.fatal
    /\ \E context \in {"outside", "ingress"} :
          Becomes(AfterFatal(beginStop(Now, TRUE, fatalScope(context)), context))
    /\ UNCHANGED <<job, rsv, use>>

\* Every group that was told to stop has settled its stop.
AllGroupsStopped == \A g \in Groups : phys.stop[g] \in Outcomes

\* awaitControllerAndSettlementStops, after an active start.
StopsSettled ==
    /\ dep.stop = "waiting"
    /\ dep.awaits => dep.start \in {"ok", "failed"}
    /\ dep.refused \/ ctl.stop \in Outcomes
    /\ AllGroupsStopped
    /\ dep' = [dep EXCEPT !.stop = "pools", !.pools = "closing"]
    /\ UNCHANGED <<phys, sched, ctl, job, rsv, use>>

lifecycleStopFailed ==
    \/ dep.refused \/ ctl.stop = "rejected"
    \/ \E g \in Groups : phys.stop[g] = "rejected"

closePools ==
    /\ dep.stop = "pools"
    /\ \E ok \in BOOLEAN :
          dep' = IF lifecycleStopFailed \/ ~ok \/ dep.fatal
                 THEN [dep EXCEPT !.pools = "closed", !.state = "failed",
                                  !.stop = "rejected"]
                 ELSE [dep EXCEPT !.pools = "closed", !.state = "stopped",
                                  !.stop = "resolved"]
    /\ UNCHANGED <<phys, sched, ctl, job, rsv, use>>

-----------------------------------------------------------------------------
LifecycleInit ==
    /\ reach \in Deployments
    /\ phys = NewSettlements
    /\ sched = NewScheduler
    /\ ctl = [state |-> "idle", start |-> "none", first |-> "none", stop |-> "none"]
    /\ dep = [state |-> "idle", start |-> "none", stop |-> "none", awaits |-> FALSE,
              refused |-> FALSE, fatal |-> FALSE, pools |-> "open"]
    /\ job = [c \in Callers |-> "out"]
    /\ rsv = NoReservation
    /\ use = [c \in Callers |-> "none"]

Calls(c) ==
    \/ runIngress(c) \/ IngressReturns(c)
    \/ prepareImageReservation(c)
    \/ useRefused(c) \/ useReservation(c) \/ reservationUsed(c)

Provides(w) ==
    \/ ClockPasses(w) \/ TimerFires(w) \/ ProviderSettles(w) \/ Continues(w)
    \/ \E g \in reach[w] : Invokes(w, g)

Schedules == StepSettles \/ LoopContinues \/ IntervalEnds

Controls ==
    \/ observeSchedulerCompletion \/ Migrated \/ validateInitialRecoveryReceipt
    \/ stopSchedulerAfterStartFailure \/ ControllerStops

Deploys ==
    \/ deploymentStart \/ topologyPreflight \/ ControllerStarted \/ StartCleanedUp
    \/ deploymentStop \/ handlePoolError \/ StopsSettled \/ closePools

LifecycleNext ==
    /\ \/ \E c \in Callers : Calls(c)
       \/ \E w \in Works : Provides(w)
       \/ Schedules \/ Controls \/ Deploys
    /\ UNCHANGED reach

\* What ends by itself after a stop: queries run under timeouts, timers fire, the
\* event loop runs every continuation, and a collector settles.  Nothing is assumed of the
\* other providers, of callers, or of what starts and stops the deployment.
Progress ==
    /\ dep.stop # "none" /\ UNCHANGED reach
    /\ \/ \E c \in Callers : IngressReturns(c) \/ reservationUsed(c)
       \/ \E w \in Works :
             \/ ClockPasses(w) \/ TimerFires(w) \/ Continues(w)
             \/ phys.slot[w].group \in QuiescentGroups /\ ProviderSettles(w)
       \/ StepSettles \/ LoopContinues \/ Controls
       \/ topologyPreflight \/ ControllerStarted \/ StartCleanedUp
       \/ StopsSettled \/ closePools

LifecycleSpec == LifecycleInit /\ [][LifecycleNext]_lifeVars /\ WF_lifeVars(Progress)

-----------------------------------------------------------------------------
(* Properties.                                                             *)

\* The pools are closed under nobody: while one is closing no admitted call is
\* in flight, no recovery step runs, and no start is at its preflight or its
\* migration, whoever began the stop and in whatever context.
PoolsOutliveWork ==
    dep.pools # "open" =>
        /\ \A w \in Works : ~Working(w)
        /\ dep.start # "preflight" /\ ctl.start \notin {"migrate", "step"}

\* A deployment that says it has stopped has left nothing behind: no provider
\* runs, none was given up, and no error was swallowed.  A quiescent group that
\* has settled its stop, well or badly, has no provider any more.
StoppedIsQuiet ==
    /\ dep.state = "stopped" =>
          /\ phys.stray = {} /\ phys.broken = {} /\ ~dep.fatal
          /\ \A w \in Works : ~phys.slot[w].pending
    /\ \A g \in QuiescentGroups : phys.stop[g] \in Outcomes =>
          \A w \in Works : phys.slot[w].group = g => ~phys.slot[w].pending

\* A stop that was begun settles, even when a provider never does, a step or a
\* start fails, or the start it waits for has to clean up after itself.
StopSettles == dep.stop # "none" ~> dep.stop \in Outcomes

\* A reservation ends for good: once it was consumed, or revoked because two
\* calls used it at the same time or the image changed, it stays so, and no call
\* comes to hold its consumption, though a use that began before is still at its
\* inspection.
ReservationEndsForGood ==
    [][rsv.binding \in {"consumed", "revoked"} =>
          /\ rsv'.binding = rsv.binding
          /\ \A c \in Callers : use'[c] = "holds" => use[c] = "holds"]_lifeVars
=============================================================================
