----------------------- MODULE LogicalWriterLauncher -----------------------
(***************************************************************************)
(* Processes that launch, reconcile and stop the writer of one session:    *)
(* every call holds the advisory lock of its operation, moves the          *)
(* operation in the authority, and drives the supervisor between two such  *)
(* moves.  The authority is reduced to the phases of the launch, stop,     *)
(* fence and capture operations of each attempt.                           *)
(***************************************************************************)
EXTENDS AtomicCrashCapture

CONSTANTS StopAttempts, Calls   \* the calls made for each attempt

Kinds == {"launch", "prepared", "reconcile", "stop", "stop-capture", "stop-atomic",
          "fence"}
Stops == {"stop", "stop-capture", "stop-atomic"}

ASSUME LauncherAssumption ==
    /\ Epoch \in [Attempts -> Nat \ {0}]
    /\ StopAttempts \in Nat \ {0}
    /\ Calls \in [Attempts -> SUBSET Kinds]

VARIABLES
    auth,     \* the operations of the session in the authority
    guard,    \* who holds the advisory lock of each operation
    call,     \* the launcher call of each process
    handle,   \* the record a launcher keeps of the writer it started
    exposed   \* whether a lock was lost under a call that went on

vars == <<supervisorVars, captureVars, faults, writer, auth, guard, call, handle, exposed>>

launcherVars == <<captureVars, writer, auth, guard, call, handle, exposed>>

ActivePhases == {"prepared", "starting", "uncertain"}
Ended == {"not-started", "complete-stopped", "cancelled"}
Locks == {"launch", "stop", "fence"}

NoHandle == [state |-> "none", a |-> "none", claimed |-> FALSE, route |-> "none"]
NoCall == [pc |-> "idle", kind |-> "none", lock |-> "launch", a |-> "none",
           ev |-> "none", seen |-> "none", gc |-> FALSE, tries |-> 0]

Init ==
    /\ SupervisorInit
    /\ CapabilityInit(Procs)
    /\ CaptureInit
    /\ auth = [launch |-> [a \in Attempts |-> "absent"],
               stop |-> [a \in Attempts |-> "absent"],
               fence |-> [a \in Attempts |-> "absent"],
               capture |-> [a \in Attempts |-> "absent"],
               token |-> [a \in Attempts |-> "none"],
               handoff |-> {}, gc |-> {}, collected |-> {}, pointer |-> "none"]
    /\ guard = [l \in Locks |-> [a \in Attempts |-> "none"]]
    /\ call = [p \in Procs |-> NoCall]
    /\ handle = [p \in Procs |-> NoHandle]
    /\ exposed = FALSE
    /\ faults = 0

-----------------------------------------------------------------------------
(* The authority.                                                          *)
(* An operation is active, or the session is blocked.                      *)
Active == \E a \in Attempts :
    \/ {auth.launch[a], auth.stop[a], auth.fence[a], auth.capture[a]} \cap ActivePhases # {}
    \/ auth.fence[a] = "blocked"

(* The lease of an attempt is current until a later one is reserved.       *)
LeaseCurrent(a) ==
    \A b \in Attempts : Epoch[b] > Epoch[a] => auth.launch[b] = "absent"

Idle == ~Active /\ auth.pointer = "none"

CanCapture(a) == Idle /\ LeaseCurrent(a) /\ auth.capture[a] = "absent"

LaunchReserved(a) == [auth EXCEPT !.launch[a] = "prepared"]
LaunchClaimed(a) == [auth EXCEPT !.launch[a] = "starting"]
LaunchUncertain(a) == [auth EXCEPT !.launch[a] = "uncertain"]
LaunchFinal(a, ev, gc) ==
    [auth EXCEPT !.launch[a] = ev,
                 !.pointer = IF ev = "started" THEN a ELSE @,
                 !.gc = IF gc THEN @ \cup {a} ELSE @]

CanReserveLaunch(a) == Idle /\ LeaseCurrent(a) /\ auth.launch[a] = "absent"

(* A restore hands over to the launch it prepared.                         *)
RestoreHandsOver(a) ==
    /\ "prepared" \in Calls[a]
    /\ CanReserveLaunch(a)
    /\ auth' = [LaunchReserved(a) EXCEPT !.handoff = @ \cup {a}]
    /\ UNCHANGED <<supervisorVars, captureVars, faults, writer, guard, call, handle, exposed>>

StopFinal(a, handoff) ==
    [auth EXCEPT !.stop[a] = "stopped", !.pointer = "none", !.gc = @ \cup {a},
                 !.capture[a] = IF handoff THEN "prepared" ELSE @]

FenceFinal(a) ==
    [auth EXCEPT !.fence[a] = "fenced", !.pointer = "none", !.capture[a] = "prepared"]

(* A method of the authority: done and answered, refused, or not answered, *)
(* done or not.                                                            *)
Ask(possible, after, ok, err) ==
    \/ possible /\ auth' = after /\ ok /\ UNCHANGED faults
    \/ ~possible /\ err /\ UNCHANGED <<auth, faults>>
    \/ Fault /\ auth' \in {auth, IF possible THEN after ELSE auth} /\ err

-----------------------------------------------------------------------------
(* The operation guard: an advisory lock of a connection that may die.     *)
In(p, pc) == call[p].pc = pc
Held(p) == guard[call[p].lock][call[p].a] = p

Go(p, pc) == call' = [call EXCEPT ![p].pc = pc] /\ UNCHANGED guard

Leave(p) ==
    /\ call' = [call EXCEPT ![p] = NoCall]
    /\ guard' = IF Held(p) THEN [guard EXCEPT ![call[p].lock][call[p].a] = "none"] ELSE guard

(* assertGuardHeld before the next effect.                                 *)
Probe(p, ok, err) == IF Held(p) THEN ok ELSE err

LoseGuard(p) ==
    /\ call[p].pc # "idle"
    /\ Held(p)
    /\ Fault
    /\ guard' = [guard EXCEPT ![call[p].lock][call[p].a] = "none"]
    /\ exposed' = TRUE
    /\ UNCHANGED <<supervisorVars, captureVars, writer, auth, call, handle>>

Entry(kind) == CASE kind = "launch" -> "reserve" [] kind = "prepared" -> "pread"
                 [] kind = "reconcile" -> "read" [] kind \in Stops -> "sread"
                 [] kind = "fence" -> "freserve"

LockOf(kind) == CASE kind \in {"launch", "prepared", "reconcile"} -> "launch"
                  [] kind \in Stops -> "stop"
                  [] OTHER -> "fence"

(* Calls that would only read what is settled are left out.                *)
Admissible(p, kind, a) ==
    CASE kind = "launch" -> auth.launch[a] = "absent"
      [] kind = "prepared" -> auth.launch[a] \in ActivePhases
      [] kind = "reconcile" ->
            \/ auth.launch[a] \in ActivePhases
            \/ auth.launch[a] = "started" /\ handle[p].state = "provisional"
      [] kind \in Stops ->
            /\ handle[p].a = a
            /\ handle[p].state = "ready"
            /\ handle[p].route \in {"none", kind}
      [] kind = "fence" ->
            \/ auth.pointer = a /\ auth.fence[a] = "absent"
            \/ auth.fence[a] \in ActivePhases

Enter(p, kind, a) ==
    /\ In(p, "idle")
    /\ kind \in Calls[a]
    /\ Admissible(p, kind, a)
    /\ guard[LockOf(kind)][a] = "none"
    /\ guard' = [guard EXCEPT ![LockOf(kind)][a] = p]
    /\ call' = [call EXCEPT ![p] = [NoCall EXCEPT !.pc = Entry(kind), !.kind = kind,
                                                  !.lock = LockOf(kind), !.a = a]]
    /\ handle' = IF kind \in Stops
                 THEN [handle EXCEPT ![p].route = kind] ELSE handle
    /\ UNCHANGED <<supervisorVars, captureVars, faults, writer, auth, exposed>>

-----------------------------------------------------------------------------
(* runLaunch and runPreparedLaunch.                                        *)
Reserve(p) ==
    LET a == call[p].a IN
    /\ In(p, "reserve")
    /\ IF assertWriterLaunchAvailable(p, a)
       THEN Ask(CanReserveLaunch(a), LaunchReserved(a), Go(p, "claim"), Go(p, "read"))
       ELSE Leave(p) /\ UNCHANGED <<auth, faults>>
    /\ UNCHANGED <<supervisorVars, writer, handle, exposed>>

ReadPrepared(p) ==
    LET a == call[p].a IN
    /\ In(p, "pread")
    /\ CASE auth.launch[a] = "prepared" ->
              IF assertWriterLaunchAvailable(p, a)
              THEN Probe(p, Go(p, "claim"), Leave(p)) ELSE Leave(p)
         [] auth.launch[a] \in {"starting", "uncertain"} -> Go(p, "read")
         [] OTHER -> Leave(p)
    /\ UNCHANGED <<supervisorVars, faults, writer, auth, handle, exposed>>

(* Once the dispatch is claimed every failure leaves it uncertain.         *)
Claimed(p, pc) ==
    /\ call' = [call EXCEPT ![p].pc = pc, ![p].seen = "starting"]
    /\ UNCHANGED guard

Claim(p) ==
    LET a == call[p].a IN
    /\ In(p, "claim")
    /\ IF assertWriterLaunchAvailable(p, a)
       THEN Ask(auth.launch[a] = "prepared", LaunchClaimed(a),
                Probe(p, Claimed(p, "launching") /\ Request(p, a, "launch", "none"),
                         Claimed(p, "mark") /\ UNCHANGED run),
                /\ Go(p, IF call[p].kind = "prepared" THEN "ambiguous" ELSE "read")
                /\ UNCHANGED run)
       ELSE Leave(p) /\ UNCHANGED <<auth, run, faults>>
    /\ UNCHANGED <<files, box, stray, starts, writer, handle, exposed>>

(* reconcilePreparedClaimAmbiguity: a claim that did not happen is not     *)
(* cancelled.                                                              *)
Ambiguous(p) ==
    /\ In(p, "ambiguous")
    /\ IF auth.launch[call[p].a] = "prepared" THEN Leave(p) ELSE Go(p, "read")
    /\ UNCHANGED <<supervisorVars, faults, writer, auth, handle, exposed>>

Finalizing(p, ev, gc) ==
    /\ call' = [call EXCEPT ![p].pc = "finalize", ![p].ev = ev, ![p].gc = gc]
    /\ UNCHANGED guard

Answer(p) == run[p].result
Answered(p) == At(p, "done") /\ run' = [run EXCEPT ![p] = NoRun]

(* dispatchGrantedLaunch after the supervisor's answer, with               *)
(* registerStartedWriter.                                                  *)
Launched(p) ==
    LET a == call[p].a IN
    /\ In(p, "launching")
    /\ Answered(p)
    /\ IF ~Held(p) \/ Answer(p) \notin {"started", "proved"}
       THEN Go(p, "mark") /\ UNCHANGED <<writer, handle>>
       ELSE IF Answer(p) = "started"
       THEN /\ registerWriter(p, a)
            /\ handle' = [handle EXCEPT ![p] = [NoHandle EXCEPT !.state = "provisional", !.a = a]]
            /\ Finalizing(p, "started", FALSE)
       ELSE Finalizing(p, "complete-stopped", TRUE) /\ UNCHANGED <<writer, handle>>
    /\ UNCHANGED <<files, box, stray, starts, faults, auth, exposed>>

(* adoptCommittedStarted.                                                  *)
Adopt(p) ==
    handle' = IF auth'.launch[call[p].a] = "started" /\ handle[p].a = call[p].a
                 /\ handle[p].state = "provisional"
              THEN [handle EXCEPT ![p].state = "ready"] ELSE handle

Finalize(p) ==
    LET a == call[p].a IN
    /\ In(p, "finalize")
    /\ Ask(auth.launch[a] = call[p].seen, LaunchFinal(a, call[p].ev, call[p].gc),
           Leave(p) /\ Adopt(p), Go(p, "readback") /\ UNCHANGED handle)
    /\ UNCHANGED <<supervisorVars, writer, exposed>>

Readback(p) ==
    /\ In(p, "readback")
    /\ IF auth.launch[call[p].a] = call[p].ev
       THEN Leave(p) /\ UNCHANGED auth /\ Adopt(p)
       ELSE Go(p, "mark") /\ UNCHANGED <<auth, handle>>
    /\ UNCHANGED <<supervisorVars, faults, writer, exposed>>

(* bestEffortMarkUncertain.                                                *)
Mark(p) ==
    LET a == call[p].a
        marks == call[p].seen = "starting" /\ auth.launch[a] = "starting"
    IN  /\ In(p, "mark")
        /\ Leave(p)
        /\ \/ auth' = (IF marks THEN LaunchUncertain(a) ELSE auth) /\ UNCHANGED faults
           \/ marks /\ Fault /\ UNCHANGED auth
        /\ UNCHANGED <<supervisorVars, writer, handle, exposed>>

-----------------------------------------------------------------------------
(* reconcileWithinGuard.                                                   *)
Seen(p, pc, phase) ==
    /\ call' = [call EXCEPT ![p].pc = pc, ![p].seen = phase]
    /\ UNCHANGED guard

Inquire(p, phase) ==
    Probe(p, Seen(p, "reconciling", phase) /\ Request(p, call[p].a, "reconcile", "none"),
             Leave(p) /\ UNCHANGED run)

Read(p) ==
    LET a == call[p].a
        phase == auth.launch[a]
        mine == handle[p].a = a /\ handle[p].state = "provisional"
    IN  /\ In(p, "read")
        /\ CASE phase = "prepared" -> Go(p, "cancel") /\ UNCHANGED <<auth, handle, run>>
             [] phase \in {"starting", "uncertain"} /\ mine ->
                  /\ Probe(p, /\ call' = [call EXCEPT ![p] =
                                   [@ EXCEPT !.pc = "finalize", !.ev = "started", !.seen = phase]]
                              /\ UNCHANGED guard,
                           Leave(p))
                  /\ UNCHANGED <<auth, handle, run>>
             [] phase = "starting" /\ ~mine ->
                  Seen(p, "premark", phase) /\ UNCHANGED <<auth, handle, run>>
             [] phase = "uncertain" /\ ~mine -> Inquire(p, phase) /\ UNCHANGED <<auth, handle>>
             [] OTHER -> UNCHANGED <<auth, run>> /\ Leave(p) /\ Adopt(p)
        /\ UNCHANGED <<files, box, stray, starts, faults, writer, exposed>>

(* A prepared launch that a restore handed over is cancelled only when its *)
(* lease has expired.                                                      *)
Cancel(p) ==
    LET a == call[p].a IN
    /\ In(p, "cancel")
    /\ \/ Ask(auth.launch[a] = "prepared", [auth EXCEPT !.launch[a] = "cancelled"],
              Leave(p), Leave(p))
       \/ a \in auth.handoff /\ Leave(p) /\ UNCHANGED <<auth, faults>>
    /\ UNCHANGED <<supervisorVars, writer, handle, exposed>>

MarkBeforeInquiry(p) ==
    LET a == call[p].a IN
    /\ In(p, "premark")
    /\ \/ /\ auth' = IF auth.launch[a] = "starting" THEN LaunchUncertain(a) ELSE auth
          /\ UNCHANGED faults
       \/ Fault /\ UNCHANGED auth
    /\ IF auth'.launch[a] \in {"starting", "uncertain"}
       THEN Inquire(p, auth'.launch[a])
       ELSE Leave(p) /\ UNCHANGED run
    /\ UNCHANGED <<files, box, stray, starts, writer, handle, exposed>>

Reconciled(p) ==
    /\ In(p, "reconciling")
    /\ Answered(p)
    /\ CASE Held(p) /\ Answer(p) = "not-started" -> Finalizing(p, "not-started", FALSE)
         [] Held(p) /\ Answer(p) = "exited" -> Finalizing(p, "complete-stopped", FALSE)
         [] Held(p) /\ Answer(p) = "proved" -> Finalizing(p, "complete-stopped", TRUE)
         [] OTHER -> Leave(p)
    /\ UNCHANGED <<files, box, stray, starts, faults, writer, auth, handle, exposed>>

-----------------------------------------------------------------------------
(* The route a record's stop takes is settled by its first call.           *)
HandsOver(p) == handle[p].route = "stop-capture"

(* stopWriterForCapture.  Only the record whose own claim dispatched the   *)
(* stop may carry it out; finding it dispatched by another loses the       *)
(* record for good.                                                        *)
Lose(p) == handle' = [handle EXCEPT ![p].state = "lost"]

Authorized(p) ==
    LET a == call[p].a IN
    auth.stop[a] = "starting" /\ auth.token[a] = p /\ handle[p].claimed

ToStop(p) == Probe(p, Go(p, "sdispatch"), Leave(p)) /\ UNCHANGED handle

ReadStop(p) ==
    LET phase == auth.stop[call[p].a] IN
    /\ In(p, "sread")
    /\ CASE phase = "absent" ->
              /\ IF call[p].tries < StopAttempts THEN Go(p, "sreserve") ELSE Leave(p)
              /\ UNCHANGED handle
         [] phase = "prepared" -> Go(p, "sclaim") /\ UNCHANGED handle
         [] Authorized(p) -> ToStop(p)
         [] OTHER -> Leave(p) /\ Lose(p)
    /\ UNCHANGED <<supervisorVars, faults, writer, auth, exposed>>

ReserveStop(p) ==
    LET a == call[p].a IN
    /\ In(p, "sreserve")
    /\ Ask(~Active /\ auth.pointer = a /\ auth.stop[a] = "absent",
           [auth EXCEPT !.stop[a] = "prepared"], Go(p, "sclaim"),
           /\ call' = [call EXCEPT ![p].pc = "sread", ![p].tries = @ + 1]
           /\ UNCHANGED guard)
    /\ UNCHANGED <<supervisorVars, writer, handle, exposed>>

ClaimStop(p) ==
    LET a == call[p].a IN
    /\ In(p, "sclaim")
    /\ handle' = [handle EXCEPT ![p].claimed = TRUE]
    /\ Ask(auth.stop[a] = "prepared",
           [auth EXCEPT !.stop[a] = "starting", !.token[a] = p],
           Probe(p, Go(p, "sdispatch"), Leave(p)), Go(p, "sphase"))
    /\ UNCHANGED <<supervisorVars, writer, exposed>>

ReadStopClaim(p) ==
    /\ In(p, "sphase")
    /\ CASE auth.stop[call[p].a] = "prepared" ->
              Leave(p) /\ handle' = [handle EXCEPT ![p].claimed = FALSE]
         [] Authorized(p) -> ToStop(p)
         [] OTHER -> Leave(p) /\ handle' = [handle EXCEPT ![p].claimed = FALSE,
                                                          ![p].state = "lost"]
    /\ UNCHANGED <<supervisorVars, faults, writer, auth, exposed>>

DispatchStop(p) ==
    LET a == call[p].a IN
    /\ In(p, "sdispatch")
    /\ IF writer[p].state = "running"
       THEN /\ beginStop(p)
            /\ handle' = [handle EXCEPT ![p].state = "stopping"]
            /\ Request(p, a, "stop", "stop")
            /\ Go(p, "stopping")
       ELSE Go(p, "smark") /\ Lose(p) /\ UNCHANGED <<writer, run>>
    /\ UNCHANGED <<files, box, stray, starts, faults, auth, exposed>>

StopUnproved(p) ==
    /\ Go(p, "smark")
    /\ Lose(p)
    /\ writer' = [writer EXCEPT ![p] = stopFailed(p)]

WriterAnswered(p) ==
    /\ In(p, "stopping")
    /\ Answered(p)
    /\ IF Held(p) /\ Answer(p) = "stopped"
       THEN /\ call' = [call EXCEPT ![p] = [@ EXCEPT !.pc = "sfinalize", !.seen = "starting",
                                                     !.tries = 0]]
            /\ UNCHANGED <<guard, handle, writer>>
       ELSE StopUnproved(p)
    /\ UNCHANGED <<files, box, stray, starts, faults, auth, exposed>>

FinalizeStop(p) ==
    LET a == call[p].a IN
    /\ In(p, "sfinalize")
    /\ Ask(auth.stop[a] = call[p].seen, StopFinal(a, HandsOver(p)),
           Go(p, "sconfirm"), Go(p, "sreadback"))
    /\ UNCHANGED <<supervisorVars, writer, handle, exposed>>

ReadStopFinal(p) ==
    LET phase == auth.stop[call[p].a] IN
    /\ In(p, "sreadback")
    /\ CASE phase = "stopped" -> Go(p, "sconfirm") /\ UNCHANGED <<writer, handle>>
         [] phase # "stopped" /\ call[p].tries < StopAttempts ->
              /\ call' = [call EXCEPT ![p].pc = "sfinalize", ![p].seen = phase,
                                      ![p].tries = @ + 1]
              /\ UNCHANGED <<guard, writer, handle>>
         [] OTHER -> StopUnproved(p)
    /\ UNCHANGED <<supervisorVars, faults, auth, exposed>>

(* The callback has made the handle one of a stopped writer.  The          *)
(* capability is issued; a stop that handed over to its capture revokes it *)
(* at once, and an atomic capture goes on with it.  For a writer that was  *)
(* revoked meanwhile the coordinator throws and the stop fails.            *)
ConfirmStop(p) ==
    /\ In(p, "sconfirm")
    /\ IF Held(p)
       THEN /\ handle' = [handle EXCEPT ![p].state = "stopped"]
            /\ writer' = [writer EXCEPT ![p] =
                 IF HandsOver(p) THEN [issueCapability(p) EXCEPT !.state = "revoked"]
                 ELSE issueCapability(p)]
            /\ IF writer[p].state = "stopping"
               THEN /\ Leave(p)
                    /\ IF handle[p].route = "stop-atomic" THEN CaptureBegins(p, call[p].a)
                       ELSE UNCHANGED take
               ELSE Go(p, "smark") /\ UNCHANGED take
       ELSE StopUnproved(p) /\ UNCHANGED take
    /\ UNCHANGED <<supervisorVars, row, lv, dispatched, late, faults, auth, exposed>>

MarkStop(p) ==
    LET a == call[p].a
        marks == auth.stop[a] = "starting"
    IN  /\ In(p, "smark")
        /\ Leave(p)
        /\ \/ /\ auth' = IF marks THEN [auth EXCEPT !.stop[a] = "uncertain"] ELSE auth
              /\ UNCHANGED faults
           \/ marks /\ Fault /\ UNCHANGED auth
        /\ UNCHANGED <<supervisorVars, writer, handle, exposed>>

-----------------------------------------------------------------------------
(* The capture of the stopped writer: inside consumeCapability, or by the  *)
(* workers that find it prepared.                                          *)
Consume(p) ==
    /\ handle[p].state = "stopped"
    /\ handle[p].route = "stop"
    /\ consumeCapability(p)
    /\ UNCHANGED <<supervisorVars, faults, auth, guard, call, handle, exposed>>

SnapshotBegins(p) ==
    LET a == writer[p].a IN
    /\ writer[p].state = "consuming"
    /\ handle[p].route = "stop"
    /\ auth.capture[a] = "absent"
    /\ IF CanCapture(a)
       THEN auth' = [auth EXCEPT !.capture[a] = "starting"] /\ UNCHANGED writer
       ELSE snapshotSettled(p, FALSE) /\ UNCHANGED auth
    /\ UNCHANGED <<supervisorVars, faults, guard, call, handle, exposed>>

SnapshotEnds(p) ==
    LET a == writer[p].a IN
    /\ writer[p].state = "consuming"
    /\ handle[p].route = "stop"
    /\ auth.capture[a] = "starting"
    /\ \/ auth' = [auth EXCEPT !.capture[a] = "captured"] /\ snapshotSettled(p, TRUE)
          /\ UNCHANGED faults
       \/ Fault /\ snapshotSettled(p, FALSE) /\ UNCHANGED auth
    /\ UNCHANGED <<supervisorVars, guard, call, handle, exposed>>

CaptureWorker(a) ==
    /\ \/ auth.capture[a] = "prepared" /\ auth' = [auth EXCEPT !.capture[a] = "starting"]
       \/ /\ auth.capture[a] = "starting"
          /\ \A p \in Procs : ~(writer[p].a = a /\ writer[p].state = "consuming")
          /\ auth' = [auth EXCEPT !.capture[a] = "captured"]
    /\ UNCHANGED <<supervisorVars, captureVars, faults, writer, guard, call, handle, exposed>>

(* The atomic capture, which reserves nothing in the authority.            *)
AtomicCapture(p) ==
    /\ CaptureStep(p)
    /\ UNCHANGED <<supervisorVars, auth, guard, call, handle, exposed>>

RetireAtomic(p) ==
    /\ retireAttempt(p)
    /\ handle' = IF Retirable(p) THEN [handle EXCEPT ![p] = NoHandle] ELSE handle
    /\ UNCHANGED <<supervisorVars, auth, guard, call, exposed>>

(* retireStoppedWriter and retirePreparedCapture.                          *)
Retire(p) ==
    /\ handle[p].state = "stopped"
    /\ handle[p].route # "stop-atomic"
    /\ auth.capture[handle[p].a] = "captured"
    /\ retireWriter(p)
    /\ handle' = [handle EXCEPT ![p] = NoHandle]
    /\ UNCHANGED <<supervisorVars, faults, auth, guard, call, exposed>>

Revoke(p) ==
    /\ Fault
    /\ revokeWriter(p)
    /\ UNCHANGED <<supervisorVars, auth, guard, call, handle, exposed>>

-----------------------------------------------------------------------------
(* A force fence that hands over to a capture: the verified stop by a      *)
(* process that need not be the writer's.                                  *)
Verify(p, mode) ==
    /\ Go(p, "fencing")
    /\ Request(p, call[p].a, mode, "fence")

Retry(p, pc) ==
    /\ IF call[p].tries < StopAttempts
       THEN call' = [call EXCEPT ![p].pc = pc, ![p].tries = @ + 1] /\ UNCHANGED guard
       ELSE Leave(p)
    /\ UNCHANGED run

Settle(p, pc) ==
    /\ call' = [call EXCEPT ![p].pc = pc, ![p].tries = 0]
    /\ UNCHANGED guard

Proceed(p, pc) == Settle(p, pc) /\ UNCHANGED run

(* What was dispatched before is only asked about again (recoverOrBlock).  *)
ReadFence(p) ==
    LET phase == auth.fence[call[p].a] IN
    /\ In(p, "fread")
    /\ CASE phase = "absent" -> Retry(p, "freserve")
         [] phase = "prepared" -> Retry(p, "fclaim")
         [] phase \in {"starting", "uncertain"} ->
              Probe(p, Verify(p, "restop"), Leave(p) /\ UNCHANGED run)
         [] OTHER -> Leave(p) /\ UNCHANGED run
    /\ UNCHANGED <<files, box, stray, starts, faults, writer, auth, handle, exposed>>

ReserveFence(p) ==
    LET a == call[p].a IN
    /\ In(p, "freserve")
    /\ IF auth.fence[a] \in {"absent", "prepared"}
       THEN Ask(auth.fence[a] = "prepared" \/ (~Active /\ auth.pointer = a),
                [auth EXCEPT !.fence[a] = "prepared"],
                Proceed(p, "fclaim"), Go(p, "fread") /\ UNCHANGED run)
       ELSE Proceed(p, "fread") /\ UNCHANGED <<auth, faults>>
    /\ UNCHANGED <<files, box, stray, starts, writer, handle, exposed>>

ClaimFence(p) ==
    LET a == call[p].a IN
    /\ In(p, "fclaim")
    /\ Ask(auth.fence[a] = "prepared", [auth EXCEPT !.fence[a] = "starting"],
           Probe(p, Verify(p, "fresh"), Leave(p) /\ UNCHANGED run),
           Go(p, "fread") /\ UNCHANGED run)
    /\ UNCHANGED <<files, box, stray, starts, writer, handle, exposed>>

(* A stop that was not proved is asked about once, and then given up.      *)
Fenced(p) ==
    /\ In(p, "fencing")
    /\ At(p, "done")
    /\ CASE Held(p) /\ Answer(p) = "stopped" -> Answered(p) /\ Settle(p, "ffinalize")
         [] Held(p) /\ Answer(p) # "stopped" /\ run[p].mode = "fresh" -> Verify(p, "restop")
         [] Held(p) /\ Answer(p) # "stopped" /\ run[p].mode = "restop" ->
              Answered(p) /\ Settle(p, "fblock")
         [] OTHER -> Answered(p) /\ Leave(p)
    /\ UNCHANGED <<files, box, stray, starts, faults, auth, writer, handle, exposed>>

FinalizeFence(p) ==
    LET a == call[p].a IN
    /\ In(p, "ffinalize")
    /\ IF Held(p) /\ auth.fence[a] \in {"starting", "uncertain"}
       THEN Ask(TRUE, FenceFinal(a), Leave(p) /\ UNCHANGED run, Retry(p, "ffinalize"))
       ELSE Leave(p) /\ UNCHANGED <<auth, faults, run>>
    /\ UNCHANGED <<files, box, stray, starts, writer, handle, exposed>>

(* finalizeBlocked, after markUncertain: the session is given up.          *)
BlockFence(p) ==
    LET a == call[p].a IN
    /\ In(p, "fblock")
    /\ CASE Held(p) /\ auth.fence[a] = "starting" ->
              Ask(TRUE, [auth EXCEPT !.fence[a] = "uncertain"],
                  Proceed(p, "fblock"), Retry(p, "fblock"))
         [] Held(p) /\ auth.fence[a] = "uncertain" ->
              Ask(TRUE, [auth EXCEPT !.fence[a] = "blocked"],
                  Leave(p) /\ UNCHANGED run, Retry(p, "fblock"))
         [] OTHER -> Leave(p) /\ UNCHANGED <<auth, faults, run>>
    /\ UNCHANGED <<files, box, stray, starts, writer, handle, exposed>>

-----------------------------------------------------------------------------
LauncherStep(p) ==
    \/ Reserve(p) \/ ReadPrepared(p) \/ Claim(p) \/ Ambiguous(p)
    \/ Launched(p) \/ Finalize(p) \/ Readback(p) \/ Mark(p)
    \/ Read(p) \/ Cancel(p) \/ MarkBeforeInquiry(p) \/ Reconciled(p)
    \/ ReadStop(p) \/ ReserveStop(p) \/ ClaimStop(p) \/ ReadStopClaim(p) \/ DispatchStop(p)
    \/ WriterAnswered(p) \/ FinalizeStop(p) \/ ReadStopFinal(p) \/ MarkStop(p)
    \/ Consume(p) \/ SnapshotBegins(p) \/ SnapshotEnds(p) \/ Retire(p) \/ Revoke(p)
    \/ ReserveFence(p) \/ ReadFence(p) \/ ClaimFence(p) \/ Fenced(p) \/ FinalizeFence(p)
    \/ BlockFence(p)

(* State is collected when the authority has recorded the terminal record. *)
Collect(a) ==
    /\ a \in auth.gc
    /\ CollectLower(a) \/ CollectTerminal(a) \/ CollectSync(a)
    /\ UNCHANGED <<box, stray, run, starts, faults, launcherVars>>

(* completeWriterSupervisorStateGc, with the receipt of the collector.     *)
CompleteCollection(a) ==
    /\ a \in auth.gc
    /\ Chain(a) = {} /\ ~files[a][Stopped].kept
    /\ auth' = [auth EXCEPT !.gc = @ \ {a}, !.collected = @ \cup {a}]
    /\ UNCHANGED <<supervisorVars, captureVars, faults, writer, guard, call, handle, exposed>>

Freed(p) == [l \in Locks |-> [a \in Attempts |->
                IF guard[l][a] = p THEN "none" ELSE guard[l][a]]]

Crash(p) ==
    /\ Fault
    /\ call[p].pc # "idle" \/ handle[p].state # "none"
    /\ SupervisorDies(p)
    /\ CaptureDies(p)
    /\ call' = [call EXCEPT ![p] = NoCall]
    /\ handle' = [handle EXCEPT ![p] = NoHandle]
    /\ writer' = [writer EXCEPT ![p] = NoWriter]
    /\ guard' = Freed(p)
    /\ UNCHANGED <<auth, exposed>>

PowerLoss ==
    /\ Fault
    /\ HostLosesPower
    /\ HostLosesCaptures
    /\ call' = [p \in Procs |-> NoCall]
    /\ handle' = [p \in Procs |-> NoHandle]
    /\ writer' = [p \in Procs |-> NoWriter]
    /\ guard' = [l \in Locks |-> [a \in Attempts |-> "none"]]
    /\ UNCHANGED <<auth, exposed>>

Next ==
    \/ \E p \in Procs :
         \/ \E kind \in Kinds, a \in Attempts : Enter(p, kind, a)
         \/ LauncherStep(p) /\ UNCHANGED captureVars
         \/ ConfirmStop(p) \/ AtomicCapture(p) \/ RetireAtomic(p)
         \/ SupervisorStep(p) /\ UNCHANGED launcherVars
         \/ LoseGuard(p) \/ Crash(p)
    \/ \E a \in Attempts : \/ RestoreHandsOver(a) \/ CaptureWorker(a) \/ Collect(a)
                           \/ CompleteCollection(a)
                           \/ ContainerExits(a) /\ UNCHANGED launcherVars
    \/ StrayLands /\ UNCHANGED launcherVars
    \/ LateLands /\ UNCHANGED <<supervisorVars, auth, guard, call, handle, exposed>>
    \/ PowerLoss

Spec == Init /\ [][Next]_vars

-----------------------------------------------------------------------------
(* Properties.                                                             *)
Over(a) ==
    \/ auth.launch[a] \in Ended
    \/ auth.stop[a] = "stopped"
    \/ auth.fence[a] = "fenced"

Running == {a \in Attempts : box[a] = "running"}

(* When the authority records that a launch did not start or is stopped,   *)
(* its container does not run, and no command still on its way will make   *)
(* it run; so never two writers of the session run.  It holds as long as   *)
(* no call outlives its advisory lock (reconcileWithinGuard,               *)
(* proveNoStoppedContainer).                                               *)
OverIsDead ==
    ~exposed => /\ \A a \in Attempts : Over(a) => box[a] # "running"
                /\ \A a, b \in Running : a = b

(* A container exists only if the claim of its attempt would survive a     *)
(* power loss, was started only if its identifier would, and is forgotten  *)
(* with a durable terminal record if no lock was lost; what is collected   *)
(* has no container and never comes back; and with or without the lock, no *)
(* attempt is ever started twice (writeExclusive, launchWriter, collect).  *)
EffectsAreRecorded ==
    \A a \in Attempts :
        LET kept == {r \in Revisions : files[a][r].kept} IN
        /\ starts[a] <= 1
        /\ box[a] # "none" /\ a \notin auth.gc => Preparing \in kept
        /\ a \in auth.collected => box[a] = "none" /\ kept = {}
        /\ box[a] \in {"running", "exited"} => {Preparing, Created} \subseteq kept
        /\ ~exposed /\ (auth.stop[a] = "stopped" \/ auth.fence[a] = "fenced") =>
              box[a] = "none" /\ (Stopped \in kept \/ Chain(a) = {})

(* While a snapshot of the session is taken no writer of it runs, although *)
(* the capability is held by one process and any other may launch          *)
(* (consumeCapability, the capture operation of the authority); and every  *)
(* atomic crash capture is real in the sense above.                        *)
SnapshotOfStopped ==
    /\ ~exposed /\ (\E a \in Attempts : auth.capture[a] = "starting") => Running = {}
    /\ CrashCaptureIsReal
=============================================================================
