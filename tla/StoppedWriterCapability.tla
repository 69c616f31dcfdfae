---------------------- MODULE StoppedWriterCapability ----------------------
(***************************************************************************)
(* The coordinator of one process: the writer it has registered and the    *)
(* capability that its stop issues, to be consumed once by a snapshot.     *)
(* One session, one storage slot.                                          *)
(***************************************************************************)
EXTENDS Integers

CONSTANT Epoch   \* the fencing epoch of each attempt

VARIABLE writer   \* the coordinator of each process

(* fenced is the epoch of the last writer that was retired.                *)
NoWriter == [state |-> "none", a |-> "none", established |-> FALSE,
             revoking |-> FALSE, fenced |-> 0]

CapabilityInit(procs) == writer = [p \in procs |-> NoWriter]

(* A retained writer excludes every other launch of the session, whatever  *)
(* became of its capability.                                               *)
assertWriterLaunchAvailable(p, a) ==
    writer[p].state = "none" /\ Epoch[a] > writer[p].fenced

registerWriter(p, a) ==
    /\ assertWriterLaunchAvailable(p, a)
    /\ writer' = [writer EXCEPT ![p] =
                    [NoWriter EXCEPT !.state = "running", !.a = a,
                                      !.fenced = writer[p].fenced]]

beginStop(p) ==
    /\ writer[p].state = "running"
    /\ writer' = [writer EXCEPT ![p].state = "stopping"]

(* The callback has settled.  A writer that was revoked meanwhile keeps    *)
(* the proof of its stop and gets no capability: the stop throws.          *)
issueCapability(p) ==
    [writer[p] EXCEPT !.established = TRUE,
                      !.state = IF @ = "stopping" THEN "issued" ELSE @]

stopFailed(p) ==
    [writer[p] EXCEPT !.established = FALSE,
                      !.state = IF @ = "stopping" THEN "stop-uncertain" ELSE @]

consumeCapability(p) ==
    /\ writer[p].state = "issued"
    /\ writer' = [writer EXCEPT ![p].state = "consuming"]

(* The snapshot callback has settled.                                      *)
snapshotSettled(p, ok) ==
    writer' = [writer EXCEPT ![p].state =
                 IF ok /\ ~writer[p].revoking THEN "consumed" ELSE "snapshot-uncertain"]

revokeWriter(p) ==
    /\ writer[p].state \in {"running", "stopping", "issued", "stop-uncertain", "consuming"}
    /\ writer' = [writer EXCEPT ![p] =
                    IF @.state = "consuming" THEN [@ EXCEPT !.revoking = TRUE]
                    ELSE [@ EXCEPT !.state = "revoked"]]

Retired(p) == [NoWriter EXCEPT !.fenced = Epoch[writer[p].a]]

(* Retired after its snapshot, or revoked with the proof of its stop.      *)
retireWriter(p) ==
    /\ \/ writer[p].state = "consumed"
       \/ writer[p].state = "revoked" /\ writer[p].established
    /\ writer' = [writer EXCEPT ![p] = Retired(p)]
=============================================================================
