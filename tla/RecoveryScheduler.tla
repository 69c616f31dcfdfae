-------------------------- MODULE RecoveryScheduler --------------------------
(***************************************************************************)
(* The scheduler that runs a recovery step, waits, and runs the next, until *)
(* it is stopped or a step fails.  `loop` is what the loop awaits: a step,  *)
(* a settled step, the interval, the cancelled or elapsed interval.         *)
(***************************************************************************)

NewScheduler == [state |-> "idle", loop |-> "none", completion |-> "none"]

\* start(): the first step has begun when it returns.
schedulerStart(s) == [s EXCEPT !.state = "running", !.loop = "step"]

\* stop(): the step is aborted and the interval cancelled; a scheduler that
\* never ran has stopped.
schedulerStop(s) ==
    CASE s.state = "idle" -> [s EXCEPT !.state = "stopped", !.completion = "resolved"]
      [] s.state = "running" ->
            [s EXCEPT !.state = "stopping",
                      !.loop = IF @ = "delay" THEN "woken" ELSE @]
      [] OTHER -> s

\* The step settles; only the observer of its receipt can make it fail.
settleStep(s, ok) ==
    [s EXCEPT !.loop = IF ok THEN "stepped" ELSE "threw",
              !.state = IF ~ok /\ @ = "running" THEN "failed" ELSE @]

\* The loop goes on after an await.
runLoop(s) ==
    IF s.loop = "threw"
    THEN [state |-> "failed", loop |-> "end", completion |-> "rejected"]
    ELSE IF s.state # "running"
    THEN [state |-> IF s.state = "stopping" THEN "stopped" ELSE s.state,
          loop |-> "end", completion |-> "resolved"]
    ELSE IF s.loop = "stepped" THEN [s EXCEPT !.loop = "delay"]
    ELSE [s EXCEPT !.loop = "step"]
=============================================================================
