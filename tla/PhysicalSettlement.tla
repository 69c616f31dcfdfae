------------------------- MODULE PhysicalSettlement -------------------------
(***************************************************************************)
(* The settlement groups through which a deployment calls the outside      *)
(* world.  An invocation has a deadline and a grace after it; a provider   *)
(* that does not settle in time is given up, which is fatal for the whole  *)
(* deployment.  A quiescent group never gives up a provider: it reports    *)
(* the failure at once but waits for the provider before it has stopped.   *)
(*                                                                         *)
(* A settlement state is a record p; the operators return the next one and *)
(* raise p.fatal where the code calls onFatal.  A work has at most one     *)
(* invocation, which it awaits: its slot.                                  *)
(***************************************************************************)
EXTENDS Naturals, FiniteSets

CONSTANTS
    Works,          \* who invokes providers: calls and the recovery step
    Groups,
    QuiescentGroups \* made by createQuiescentPhysicalCollaboratorSettlement

ASSUME SettlementAssumption == QuiescentGroups \subseteq Groups

NoGroup == "none"
Idle == [group |-> NoGroup, phase |-> "idle", pending |-> FALSE,
         time |-> "early", result |-> "none"]

NewSettlements ==
    [life   |-> [g \in Groups |-> "running"],
     stop   |-> [g \in Groups |-> "none"],
     broken |-> {},                 \* groups with a terminal failure
     slot   |-> [w \in Works |-> Idle],
     stray  |-> {},                 \* groups with a provider they gave up
     fatal  |-> FALSE]

Active(r) == r.phase \in {"accepting", "draining", "quiescing"}

\* Mutant: a quiescent group gives up its provider like any other.
GivesUp(r) == [r EXCEPT !.phase = "breached", !.result = "failure"]

\* The grace is over, or the provider broke its contract.
breachRecord(r) ==
    IF r.pending /\ r.group \in QuiescentGroups
    THEN [r EXCEPT !.phase = "quiescing"]
    ELSE [r EXCEPT !.phase = "breached", !.result = "failure"]

\* The grace of a deadline counts from the deadline, so it may be over when
\* the deadline is noticed.
beginGrace(r) ==
    IF r.time = "over" THEN breachRecord(r) ELSE [r EXCEPT !.phase = "draining"]

enforceGraceExpiry(r) ==
    IF r.phase = "draining" /\ r.time = "over" THEN breachRecord(r) ELSE r

enforceElapsedBoundaries(r) ==
    IF r.phase = "accepting" /\ r.time # "early" THEN beginGrace(r)
    ELSE enforceGraceExpiry(r)

\* A stop gives what is in time a grace of its own.
abortActive(r) ==
    LET e == enforceElapsedBoundaries(r) IN
    IF e.phase = "accepting" THEN [e EXCEPT !.phase = "draining", !.time = "early"]
    ELSE e

\* A stop that was asked for completes with the last invocation.
maybeCompleteStop(p) ==
    LET over == {g \in Groups : /\ p.stop[g] = "pending"
                                /\ \A w \in Works :
                                      p.slot[w].group = g => ~Active(p.slot[w])}
        how(g) == IF g \in p.broken THEN "rejected" ELSE "resolved"
    IN [p EXCEPT
          !.stop = [g \in Groups |-> IF g \in over THEN how(g) ELSE @[g]],
          !.life = [g \in Groups |-> IF g \notin over THEN @[g]
                                     ELSE IF g \in p.broken THEN "failed" ELSE "stopped"]]

\* The slots after a step.  A new breach fails its group and is fatal.
WithSlots(p, slots) ==
    LET failing == {"quiescing", "breached"}
        hit == {slots[w].group : w \in {v \in Works :
                  slots[v].phase \in failing /\ p.slot[v].phase \notin failing}}
    IN [p EXCEPT
          !.slot = slots,
          !.broken = @ \cup hit,
          !.life = [g \in Groups |-> IF g \in hit /\ @[g] = "running"
                                     THEN "failed" ELSE @[g]],
          !.fatal = @ \/ hit # {}]

WithSlot(p, w, r) == WithSlots(p, [p.slot EXCEPT ![w] = r])

\* stop() of the groups gs, each of which is stopped once.
stopGroups(p, gs) ==
    LET fresh == {g \in gs : p.stop[g] = "none"}
        asked == [p EXCEPT
                    !.stop = [g \in Groups |-> IF g \in fresh THEN "pending" ELSE @[g]],
                    !.life = [g \in Groups |-> IF g \in fresh /\ @[g] # "failed"
                                               THEN "stopping" ELSE @[g]]]
    IN WithSlots(asked, [w \in Works |->
                            IF p.slot[w].group \in fresh
                            THEN abortActive(p.slot[w]) ELSE p.slot[w]])

\* invoke(): the provider is started, or breaks its contract on the spot by
\* throwing or by returning what is not a promise.
invoke(p, w, g, contract) ==
    LET r == [group |-> g, phase |-> "accepting", pending |-> contract,
              time |-> "early", result |-> "none"]
    IN WithSlot(p, w, IF contract THEN r ELSE breachRecord(r))

\* The provider settles.  Too late is a failure, and when the record was given
\* up nobody is told.
observeProvider(r, ok) ==
    LET e == enforceElapsedBoundaries(r) IN
    IF ~Active(e) THEN [e EXCEPT !.pending = FALSE]
    ELSE [e EXCEPT !.phase = "done", !.pending = FALSE,
                   !.result = IF ok /\ e.phase = "accepting" THEN "success"
                              ELSE "failure"]

\* The work goes on with the result; a provider that was given up runs on.
Consumed(p, w) ==
    [p EXCEPT !.slot[w] = Idle,
              !.stray = IF p.slot[w].pending THEN @ \cup {p.slot[w].group} ELSE @]
=============================================================================
