------------------------ MODULE DetachedRestoreProofs ------------------------
(***************************************************************************)
(* One restore, whoever carries it and whatever is lost: the work of each   *)
(* stage is begun at most once, what a row records as committed happened,   *)
(* and a foreground that was told of a complete restore finds one.          *)
(*                                                                          *)
(* Two arguments carry it.  The right to begin a stage is a token: only the *)
(* claim that moves the row out of prepared hands it to a worker, nobody    *)
(* else has it, and it is given up by beginning.  And the stages are a      *)
(* chain: a row exists only behind the commit of the stage before it.       *)
(***************************************************************************)
EXTENDS DetachedRestore, TLAPS, FiniteSetTheorems

Places == {"idle", "session", "capture-row", "generation-row", "renewal", "stop", "captured",
    "resume", "resume-read", "resume-claim", "resume-publish", "resume-publishing",
    "resume-finalize", "resume-readback", "resume-mark", "reconcile", "reconcile-read",
    "reconcile-verify", "reconcile-finalize", "reconcile-mark", "generation",
    "generation-reserve", "generation-claim", "generation-reread", "generation-publish",
    "generation-publishing", "generation-finalize", "generation-committed",
    "activation-row", "launch-row", "detach", "detach-reserve", "detach-claim",
    "detach-dispatch", "detaching", "detach-finalize", "detach-block", "detach-blocked",
    "activate", "activation-reserve", "activation-guard", "activation-claim",
    "activation-read", "activation-mark", "activation-reread", "activation-provider",
    "activation-prepare", "activation-preparing", "activation-finalize",
    "activation-uncertain", "launch", "lane", "advance", "recover", "recover-read",
    "recover-mark", "recover-reread", "recover-verify", "recover-finalize", "launch-visit"}

Seen == RowStates \cup {"stop", "generation", "fresh", "workflow", "dispatched"}

CallRecords ==
    [call : CallKinds \cup {"none"}, at : Places, inside : Guarded \cup {"none"},
     saw : RowStates, seen : Seen, granted : BOOLEAN, spare : BOOLEAN,
     lane : Lanes \cup {"none"}, after : 0 .. Ours, next : 0 .. Ours]

Typed ==
    /\ row \in [Stages -> RowStates]
    /\ effect \in [Guarded -> {"none", "begun", "done"}]
    /\ dispatched \in [Guarded -> {0, 1}]
    /\ guard \in [Guarded -> Workers \cup {Free}]
    /\ lifecycle \in [shared : SUBSET Workers, exclusive : Workers \cup {Free}]
    /\ worker \in [Workers -> CallRecords]
    /\ faults \in 0 .. MaxFaults
    /\ told \in BOOLEAN
    /\ cursor \in [Lanes -> 0 .. Ours]
    /\ deployment \in Deployments

\* The token: the call r may begin the work of stage s.
MayBegin(r, s) ==
    \/ s = "capture" /\ r.at = "resume-publish"
    \/ s = "generation" /\ r.at = "generation-publish" /\ r.granted
    \/ s = "detach" /\ r.at = "detach-dispatch"
    \/ s = "activation" /\ \/ r.at = "activation-prepare"
                           \/ r.at = "activation-provider" /\ r.granted /\ r.saw = "starting"

\* The row of a stage that nobody was given the token of.
Unclaimed == {"absent", "prepared"}

\* Where a call may remember that it was granted a dispatch.
GrantedPlaces ==
    {"generation-publish", "generation-publishing", "generation-finalize",
     "generation-committed", "activation-provider", "activation-prepare",
     "activation-preparing", "activation-finalize", "activation-uncertain"}

\* Where a call finalises a stage, it knows that the work of it is done.
Finalizes(r, s) ==
    \/ s = "capture" /\ r.at \in {"resume-finalize", "reconcile-finalize"}
    \/ s = "generation" /\ r.at \in {"generation-finalize", "recover-finalize"}
    \/ s = "detach" /\ r.at = "detach-finalize"
    \/ s = "activation" /\ r.at = "activation-finalize"

\* Where a call is between the commit of a stage and the reservation of the next.
Follows(r, s) ==
    \/ s = "capture" /\ \/ r.at \in {"generation", "generation-reserve"}
                        \/ r.at = "generation-row" /\ r.saw \in CommittedStates
    \/ s = "generation" /\ r.at \in {"activation-row", "launch-row", "detach",
                                     "detach-reserve"}

Knows(r) ==
    /\ r.granted => r.at \in GrantedPlaces
    /\ r.at = "lane" => r.lane \in Lanes
    /\ \A s \in Guarded : /\ Finalizes(r, s) => effect[s] = "done"
                          /\ Follows(r, s) => Committed(s)
                          /\ MayBegin(r, s) => row[s] \notin Unclaimed /\ dispatched[s] = 0

\* A stage has a row only behind the commit of the stage before it.
Chain ==
    /\ row["stop"] = "absent" => row["capture"] = "absent"
    /\ row["generation"] # "absent" => Committed("capture")
    /\ row["detach"] # "absent" => Committed("generation")
    /\ row["activation"] # "absent" => Committed("detach")
    /\ row["launch"] # "absent" => Committed("activation")
    /\ told => Committed("launch")

RestoreInv ==
    /\ Typed /\ Chain
    /\ \A w \in Workers : Knows(worker[w])
    /\ \A s \in Guarded :
         /\ row[s] \in Unclaimed => dispatched[s] = 0
         /\ Committed(s) => effect[s] = "done"
         /\ \A v, w \in Workers : MayBegin(worker[v], s) /\ MayBegin(worker[w], s) => v = w

--------------------------------------------------------------------------------
(* A step of a worker: the rows it leaves, the call it goes on with. *)

\* The rows new may follow the rows of now, with the work eff done.
Succeeds(new, eff) ==
    /\ new \in [Stages -> RowStates]
    /\ eff \in [Guarded -> {"none", "begun", "done"}]
    /\ new["stop"] = "absent" => new["capture"] = "absent"
    /\ new["generation"] # "absent" => new["capture"] \in CommittedStates
    /\ new["detach"] # "absent" => new["generation"] \in CommittedStates
    /\ new["activation"] # "absent" => new["detach"] \in CommittedStates
    /\ new["launch"] # "absent" => new["activation"] \in CommittedStates
    /\ row["launch"] \in CommittedStates => new["launch"] \in CommittedStates
    /\ \A s \in Guarded :
         /\ row[s] \in CommittedStates => new[s] \in CommittedStates
         /\ row[s] \notin Unclaimed => new[s] \notin Unclaimed
         /\ new[s] \in CommittedStates => eff[s] = "done"
         /\ effect[s] = "done" => eff[s] = "done"

\* The call next may follow that of worker w, with the rows new and the work eff.
Fits(w, next, new, eff) ==
    /\ next \in CallRecords
    /\ next.granted => next.at \in GrantedPlaces
    /\ next.at = "lane" => next.lane \in Lanes
    /\ \A s \in Guarded :
         /\ Finalizes(next, s) => eff[s] = "done"
         /\ Follows(next, s) => new[s] \in CommittedStates
         /\ MayBegin(next, s) => /\ MayBegin(worker[w], s) \/ row[s] = "prepared"
                                 /\ new[s] \notin Unclaimed

Moves(w) ==
    \E next \in CallRecords :
        /\ worker' = [worker EXCEPT ![w] = next]
        /\ Succeeds(row', effect')
        /\ Fits(w, next, row', effect')
        /\ Typed'
        /\ told' => row'["launch"] \in CommittedStates
        /\ \A s \in Guarded : dispatched'[s] # dispatched[s] =>
              MayBegin(worker[w], s) /\ ~MayBegin(next, s)

LEMMA MovesKeep ==
    ASSUME RestoreInv, NEW w \in Workers, Moves(w)
    PROVE  RestoreInv'
<1>1. PICK next \in CallRecords :
        /\ worker' = [worker EXCEPT ![w] = next]
        /\ Succeeds(row', effect')
        /\ Fits(w, next, row', effect')
        /\ Typed'
        /\ told' => row'["launch"] \in CommittedStates
        /\ \A s \in Guarded : dispatched'[s] # dispatched[s] =>
              MayBegin(worker[w], s) /\ ~MayBegin(next, s)
  BY DEF Moves
<1>2. /\ worker'[w] = next
      /\ \A v \in Workers : v # w => worker'[v] = worker[v]
  BY <1>1 DEF RestoreInv, Typed
<1>3. Chain' BY <1>1 DEF Chain, Succeeds, Committed
<1>4. \A s \in Guarded :
        /\ row'[s] \in Unclaimed => dispatched'[s] = 0
        /\ Committed(s)' => effect'[s] = "done"
  BY <1>1 DEF RestoreInv, Succeeds, Committed, Knows
<1>5. \A s \in Guarded : MayBegin(next, s) =>
        /\ dispatched'[s] = 0 /\ row'[s] \notin Unclaimed
        /\ \A v \in Workers : v # w => ~MayBegin(worker[v], s)
  <2> SUFFICES ASSUME NEW s \in Guarded, MayBegin(next, s)
               PROVE  /\ dispatched'[s] = 0 /\ row'[s] \notin Unclaimed
                      /\ \A v \in Workers : v # w => ~MayBegin(worker[v], s)
    OBVIOUS
  <2>1. dispatched'[s] = dispatched[s] /\ row'[s] \notin Unclaimed BY <1>1 DEF Fits
  <2>2. CASE MayBegin(worker[w], s) BY <2>1, <2>2 DEF RestoreInv, Knows
  <2>3. CASE row[s] = "prepared" BY <2>1, <2>3 DEF RestoreInv, Knows, Unclaimed
  <2> QED BY <1>1, <2>2, <2>3 DEF Fits
<1>6. \A v \in Workers : v # w => Knows(worker[v])'
  <2> SUFFICES ASSUME NEW v \in Workers, v # w PROVE Knows(worker[v])'
    OBVIOUS
  <2>1. Knows(worker[v]) /\ worker'[v] = worker[v] BY <1>2 DEF RestoreInv
  <2>2. \A s \in Guarded : MayBegin(worker[v], s) => dispatched'[s] = dispatched[s]
    BY <1>1 DEF RestoreInv
  <2> QED BY <1>1, <2>1, <2>2 DEF Knows, Succeeds, Committed
<1>7. Knows(worker[w])' BY <1>1, <1>2, <1>5 DEF Knows, Fits, Committed
<1>8. \A s \in Guarded : \A u, v \in Workers :
        MayBegin(worker[u], s)' /\ MayBegin(worker[v], s)' => u = v
  <2> SUFFICES ASSUME NEW s \in Guarded, NEW u \in Workers, NEW v \in Workers,
                      MayBegin(worker'[u], s), MayBegin(worker'[v], s)
               PROVE  u = v
    BY DEF MayBegin
  <2> QED BY <1>2, <1>5 DEF RestoreInv
<1> QED BY <1>1, <1>3, <1>4, <1>6, <1>7, <1>8 DEF RestoreInv

--------------------------------------------------------------------------------
(* The procedures that every step is made of. *)

\* What is known of worker w before its step.
LEMMA Known ==
    ASSUME RestoreInv, NEW w \in Workers
    PROVE  worker[w] \in CallRecords /\ Knows(worker[w]) /\ w # Free
BY RestoreAssumption DEF RestoreInv, Typed

LEMMA NoCallRecord ==
    /\ NoCall \in CallRecords /\ NoCall.at = "idle" /\ NoCall.granted = FALSE
<1>1. "idle" \in Places BY DEF Places
<1> QED BY <1>1 DEF NoCall, CallRecords, Seen, RowStates, Ours

LEMMA NoCallFits ==
    ASSUME NEW w \in Workers, NEW new, NEW eff
    PROVE  Fits(w, NoCall, new, eff)
BY NoCallRecord DEF Fits, Finalizes, Follows, MayBegin

LEMMA RowsSucceed ==
    ASSUME RestoreInv
    PROVE  Succeeds(row, effect)
BY DEF RestoreInv, Typed, Chain, Succeeds, Committed

\* A call that fits the rows as they are fits those that may follow them.
LEMMA FitsLater ==
    ASSUME NEW w \in Workers, NEW next, NEW new, NEW eff,
           Fits(w, next, row, effect), Succeeds(new, eff)
    PROVE  Fits(w, next, new, eff)
BY DEF Fits, Succeeds

LEMMA ToMoves ==
    ASSUME RestoreInv, NEW w \in Workers, NEW next,
           To(w, next), Fits(w, next, row', effect'), Succeeds(row', effect'),
           dispatched' \in [Guarded -> {0, 1}], faults' \in 0 .. MaxFaults,
           told' \in BOOLEAN, told' => row'["launch"] \in CommittedStates,
           cursor' \in [Lanes -> 0 .. Ours], deployment' = deployment,
           \A s \in Guarded : dispatched'[s] # dispatched[s] =>
               MayBegin(worker[w], s) /\ ~MayBegin(next, s)
    PROVE  Moves(w)
<1>1. next \in CallRecords BY DEF Fits
<1>2. worker' \in [Workers -> CallRecords] /\ worker' = [worker EXCEPT ![w] = next]
  BY <1>1 DEF To, RestoreInv, Typed
<1>3. guard' \in [Guarded -> Workers \cup {Free}] BY DEF To, RestoreInv, Typed
<1>4. lifecycle' \in [shared : SUBSET Workers, exclusive : Workers \cup {Free}]
  <2>1. lifecycle \in [shared : SUBSET Workers, exclusive : Workers \cup {Free}]
    BY DEF RestoreInv, Typed
  <2> QED BY <2>1 DEF To
<1>5. Typed' BY <1>2, <1>3, <1>4 DEF Typed, RestoreInv, Succeeds
<1> QED BY <1>1, <1>2, <1>5 DEF Moves

\* A fault leaves the counter within its bound.
LEMMA FaultCounts ==
    ASSUME RestoreInv, Fault \/ UNCHANGED faults
    PROVE  faults' \in 0 .. MaxFaults
BY RestoreAssumption DEF RestoreInv, Typed, Fault

LEMMA TransactMoves ==
    ASSUME RestoreInv, NEW w \in Workers, NEW new, NEW answered, NEW lost,
           Transact(w, new, answered, lost), Succeeds(new, effect),
           Fits(w, answered, new, effect), Fits(w, lost, row, effect)
    PROVE  Moves(w)
<1>1. UNCHANGED <<effect, dispatched, told, sweep>> /\ (Fault \/ UNCHANGED faults)
  BY DEF Transact
<1>2. faults' \in 0 .. MaxFaults BY <1>1, FaultCounts
<1>3. Succeeds(row', effect') BY <1>1, RowsSucceed DEF Transact
<1>4. \/ To(w, answered) /\ Fits(w, answered, row', effect')
      \/ To(w, lost) /\ Fits(w, lost, row', effect')
  BY <1>1, <1>3, FitsLater DEF Transact
<1>5. told' => row'["launch"] \in CommittedStates
  BY <1>1, <1>3 DEF Succeeds, RestoreInv, Chain, Committed
<1> QED BY <1>1, <1>2, <1>3, <1>4, <1>5, ToMoves DEF RestoreInv, Typed, sweep

LEMMA QueryMoves ==
    ASSUME RestoreInv, NEW w \in Workers, NEW answered, NEW lost,
           Query(w, answered, lost),
           Fits(w, answered, row, effect), Fits(w, lost, row, effect)
    PROVE  Moves(w)
BY RowsSucceed, TransactMoves DEF Query

LEMMA OnlyMoves ==
    ASSUME RestoreInv, NEW w \in Workers, NEW next,
           Only(w, next), Fits(w, next, row, effect)
    PROVE  Moves(w)
<1>1. To(w, next) /\ UNCHANGED <<row, effect, dispatched, faults, told, sweep>> BY DEF Only
<1>2. Succeeds(row', effect') /\ Fits(w, next, row', effect') BY <1>1, RowsSucceed
<1> QED BY <1>1, <1>2, ToMoves DEF RestoreInv, Typed, sweep, Chain, Committed

LEMMA TakesGuardMoves ==
    ASSUME RestoreInv, NEW w \in Workers, NEW s \in Guarded, NEW place, NEW busy,
           TakesGuard(w, s, place, busy),
           Fits(w, [worker[w] EXCEPT !.at = place, !.inside = s], row, effect),
           Fits(w, busy, row, effect)
    PROVE  Moves(w)
<1> DEFINE next == [worker[w] EXCEPT !.at = place, !.inside = s]
<1>1. CASE guard[s] = Free
  <2>1. /\ worker' = [worker EXCEPT ![w] = next]
        /\ guard' = [guard EXCEPT ![s] = w]
        /\ UNCHANGED <<lifecycle, row, effect, dispatched, faults, told, sweep>>
    BY <1>1 DEF TakesGuard
  <2>2. Succeeds(row', effect') /\ Fits(w, next, row', effect') BY <2>1, RowsSucceed
  <2>3. next \in CallRecords BY <2>2 DEF Fits
  <2> HIDE DEF next
  <2>4. Typed' BY <2>1, <2>3 DEF RestoreInv, Typed, sweep
  <2> QED BY <2>1, <2>2, <2>3, <2>4 DEF Moves, RestoreInv, Chain, Committed
<1>2. CASE guard[s] # Free
  <2>1. Only(w, busy) BY <1>2 DEF TakesGuard, Only
  <2> QED BY <2>1, OnlyMoves
<1> QED BY <1>1, <1>2

LEMMA BeginMoves ==
    ASSUME RestoreInv, NEW w \in Workers, NEW s \in Guarded, NEW next,
           Begin(w, s, next), MayBegin(worker[w], s), ~MayBegin(next, s),
           Fits(w, next, row, effect)
    PROVE  Moves(w)
<1>1. /\ To(w, next) /\ UNCHANGED <<row, faults, told, sweep>>
      /\ effect' = [effect EXCEPT ![s] = IF effect[s] = "none" THEN "begun" ELSE effect[s]]
      /\ dispatched' = [dispatched EXCEPT
                          ![s] = IF dispatched[s] < 2 THEN dispatched[s] + 1 ELSE dispatched[s]]
  BY DEF Begin
<1>2. dispatched[s] = 0 BY DEF RestoreInv, Knows
<1>3. dispatched' = [dispatched EXCEPT ![s] = 1] BY <1>1, <1>2
<1>4. Succeeds(row', effect') BY <1>1, RowsSucceed DEF Succeeds
<1>5. Fits(w, next, row', effect') BY <1>4, FitsLater
<1>6. /\ dispatched' \in [Guarded -> {0, 1}]
      /\ \A t \in Guarded : dispatched'[t] # dispatched[t] => t = s
  BY <1>3 DEF RestoreInv, Typed
<1>7. told' => row'["launch"] \in CommittedStates BY <1>1 DEF RestoreInv, Chain, Committed
<1>8. \A t \in Guarded : dispatched'[t] # dispatched[t] =>
        MayBegin(worker[w], t) /\ ~MayBegin(next, t)
  BY <1>6
<1>9. /\ faults' \in 0 .. MaxFaults /\ told' \in BOOLEAN
      /\ cursor' \in [Lanes -> 0 .. Ours] /\ deployment' = deployment
  BY <1>1 DEF RestoreInv, Typed, sweep
<1> QED BY <1>1, <1>4, <1>5, <1>6, <1>7, <1>8, <1>9, ToMoves

LEMMA FinishMoves ==
    ASSUME RestoreInv, NEW w \in Workers, NEW s \in Guarded, NEW answered, NEW failed,
           Finish(w, s, answered, failed),
           Fits(w, answered, row, [effect EXCEPT ![s] = "done"]),
           Fits(w, failed, row, effect)
    PROVE  Moves(w)
<1> DEFINE done == [effect EXCEPT ![s] = "done"]
<1>1. /\ UNCHANGED <<row, dispatched, told, sweep>>
      /\ Fault \/ UNCHANGED faults
      /\ \/ effect' = done /\ To(w, answered)
         \/ effect' \in {effect, done} /\ To(w, failed)
  BY DEF Finish
<1>2. faults' \in 0 .. MaxFaults BY <1>1, FaultCounts
<1>3. Succeeds(row, effect) /\ Succeeds(row, done) BY RowsSucceed DEF Succeeds
<1>4. \/ To(w, answered) /\ Fits(w, answered, row', effect')
      \/ To(w, failed) /\ Fits(w, failed, row', effect')
  BY <1>1, <1>3, FitsLater
<1> HIDE DEF done
<1>5. Succeeds(row', effect') BY <1>1, <1>3
<1> QED BY <1>1, <1>2, <1>4, <1>5, ToMoves DEF RestoreInv, Typed, sweep, Chain, Committed

--------------------------------------------------------------------------------
(* The calls that a step goes on with. *)

\* Where a call knows or may do something; elsewhere any call fits.
Special ==
    {"generation-row", "resume-publish", "resume-finalize", "reconcile-finalize", "generation",
     "generation-reserve", "generation-publish", "generation-finalize", "activation-row",
     "launch-row", "detach", "detach-reserve", "detach-dispatch", "detach-finalize",
     "activation-provider", "activation-prepare", "activation-finalize", "recover-finalize", "lane"}

LEMMA PlainFits ==
    ASSUME NEW w \in Workers, NEW new, NEW eff, NEW next \in CallRecords,
           next.at \notin Special, next.granted => next.at \in GrantedPlaces
    PROVE  Fits(w, next, new, eff)
BY DEF Fits, Special, Finalizes, Follows, MayBegin

LEMMA GoRecord ==
    ASSUME NEW w \in Workers, worker[w] \in CallRecords, NEW place \in Places
    PROVE  /\ Go(w, place) \in CallRecords
           /\ Go(w, place).at = place /\ Go(w, place).granted = worker[w].granted
           /\ Go(w, place).saw = worker[w].saw
           /\ \A saw \in RowStates :
                /\ [Go(w, place) EXCEPT !.saw = saw] \in CallRecords
                /\ [Go(w, place) EXCEPT !.saw = saw].at = place
                /\ [Go(w, place) EXCEPT !.saw = saw].saw = saw
                /\ [Go(w, place) EXCEPT !.saw = saw].granted = worker[w].granted
           /\ \A seen \in Seen :
                /\ [Go(w, place) EXCEPT !.seen = seen] \in CallRecords
                /\ [Go(w, place) EXCEPT !.seen = seen].at = place
                /\ [Go(w, place) EXCEPT !.seen = seen].granted = worker[w].granted
BY DEF Go, CallRecords

LEMMA OutRecord ==
    ASSUME NEW w \in Workers, worker[w] \in CallRecords, NEW place \in Places
    PROVE  /\ Out(w, place) \in CallRecords
           /\ Out(w, place).at = place /\ Out(w, place).granted = FALSE
           /\ \A saw \in RowStates :
                /\ [Out(w, place) EXCEPT !.saw = saw] \in CallRecords
                /\ [Out(w, place) EXCEPT !.saw = saw].at = place
                /\ [Out(w, place) EXCEPT !.saw = saw].granted = FALSE
           /\ \A seen \in Seen :
                /\ [Out(w, place) EXCEPT !.seen = seen] \in CallRecords
                /\ [Out(w, place) EXCEPT !.seen = seen].at = place
                /\ [Out(w, place) EXCEPT !.seen = seen].granted = FALSE
BY DEF Out, CallRecords, RowStates

LEMMA SpareRecord ==
    ASSUME NEW next \in CallRecords, NEW spare \in BOOLEAN
    PROVE  /\ [next EXCEPT !.spare = spare] \in CallRecords
           /\ [next EXCEPT !.spare = spare].at = next.at
           /\ [next EXCEPT !.spare = spare].granted = next.granted
           /\ [next EXCEPT !.spare = spare].saw = next.saw
BY DEF CallRecords

LEMMA GoFits ==
    ASSUME RestoreInv, NEW w \in Workers, NEW new, NEW eff, NEW place \in Places \ Special,
           worker[w].granted => place \in GrantedPlaces
    PROVE  Fits(w, Go(w, place), new, eff)
BY Known, GoRecord, PlainFits

LEMMA OutFits ==
    ASSUME RestoreInv, NEW w \in Workers, NEW new, NEW eff, NEW place \in Places \ Special
    PROVE  Fits(w, Out(w, place), new, eff)
BY Known, OutRecord, PlainFits

LEMMA KeptFits ==
    ASSUME NEW w \in Workers, NEW new, NEW eff, NEW next, Fits(w, next, new, eff)
    PROVE  Fits(w, Kept(w, next), new, eff) /\ Fits(w, KeptBoth(w, next), new, eff)
BY NoCallFits DEF Kept, KeptBoth

LEMMA HeldOrFits ==
    ASSUME NEW w \in Workers, NEW new, NEW eff, NEW next, NEW otherwise,
           Fits(w, next, new, eff), Fits(w, otherwise, new, eff)
    PROVE  Fits(w, HeldOr(w, next, otherwise), new, eff)
BY DEF HeldOr

--------------------------------------------------------------------------------
(* The foreground up to the capture. *)

LEMMA ReadSessionMoves ==
    ASSUME RestoreInv, NEW w \in Workers, ReadSession(w)
    PROVE  Moves(w)
<1>1. SessionView \in Seen BY DEF SessionView, Seen
<1> DEFINE next == [Go(w, "capture-row") EXCEPT !.seen = SessionView]
<1>2. ~worker[w].granted BY Known DEF ReadSession, At, Knows, GrantedPlaces
<1>3. next \in CallRecords /\ next.at = "capture-row" /\ ~next.granted
  BY <1>1, <1>2, Known, GoRecord DEF Places
<1> HIDE DEF next
<1>4. Fits(w, next, row, effect) BY <1>3, PlainFits DEF Special
<1> QED BY <1>4, NoCallFits, QueryMoves DEF ReadSession, next

LEMMA ReadCaptureMoves ==
    ASSUME RestoreInv, NEW w \in Workers, ReadCapture(w)
    PROVE  Moves(w)
<1> DEFINE next == [Go(w, "generation-row") EXCEPT !.saw = row["capture"]]
<1>1. row["capture"] \in RowStates BY DEF RestoreInv, Typed, Stages, Guarded
<1>2. /\ next \in CallRecords /\ next.at = "generation-row" /\ ~next.granted
      /\ next.saw = row["capture"]
  BY SMTT(30), <1>1, Known, GoRecord DEF ReadCapture, At, Knows, GrantedPlaces, Places
<1> HIDE DEF next
<1>3. Fits(w, next, row, effect) BY <1>2 DEF Fits, Finalizes, Follows, MayBegin
<1> QED BY <1>3, NoCallFits, QueryMoves DEF ReadCapture, next

LEMMA ReadGenerationMoves ==
    ASSUME RestoreInv, NEW w \in Workers, ReadGeneration(w)
    PROVE  Moves(w)
<1> DEFINE generation == IF row["generation"] = "prepared" THEN "absent" ELSE row["generation"]
           next == [Go(w, "generation") EXCEPT !.saw = generation]
<1>1. generation \in RowStates BY DEF RestoreInv, Typed, Stages, Guarded, RowStates
<1> HIDE DEF generation
<1>2. worker[w].at = "generation-row" /\ ~worker[w].granted
  BY Known DEF ReadGeneration, At, Knows, GrantedPlaces
<1>3. ASSUME worker[w].saw \in CommittedStates
      PROVE  Fits(w, next, row, effect)
  <2>1. next \in CallRecords /\ next.at = "generation" /\ ~next.granted
    BY <1>1, <1>2, Known, GoRecord DEF Places
  <2> HIDE DEF next
  <2>2. Committed("capture") BY <1>2, <1>3, Known DEF Knows, Follows, Guarded
  <2> QED BY <2>1, <2>2 DEF Fits, Finalizes, Follows, MayBegin, Committed
<1>4. Fits(w, Go(w, "renewal"), row, effect) BY <1>2, GoFits DEF Places, Special
<1>5. /\ Fits(w, Kept(w, Out(w, "resume")), row, effect)
      /\ Fits(w, Kept(w, Out(w, "reconcile")), row, effect)
  BY OutFits, KeptFits DEF Places, Special
<1>6. Fits(w, Plan(w, generation), row, effect) BY <1>3, <1>4, <1>5, NoCallFits DEF Plan
<1> QED BY <1>6, NoCallFits, QueryMoves DEF ReadGeneration, generation

\* The row of a stage that is not guarded may be settled at any time.
LEMMA RenewMoves ==
    ASSUME RestoreInv, NEW w \in Workers, Renew(w)
    PROVE  Moves(w)
<1>1. Succeeds(With("renewal", "settled"), effect)
  BY RowsSucceed DEF Succeeds, With, Stages, Guarded, RowStates, CommittedStates
<1>2. Fits(w, Go(w, "stop"), With("renewal", "settled"), effect)
  BY Known, GoFits DEF Renew, At, Knows, GrantedPlaces, Places, Special
<1> QED BY <1>1, <1>2, KeptFits, NoCallFits, TransactMoves, OnlyMoves DEF Renew

LEMMA StopForCaptureMoves ==
    ASSUME RestoreInv, NEW w \in Workers, StopForCapture(w)
    PROVE  Moves(w)
<1> DEFINE handed == [row EXCEPT !["stop"] = "settled", !["capture"] = "prepared"]
           next == [Out(w, "resume") EXCEPT !.spare = TRUE]
<1>1. CASE Active = {} /\ row["stop"] = "absent"
  <2>1. row["capture"] = "absent" BY <1>1 DEF RestoreInv, Chain
  <2>2. /\ Succeeds(row, effect) /\ Succeeds(handed, effect)
        /\ Succeeds(With("stop", "uncertain"), effect)
    BY <1>1, <2>1, RowsSucceed DEF Succeeds, With, Stages, Guarded, RowStates,
       CommittedStates, ActiveStates, Unclaimed
  <2>3. Fits(w, next, handed, effect)
    <3> HIDE DEF handed
    <3> DEFINE out == Out(w, "resume")
    <3>0. "resume" \in Places BY DEF Places
    <3>1. out \in CallRecords /\ out.at = "resume" /\ ~out.granted BY <3>0, Known, OutRecord
    <3> HIDE DEF out
    <3>2. next \in CallRecords /\ next.at = "resume" /\ ~next.granted
      BY <3>1, SpareRecord DEF out
    <3> HIDE DEF next
    <3> QED BY <3>2, PlainFits DEF Special
  <2>4. /\ UNCHANGED <<effect, dispatched, told, sweep>> /\ (Fault \/ UNCHANGED faults)
        /\ row' \in {row, With("stop", "uncertain"), handed}
        /\ \/ To(w, next) /\ row' = handed
           \/ To(w, NoCall)
    BY <1>1 DEF StopForCapture
  <2> HIDE DEF handed, next
  <2>5. Succeeds(row', effect') /\ faults' \in 0 .. MaxFaults BY <2>2, <2>4, FaultCounts
  <2>6. \/ To(w, next) /\ Fits(w, next, row', effect')
        \/ To(w, NoCall) /\ Fits(w, NoCall, row', effect')
    BY <2>3, <2>4, NoCallFits
  <2>7. told' => row'["launch"] \in CommittedStates
    BY <2>4, <2>5 DEF Succeeds, RestoreInv, Chain, Committed
  <2> QED BY <2>4, <2>5, <2>6, <2>7, ToMoves DEF RestoreInv, Typed, sweep
<1>2. CASE ~(Active = {} /\ row["stop"] = "absent")
  BY <1>2, NoCallFits, OnlyMoves DEF StopForCapture
<1> QED BY <1>1, <1>2

LEMMA CapturedMoves ==
    ASSUME RestoreInv, NEW w \in Workers, Captured(w)
    PROVE  Moves(w)
<1>1. ASSUME Committed("capture")
      PROVE  Fits(w, Out(w, "generation"), row, effect)
  <2>1. "generation" \in Places BY DEF Places
  <2>2. /\ Out(w, "generation") \in CallRecords
        /\ Out(w, "generation").at = "generation" /\ ~Out(w, "generation").granted
    BY <2>1, Known, OutRecord
  <2> QED BY <1>1, <2>2 DEF Fits, Finalizes, Follows, MayBegin, Committed
<1> QED BY <1>1, NoCallFits, QueryMoves DEF Captured

--------------------------------------------------------------------------------
(* The mutation authority. *)

\* Where the capture leads once it is settled, or given up.
LEMMA CaptureEndFits ==
    ASSUME RestoreInv, NEW w \in Workers, NEW new, NEW eff
    PROVE  Fits(w, CaptureDone(w), new, eff) /\ Fits(w, CaptureFailed(w), new, eff)
<1>1. "captured" \in Places \ Special /\ "reconcile" \in Places \ Special
  BY DEF Places, Special
<1> DEFINE done == Out(w, "captured")  failed == Out(w, "reconcile")
<1>2. /\ done \in CallRecords /\ done.at \notin Special /\ ~done.granted
      /\ failed \in CallRecords /\ failed.at \notin Special /\ ~failed.granted
  BY <1>1, Known, OutRecord
<1> HIDE DEF done, failed
<1>3. /\ Fits(w, [done EXCEPT !.spare = FALSE], new, eff)
      /\ Fits(w, [failed EXCEPT !.spare = FALSE], new, eff)
  BY <1>2, SpareRecord, PlainFits
<1> QED BY <1>3, KeptFits, NoCallFits DEF CaptureDone, CaptureFailed, done, failed

LEMMA EnterResumeMoves ==
    ASSUME RestoreInv, NEW w \in Workers, EnterResume(w)
    PROVE  Moves(w)
<1> DEFINE next == [worker[w] EXCEPT !.at = "resume-read", !.inside = "capture"]
<1>1. ~worker[w].granted BY Known DEF EnterResume, At, Knows, GrantedPlaces
<1>2. "resume-read" \in Places BY DEF Places
<1>3. next \in CallRecords /\ next.at = "resume-read" /\ ~next.granted
  BY <1>1, <1>2, Known DEF CallRecords, Guarded
<1> HIDE DEF next
<1>4. Fits(w, next, row, effect) BY <1>3, PlainFits DEF Special
<1> QED BY <1>4, CaptureEndFits, TakesGuardMoves DEF EnterResume, next, Guarded

LEMMA ResumeReadMoves ==
    ASSUME RestoreInv, NEW w \in Workers, ResumeRead(w)
    PROVE  Moves(w)
<1>1. Fits(w, Go(w, "resume-claim"), row, effect)
  BY Known, GoFits DEF ResumeRead, At, Knows, GrantedPlaces, Places, Special
<1> QED BY <1>1, CaptureEndFits, HeldOrFits, QueryMoves DEF ResumeRead

\* A claim moves a prepared row on, and nothing else.
LEMMA ClaimedSucceeds ==
    ASSUME RestoreInv, NEW s \in Guarded
    PROVE  /\ Succeeds(Claimed(s), effect)
           /\ row[s] = "prepared" => Claimed(s)[s] = "starting"
           /\ row[s] # "prepared" => Claimed(s)[s] = row[s]
           /\ Claimed(s)[s] \in RowStates
BY RowsSucceed DEF RestoreInv, Typed, Succeeds, Claimed, With, Stages, Guarded, RowStates,
   ActiveStates, CommittedStates, Unclaimed

LEMMA MarkedSucceeds ==
    ASSUME RestoreInv, NEW s \in Guarded
    PROVE  Succeeds(MarkedUncertain(s), effect)
BY RowsSucceed DEF RestoreInv, Typed, Succeeds, MarkedUncertain, With, Stages, Guarded,
   RowStates, ActiveStates, CommittedStates, Unclaimed

LEMMA ResumeClaimMoves ==
    ASSUME RestoreInv, NEW w \in Workers, ResumeClaim(w)
    PROVE  Moves(w)
<1>0. ~worker[w].granted BY Known DEF ResumeClaim, At, Knows, GrantedPlaces
<1>1. ASSUME Granted("capture")
      PROVE  Fits(w, Go(w, "resume-publish"), Claimed("capture"), effect)
  <2> DEFINE next == Go(w, "resume-publish")
  <2>1. "resume-publish" \in Places BY DEF Places
  <2>2. next \in CallRecords /\ next.at = "resume-publish" /\ ~next.granted
    BY <1>0, <2>1, Known, GoRecord
  <2> HIDE DEF next
  <2>3. row["capture"] = "prepared" /\ Claimed("capture")["capture"] = "starting"
    BY <1>1, ClaimedSucceeds DEF Granted, Guarded
  <2>4. Fits(w, next, Claimed("capture"), effect)
    BY <2>2, <2>3 DEF Fits, Finalizes, Follows, MayBegin, Unclaimed
  <2> QED BY <2>4 DEF next
<1>2. Fits(w, Go(w, "resume-mark"), Claimed("capture"), effect)
  BY <1>0, GoFits DEF Places, Special
<1> QED BY <1>1, <1>2, ClaimedSucceeds, CaptureEndFits, HeldOrFits, TransactMoves DEF
  ResumeClaim, Guarded

LEMMA ResumePublishMoves ==
    ASSUME RestoreInv, NEW w \in Workers, ResumePublish(w)
    PROVE  Moves(w)
<1> DEFINE next == Go(w, "resume-publishing")
<1>1. /\ worker[w].at = "resume-publish" /\ ~worker[w].granted
      /\ MayBegin(worker[w], "capture")
  BY Known DEF ResumePublish, At, Knows, GrantedPlaces, MayBegin
<1>2. "resume-publishing" \in Places BY DEF Places
<1>3. next \in CallRecords /\ next.at = "resume-publishing" /\ ~next.granted
  BY <1>1, <1>2, Known, GoRecord
<1> HIDE DEF next
<1>4. Fits(w, next, row, effect) /\ ~MayBegin(next, "capture")
  BY <1>3, PlainFits DEF Special, MayBegin
<1> QED BY <1>1, <1>4, BeginMoves DEF ResumePublish, next, Guarded

LEMMA ResumePublishedMoves ==
    ASSUME RestoreInv, NEW w \in Workers, ResumePublished(w)
    PROVE  Moves(w)
<1> DEFINE next == Go(w, "resume-finalize")
           done == [effect EXCEPT !["capture"] = "done"]
<1>0. ~worker[w].granted BY Known DEF ResumePublished, At, Knows, GrantedPlaces
<1>1. "resume-finalize" \in Places BY DEF Places
<1>2. next \in CallRecords /\ next.at = "resume-finalize" /\ ~next.granted
  BY <1>0, <1>1, Known, GoRecord
<1>3. done["capture"] = "done" BY DEF RestoreInv, Typed, Guarded
<1> HIDE DEF next, done
<1>4. Fits(w, next, row, done) BY <1>2, <1>3 DEF Fits, Finalizes, Follows, MayBegin
<1>5. /\ Fits(w, Go(w, "resume-mark"), row, done)
      /\ Fits(w, Go(w, "resume-mark"), row, effect)
  BY <1>0, GoFits DEF Places, Special
<1> QED BY <1>4, <1>5, HeldOrFits, FinishMoves DEF ResumePublished, next, done, Guarded

\* A finalisation of a stage whose work is done.
LEMMA SettledSucceeds ==
    ASSUME RestoreInv, NEW s \in Guarded, NEW state \in CommittedStates,
           row[s] \notin Unclaimed, effect[s] = "done"
    PROVE  Succeeds(With(s, state), effect)
BY RowsSucceed DEF RestoreInv, Typed, Succeeds, With, Stages, Guarded, RowStates,
   CommittedStates, Unclaimed

LEMMA FinalizableRow ==
    ASSUME NEW s \in Guarded, NEW from, Finalizable(s, from)
    PROVE  row[s] \notin Unclaimed /\ Settled(from) \in CommittedStates
BY DEF Finalizable, Settled, Unclaimed, CommittedStates

LEMMA ResumeFinalizeMoves ==
    ASSUME RestoreInv, NEW w \in Workers, ResumeFinalize(w)
    PROVE  Moves(w)
<1>1. effect["capture"] = "done" /\ ~worker[w].granted
  BY Known DEF ResumeFinalize, At, Knows, Finalizes, Guarded, GrantedPlaces
<1>2. /\ Fits(w, Go(w, "resume-readback"), row, effect) BY <1>1, GoFits DEF Places, Special
<1>3. ASSUME Finalizable("capture", "starting")
      PROVE  Succeeds(With("capture", "settled"), effect)
  BY <1>1, <1>3, FinalizableRow, SettledSucceeds DEF Guarded, CommittedStates
<1> QED BY <1>2, <1>3, CaptureEndFits, TransactMoves, OnlyMoves DEF ResumeFinalize

LEMMA ResumeReadbackMoves ==
    ASSUME RestoreInv, NEW w \in Workers, ResumeReadback(w)
    PROVE  Moves(w)
<1>1. Fits(w, Go(w, "resume-mark"), row, effect)
  BY Known, GoFits DEF ResumeReadback, At, Knows, GrantedPlaces, Places, Special
<1> QED BY <1>1, CaptureEndFits, QueryMoves DEF ResumeReadback

LEMMA ResumeMarkMoves ==
    ASSUME RestoreInv, NEW w \in Workers, ResumeMark(w)
    PROVE  Moves(w)
BY MarkedSucceeds, CaptureEndFits, TransactMoves DEF ResumeMark, Guarded

LEMMA EnterReconcileMoves ==
    ASSUME RestoreInv, NEW w \in Workers, EnterReconcile(w)
    PROVE  Moves(w)
<1> DEFINE next == [worker[w] EXCEPT !.at = "reconcile-read", !.inside = "capture"]
<1>1. ~worker[w].granted BY Known DEF EnterReconcile, At, Knows, GrantedPlaces
<1>2. "reconcile-read" \in Places BY DEF Places
<1>3. next \in CallRecords /\ next.at = "reconcile-read" /\ ~next.granted
  BY <1>1, <1>2, Known DEF CallRecords, Guarded
<1> HIDE DEF next
<1>4. Fits(w, next, row, effect) BY <1>3, PlainFits DEF Special
<1> QED BY <1>4, NoCallFits, TakesGuardMoves DEF EnterReconcile, next, Guarded

LEMMA ReconcileReadMoves ==
    ASSUME RestoreInv, NEW w \in Workers, ReconcileRead(w)
    PROVE  Moves(w)
<1> DEFINE saw == From(row["capture"])
           place == IF Holds(w) THEN "reconcile-verify" ELSE "reconcile-mark"
           next == [Go(w, place) EXCEPT !.saw = saw]
<1>1. ~worker[w].granted BY Known DEF ReconcileRead, At, Knows, GrantedPlaces
<1>2. place \in Places /\ place \notin Special BY DEF Places, Special
<1>3. saw \in RowStates
  BY DEF RestoreInv, Typed, Stages, Guarded, From, RowStates, ActiveStates
<1> HIDE DEF saw, place
<1>4. next \in CallRecords /\ next.at = place /\ ~next.granted
  BY <1>1, <1>2, <1>3, Known, GoRecord
<1> HIDE DEF next
<1>5. Fits(w, next, row, effect) BY <1>2, <1>4, PlainFits
<1> QED BY <1>5, NoCallFits, QueryMoves DEF ReconcileRead, next, saw, place

LEMMA ReconcileFailedFits ==
    ASSUME RestoreInv, NEW w \in Workers, NEW new, NEW eff, ~worker[w].granted
    PROVE  Fits(w, ReconcileFailed(w), new, eff)
<1>1. Fits(w, Go(w, "reconcile-mark"), new, eff) BY GoFits DEF Places, Special
<1> QED BY <1>1, NoCallFits DEF ReconcileFailed

LEMMA ReconcileVerifyMoves ==
    ASSUME RestoreInv, NEW w \in Workers, ReconcileVerify(w)
    PROVE  Moves(w)
<1> DEFINE next == Go(w, "reconcile-finalize")
<1>1. ~worker[w].granted BY Known DEF ReconcileVerify, At, Knows, GrantedPlaces
<1>2. "reconcile-finalize" \in Places BY DEF Places
<1>3. next \in CallRecords /\ next.at = "reconcile-finalize" /\ ~next.granted
  BY <1>1, <1>2, Known, GoRecord
<1> HIDE DEF next
<1>4. ASSUME effect["capture"] = "done"
      PROVE  Fits(w, next, row, effect)
  BY <1>3, <1>4 DEF Fits, Finalizes, Follows, MayBegin
<1> QED BY <1>1, <1>4, ReconcileFailedFits, OnlyMoves DEF ReconcileVerify, next

LEMMA ReconcileFinalizeMoves ==
    ASSUME RestoreInv, NEW w \in Workers, ReconcileFinalize(w)
    PROVE  Moves(w)
<1>1. effect["capture"] = "done" /\ ~worker[w].granted
  BY Known DEF ReconcileFinalize, At, Knows, Finalizes, Guarded, GrantedPlaces
<1>2. ASSUME Finalizable("capture", worker[w].saw)
      PROVE  Succeeds(With("capture", Settled(worker[w].saw)), effect)
  BY <1>1, <1>2, FinalizableRow, SettledSucceeds DEF Guarded
<1> QED BY <1>1, <1>2, CaptureEndFits, ReconcileFailedFits, TransactMoves, OnlyMoves DEF
  ReconcileFinalize

LEMMA ReconcileMarkMoves ==
    ASSUME RestoreInv, NEW w \in Workers, ReconcileMark(w)
    PROVE  Moves(w)
<1>1. Succeeds(IF worker[w].saw = "starting" THEN MarkedUncertain("capture") ELSE row, effect)
  BY RowsSucceed, MarkedSucceeds DEF Guarded
<1> QED BY <1>1, NoCallFits, TransactMoves DEF ReconcileMark

--------------------------------------------------------------------------------
(* The destination generation in the foreground. *)

LEMMA EnterGenerationMoves ==
    ASSUME RestoreInv, NEW w \in Workers, EnterGeneration(w)
    PROVE  Moves(w)
<1> DEFINE place == IF worker[w].saw # "absent" THEN "generation-publish"
                    ELSE IF worker[w].seen = "generation" THEN "generation-claim"
                    ELSE "generation-reserve"
           next == [worker[w] EXCEPT !.at = place, !.inside = "generation"]
<1>1. ~worker[w].granted /\ Committed("capture")
  BY Known DEF EnterGeneration, At, Knows, GrantedPlaces, Follows, Guarded
<1>2. /\ place \in Places
      /\ place \in {"generation-publish", "generation-claim", "generation-reserve"}
  BY DEF Places
<1> HIDE DEF place
<1>3. next \in CallRecords /\ next.at = place /\ ~next.granted
  BY <1>1, <1>2, Known DEF CallRecords, Guarded
<1> HIDE DEF next
<1>4. Fits(w, next, row, effect)
  BY <1>1, <1>2, <1>3 DEF Fits, Finalizes, Follows, MayBegin, Committed
<1> QED BY <1>4, NoCallFits, TakesGuardMoves DEF EnterGeneration, next, place, Guarded

LEMMA GenerationReserveMoves ==
    ASSUME RestoreInv, NEW w \in Workers, GenerationReserve(w)
    PROVE  Moves(w)
<1>1. ~worker[w].granted /\ Committed("capture")
  BY Known DEF GenerationReserve, At, Knows, GrantedPlaces, Follows, Guarded
<1>2. ASSUME row["generation"] \in Unclaimed
      PROVE  Succeeds(With("generation", "prepared"), effect)
  BY <1>1, <1>2, RowsSucceed DEF RestoreInv, Typed, Succeeds, With, Stages, Guarded,
     RowStates, ActiveStates, CommittedStates, Unclaimed, Committed, Chain
<1>3. Fits(w, Go(w, "generation-claim"), With("generation", "prepared"), effect)
  BY <1>1, GoFits DEF Places, Special
<1> QED BY <1>2, <1>3, NoCallFits, TransactMoves, OnlyMoves DEF GenerationReserve, Unclaimed

LEMMA GenerationClaimMoves ==
    ASSUME RestoreInv, NEW w \in Workers, GenerationClaim(w)
    PROVE  Moves(w)
<1> DEFINE new == Claimed("generation")
           base == Go(w, "generation-publish")
           next == [base EXCEPT !.saw = new["generation"], !.granted = Granted("generation")]
<1>1. ~worker[w].granted BY Known DEF GenerationClaim, At, Knows, GrantedPlaces
<1>2. /\ Succeeds(new, effect) /\ new["generation"] \in RowStates
      /\ row["generation"] = "prepared" => new["generation"] = "starting"
  BY ClaimedSucceeds DEF Guarded
<1> HIDE DEF new
<1>3. "generation-publish" \in Places BY DEF Places
<1>4. base \in CallRecords /\ base.at = "generation-publish" BY <1>3, Known, GoRecord
<1> HIDE DEF base
<1>5. /\ next \in CallRecords /\ next.at = "generation-publish"
      /\ next.granted <=> row["generation"] = "prepared"
  BY <1>2, <1>4 DEF CallRecords, Granted
<1> HIDE DEF next
<1>6. Fits(w, next, new, effect)
  BY <1>2, <1>5 DEF Fits, Finalizes, Follows, MayBegin, GrantedPlaces, Unclaimed
<1>7. Fits(w, Go(w, "generation-reread"), row, effect) BY <1>1, GoFits DEF Places, Special
<1> QED BY <1>2, <1>6, <1>7, KeptFits, NoCallFits, TransactMoves, OnlyMoves DEF
  GenerationClaim, next, base, new

LEMMA GenerationRereadMoves ==
    ASSUME RestoreInv, NEW w \in Workers, GenerationReread(w)
    PROVE  Moves(w)
<1> DEFINE next == [Go(w, "generation-publish") EXCEPT !.saw = row["generation"]]
<1>1. ~worker[w].granted BY Known DEF GenerationReread, At, Knows, GrantedPlaces
<1>2. "generation-publish" \in Places BY DEF Places
<1>3. row["generation"] \in RowStates BY DEF RestoreInv, Typed, Stages, Guarded
<1>4. next \in CallRecords /\ next.at = "generation-publish" /\ ~next.granted
  BY <1>1, <1>2, <1>3, Known, GoRecord
<1> HIDE DEF next
<1>5. Fits(w, next, row, effect) BY <1>4 DEF Fits, Finalizes, Follows, MayBegin
<1> QED BY <1>5, KeptFits, NoCallFits, QueryMoves DEF GenerationReread, RereadGeneration,
  next

LEMMA GenerationPublishMoves ==
    ASSUME RestoreInv, NEW w \in Workers, GenerationPublish(w)
    PROVE  Moves(w)
<1> DEFINE next == Go(w, "generation-publishing")
<1>1. MayBegin(worker[w], "generation") BY DEF GenerationPublish, At, MayBegin
<1>2. "generation-publishing" \in Places BY DEF Places
<1>3. next \in CallRecords /\ next.at = "generation-publishing" BY <1>2, Known, GoRecord
<1> HIDE DEF next
<1>4. Fits(w, next, row, effect) /\ ~MayBegin(next, "generation")
  BY <1>3, PlainFits DEF Special, MayBegin, GrantedPlaces
<1> QED BY <1>1, <1>4, BeginMoves DEF GenerationPublish, next, Guarded

\* A worker that knows the destination as published finalises it.
LEMMA GenerationFinalizeFits ==
    ASSUME RestoreInv, NEW w \in Workers, NEW new, NEW eff, eff["generation"] = "done"
    PROVE  Fits(w, KeptBoth(w, Go(w, "generation-finalize")), new, eff)
<1> DEFINE next == Go(w, "generation-finalize")
<1>1. "generation-finalize" \in Places BY DEF Places
<1>2. next \in CallRecords /\ next.at = "generation-finalize" BY <1>1, Known, GoRecord
<1> HIDE DEF next
<1>3. Fits(w, next, new, eff) BY <1>2 DEF Fits, Finalizes, Follows, MayBegin, GrantedPlaces
<1> QED BY <1>3, KeptFits DEF next

LEMMA GenerationVerifyMoves ==
    ASSUME RestoreInv, NEW w \in Workers, GenerationVerify(w)
    PROVE  Moves(w)
BY GenerationFinalizeFits, NoCallFits, OnlyMoves DEF GenerationVerify

LEMMA GenerationPublishedMoves ==
    ASSUME RestoreInv, NEW w \in Workers, GenerationPublished(w)
    PROVE  Moves(w)
<1> DEFINE done == [effect EXCEPT !["generation"] = "done"]
<1>1. done["generation"] = "done" BY DEF RestoreInv, Typed, Guarded
<1> HIDE DEF done
<1>2. Fits(w, KeptBoth(w, Go(w, "generation-finalize")), row, done)
  BY <1>1, GenerationFinalizeFits
<1> QED BY <1>2, NoCallFits, FinishMoves DEF GenerationPublished, done, Guarded

LEMMA GenerationFinalizeMoves ==
    ASSUME RestoreInv, NEW w \in Workers, GenerationFinalize(w)
    PROVE  Moves(w)
<1>1. effect["generation"] = "done"
  BY Known DEF GenerationFinalize, At, Knows, Finalizes, Guarded
<1>2. ASSUME Finalizable("generation", worker[w].saw)
      PROVE  Succeeds(With("generation", Settled(worker[w].saw)), effect)
  BY <1>1, <1>2, FinalizableRow, SettledSucceeds DEF Guarded
<1>3. "generation-committed" \in Places \ Special /\ "generation-committed" \in GrantedPlaces
  BY DEF Places, Special, GrantedPlaces
<1>4. \A new : Fits(w, Go(w, "generation-committed"), new, effect) BY <1>3, GoFits
<1> QED BY <1>2, <1>4, TransactMoves, OnlyMoves DEF GenerationFinalize

LEMMA GenerationCommittedMoves ==
    ASSUME RestoreInv, NEW w \in Workers, GenerationCommitted(w)
    PROVE  Moves(w)
<1> DEFINE next == [Out(w, "activation-row") EXCEPT !.seen = row["detach"]]
<1>1. "activation-row" \in Places BY DEF Places
<1>2. row["detach"] \in Seen BY DEF RestoreInv, Typed, Stages, Guarded, Seen
<1>3. next \in CallRecords /\ next.at = "activation-row" /\ ~next.granted
  BY <1>1, <1>2, Known, OutRecord
<1> HIDE DEF next
<1>4. ASSUME Committed("generation")
      PROVE  Fits(w, next, row, effect)
  BY <1>3, <1>4 DEF Fits, Finalizes, Follows, MayBegin, Committed
<1> QED BY <1>4, NoCallFits, QueryMoves DEF GenerationCommitted, next

LEMMA ReadActivationMoves ==
    ASSUME RestoreInv, NEW w \in Workers, ReadActivation(w)
    PROVE  Moves(w)
<1> DEFINE next == [Go(w, "launch-row") EXCEPT !.saw = row["activation"]]
<1>1. ~worker[w].granted /\ Committed("generation")
  BY Known DEF ReadActivation, At, Knows, GrantedPlaces, Follows, Guarded
<1>2. "launch-row" \in Places BY DEF Places
<1>3. row["activation"] \in RowStates BY DEF RestoreInv, Typed, Stages, Guarded
<1>4. next \in CallRecords /\ next.at = "launch-row" /\ ~next.granted
  BY <1>1, <1>2, <1>3, Known, GoRecord
<1> HIDE DEF next
<1>5. Fits(w, next, row, effect)
  BY <1>1, <1>4 DEF Fits, Finalizes, Follows, MayBegin, Committed
<1> QED BY <1>5, NoCallFits, QueryMoves DEF ReadActivation, next

LEMMA ReadLaunchMoves ==
    ASSUME RestoreInv, NEW w \in Workers, ReadLaunch(w)
    PROVE  Moves(w)
<1> DEFINE launching == [Go(w, "launch") EXCEPT !.saw = row["launch"]]
           detaching == Go(w, "detach")
<1>1. ~worker[w].granted /\ Committed("generation")
  BY Known DEF ReadLaunch, At, Knows, GrantedPlaces, Follows, Guarded
<1>2. "launch" \in Places /\ "detach" \in Places BY DEF Places
<1>3. row["launch"] \in RowStates BY DEF RestoreInv, Typed, Stages
<1>4. /\ launching \in CallRecords /\ launching.at = "launch" /\ ~launching.granted
      /\ detaching \in CallRecords /\ detaching.at = "detach" /\ ~detaching.granted
  BY <1>1, <1>2, <1>3, Known, GoRecord
<1> HIDE DEF launching, detaching
<1>5. Fits(w, launching, row, effect) BY <1>4, PlainFits DEF Special
<1>6. Fits(w, detaching, row, effect)
  BY <1>1, <1>4 DEF Fits, Finalizes, Follows, MayBegin, Committed
<1>7. Fits(w, Go(w, "activate"), row, effect) BY <1>1, GoFits DEF Places, Special
<1> QED BY <1>5, <1>6, <1>7, NoCallFits, QueryMoves DEF ReadLaunch, launching, detaching

--------------------------------------------------------------------------------
(* The detachment of the old writer. *)

LEMMA DetachedFits ==
    ASSUME RestoreInv, NEW w \in Workers, NEW new, NEW eff
    PROVE  Fits(w, Detached(w), new, eff)
<1>1. Fits(w, Out(w, "activate"), new, eff) BY OutFits DEF Places, Special
<1> QED BY <1>1, KeptFits DEF Detached

LEMMA DetachNextFits ==
    ASSUME RestoreInv, NEW w \in Workers, NEW new, NEW eff, NEW state, ~worker[w].granted
    PROVE  Fits(w, DetachNext(w, state), new, eff)
<1>1. Fits(w, Go(w, "detach-block"), new, eff) /\ Fits(w, Go(w, "detach-claim"), new, eff)
  BY GoFits DEF Places, Special
<1>2. CASE state \in CommittedStates BY <1>2, DetachedFits DEF DetachNext, CommittedStates
<1>3. CASE state \in {"starting", "uncertain"} BY <1>1, <1>3 DEF DetachNext, CommittedStates
<1>4. CASE state = "prepared" BY <1>1, <1>4 DEF DetachNext, CommittedStates
<1>5. CASE state \notin CommittedStates \cup {"starting", "uncertain", "prepared"}
  <2>1. DetachNext(w, state) = NoCall BY <1>5 DEF DetachNext
  <2> QED BY <2>1, NoCallFits
<1> QED BY <1>2, <1>3, <1>4, <1>5

LEMMA EnterDetachMoves ==
    ASSUME RestoreInv, NEW w \in Workers, EnterDetach(w)
    PROVE  Moves(w)
<1> DEFINE next == [worker[w] EXCEPT !.at = "detach-reserve", !.inside = "detach"]
<1>1. ~worker[w].granted /\ Committed("generation")
  BY Known DEF EnterDetach, At, Knows, GrantedPlaces, Follows, Guarded
<1>2. "detach-reserve" \in Places BY DEF Places
<1>3. next \in CallRecords /\ next.at = "detach-reserve" /\ ~next.granted
  BY <1>1, <1>2, Known DEF CallRecords, Guarded
<1> HIDE DEF next
<1>4. Fits(w, next, row, effect)
  BY <1>1, <1>3 DEF Fits, Finalizes, Follows, MayBegin, Committed
<1>5. Fits(w, Go(w, "activate"), row, effect) BY <1>1, GoFits DEF Places, Special
<1> QED BY <1>4, <1>5, NoCallFits, OnlyMoves, TakesGuardMoves DEF EnterDetach, next, Guarded

LEMMA DetachReserveMoves ==
    ASSUME RestoreInv, NEW w \in Workers, DetachReserve(w)
    PROVE  Moves(w)
<1> DEFINE reserved == IF row["detach"] = "absent" /\ Active = {}
                       THEN With("detach", "prepared") ELSE row
<1>1. ~worker[w].granted /\ Committed("generation")
  BY Known DEF DetachReserve, At, Knows, GrantedPlaces, Follows, Guarded
<1>2. Succeeds(reserved, effect)
  BY <1>1, RowsSucceed DEF RestoreInv, Typed, Succeeds, With, Stages, Guarded, RowStates,
     ActiveStates, CommittedStates, Unclaimed, Committed, Chain
<1> HIDE DEF reserved
<1>3. Fits(w, DetachNext(w, reserved["detach"]), reserved, effect) BY <1>1, DetachNextFits
<1> QED BY <1>2, <1>3, NoCallFits, TransactMoves DEF DetachReserve, reserved

LEMMA DetachClaimMoves ==
    ASSUME RestoreInv, NEW w \in Workers, DetachClaim(w)
    PROVE  Moves(w)
<1> DEFINE next == Go(w, "detach-dispatch")
<1>1. ~worker[w].granted BY Known DEF DetachClaim, At, Knows, GrantedPlaces
<1>2. "detach-dispatch" \in Places BY DEF Places
<1>3. next \in CallRecords /\ next.at = "detach-dispatch" /\ ~next.granted
  BY <1>1, <1>2, Known, GoRecord
<1> HIDE DEF next
<1>4. ASSUME Granted("detach")
      PROVE  Fits(w, next, Claimed("detach"), effect)
  <2>1. row["detach"] = "prepared" /\ Claimed("detach")["detach"] = "starting"
    BY <1>4, ClaimedSucceeds DEF Granted, Guarded
  <2> QED BY <1>3, <2>1 DEF Fits, Finalizes, Follows, MayBegin, Unclaimed
<1>5. Fits(w, Go(w, "detach-block"), Claimed("detach"), effect)
  BY <1>1, GoFits DEF Places, Special
<1>6. /\ UNCHANGED <<effect, dispatched, told, sweep>> /\ (Fault \/ UNCHANGED faults)
      /\ row' \in {row, Claimed("detach")}
      /\ \/ /\ row' = Claimed("detach")
            /\ To(w, IF Granted("detach") THEN HeldOr(w, next, Go(w, "detach-block"))
                     ELSE DetachNext(w, row["detach"]))
         \/ To(w, DetachNext(w, row'["detach"]))
  BY DEF DetachClaim, next
<1>7. Succeeds(row', effect') /\ faults' \in 0 .. MaxFaults
  BY <1>6, RowsSucceed, ClaimedSucceeds, FaultCounts DEF Guarded
<1>8. PICK after : To(w, after) /\ Fits(w, after, row', effect')
  BY <1>1, <1>4, <1>5, <1>6, HeldOrFits, DetachNextFits
<1>9. told' => row'["launch"] \in CommittedStates
  BY <1>6, <1>7 DEF Succeeds, RestoreInv, Chain, Committed
<1> QED BY <1>6, <1>7, <1>8, <1>9, ToMoves DEF RestoreInv, Typed, sweep

LEMMA DetachDispatchMoves ==
    ASSUME RestoreInv, NEW w \in Workers, DetachDispatch(w)
    PROVE  Moves(w)
<1> DEFINE next == Go(w, "detaching")
<1>1. ~worker[w].granted /\ MayBegin(worker[w], "detach")
  BY Known DEF DetachDispatch, At, Knows, GrantedPlaces, MayBegin
<1>2. "detaching" \in Places BY DEF Places
<1>3. next \in CallRecords /\ next.at = "detaching" /\ ~next.granted
  BY <1>1, <1>2, Known, GoRecord
<1> HIDE DEF next
<1>4. Fits(w, next, row, effect) /\ ~MayBegin(next, "detach")
  BY <1>3, PlainFits DEF Special, MayBegin
<1> QED BY <1>1, <1>4, BeginMoves DEF DetachDispatch, next, Guarded

LEMMA DetachProvedMoves ==
    ASSUME RestoreInv, NEW w \in Workers, DetachProved(w)
    PROVE  Moves(w)
<1> DEFINE next == Go(w, "detach-finalize")
           done == [effect EXCEPT !["detach"] = "done"]
<1>0. ~worker[w].granted BY Known DEF DetachProved, At, Knows, GrantedPlaces
<1>1. "detach-finalize" \in Places BY DEF Places
<1>2. next \in CallRecords /\ next.at = "detach-finalize" /\ ~next.granted
  BY <1>0, <1>1, Known, GoRecord
<1>3. done["detach"] = "done" BY DEF RestoreInv, Typed, Guarded
<1> HIDE DEF next, done
<1>4. Fits(w, next, row, done) BY <1>2, <1>3 DEF Fits, Finalizes, Follows, MayBegin
<1>5. /\ Fits(w, Go(w, "detach-block"), row, done)
      /\ Fits(w, Go(w, "detach-block"), row, effect)
  BY <1>0, GoFits DEF Places, Special
<1> QED BY <1>4, <1>5, HeldOrFits, FinishMoves DEF DetachProved, next, done, Guarded

LEMMA DetachFinalizeMoves ==
    ASSUME RestoreInv, NEW w \in Workers, DetachFinalize(w)
    PROVE  Moves(w)
<1>1. effect["detach"] = "done" BY Known DEF DetachFinalize, At, Knows, Finalizes, Guarded
<1>2. ASSUME row["detach"] \in {"starting", "uncertain"}
      PROVE  Succeeds(With("detach", Settled(row["detach"])), effect)
  BY <1>1, <1>2, SettledSucceeds DEF Guarded, Settled, CommittedStates, Unclaimed
<1> QED BY <1>2, DetachedFits, NoCallFits, TransactMoves, OnlyMoves DEF DetachFinalize

LEMMA DetachMarkMoves ==
    ASSUME RestoreInv, NEW w \in Workers, DetachMark(w)
    PROVE  Moves(w)
<1>1. Fits(w, Go(w, "detach-blocked"), MarkedUncertain("detach"), effect)
  BY Known, GoFits DEF DetachMark, At, Knows, GrantedPlaces, Places, Special
<1> QED BY <1>1, MarkedSucceeds, DetachedFits, NoCallFits, TransactMoves, OnlyMoves DEF
  DetachMark, Guarded

LEMMA DetachBlockedMoves ==
    ASSUME RestoreInv, NEW w \in Workers, DetachBlocked(w)
    PROVE  Moves(w)
<1>1. ASSUME row["detach"] = "uncertain"
      PROVE  Succeeds(With("detach", "blocked"), effect)
  BY <1>1, RowsSucceed DEF RestoreInv, Typed, Succeeds, With, Stages, Guarded, RowStates,
     CommittedStates, Unclaimed, Committed, Chain
<1> QED BY <1>1, DetachedFits, NoCallFits, TransactMoves, OnlyMoves DEF DetachBlocked

--------------------------------------------------------------------------------
(* The activation. *)

LEMMA EnterActivateMoves ==
    ASSUME RestoreInv, NEW w \in Workers, EnterActivate(w)
    PROVE  Moves(w)
<1> DEFINE next == [worker[w] EXCEPT !.at = "activation-reserve", !.inside = "activation"]
<1>1. ~worker[w].granted BY Known DEF EnterActivate, At, Knows, GrantedPlaces
<1>2. "activation-reserve" \in Places BY DEF Places
<1>3. next \in CallRecords /\ next.at = "activation-reserve" /\ ~next.granted
  BY <1>1, <1>2, Known DEF CallRecords, Guarded
<1> HIDE DEF next
<1>4. Fits(w, next, row, effect) BY <1>3, PlainFits DEF Special
<1> QED BY <1>4, NoCallFits, TakesGuardMoves DEF EnterActivate, next, Guarded

LEMMA ActivationReserveMoves ==
    ASSUME RestoreInv, NEW w \in Workers, ActivationReserve(w)
    PROVE  Moves(w)
<1> DEFINE out == [Out(w, "activation-guard") EXCEPT !.saw = worker[w].saw]
           on == [Out(w, "activation-guard") EXCEPT !.saw = worker[w].saw, !.spare = TRUE]
<1>1. "activation-guard" \in Places /\ worker[w].saw \in RowStates
  BY Known DEF Places, CallRecords
<1>2. Out(w, "activation-guard") \in CallRecords /\ Out(w, "activation-guard").at = "activation-guard"
      /\ ~Out(w, "activation-guard").granted
  BY <1>1, Known, OutRecord
<1>3. on \in CallRecords /\ on.at = "activation-guard" /\ ~on.granted
  BY <1>1, <1>2 DEF CallRecords
<1> HIDE DEF on
<1>4. \A new : Fits(w, on, new, effect) BY <1>3, PlainFits DEF Special
<1>5. \A new : Fits(w, Kept(w, on), new, effect) BY <1>4, KeptFits
<1>6. ASSUME \/ row["activation"] = "prepared"
             \/ row["activation"] = "absent" /\ Committed("detach")
      PROVE  Succeeds(With("activation", "prepared"), effect)
  BY <1>6, RowsSucceed DEF RestoreInv, Typed, Succeeds, With, Stages, Guarded, RowStates,
     ActiveStates, CommittedStates, Unclaimed, Committed, Chain
<1> QED BY <1>5, <1>6, NoCallFits, TransactMoves, OnlyMoves DEF ActivationReserve, on

\* Where an activation that was given up, or settled, leads.
LEMMA ActivationFailedFits ==
    ASSUME RestoreInv, NEW w \in Workers, NEW new, NEW eff
    PROVE  Fits(w, ActivationFailed(w), new, eff)
<1>1. Fits(w, Out(w, "advance"), new, eff) BY OutFits DEF Places, Special
<1> QED BY <1>1, NoCallFits DEF ActivationFailed

LEMMA ActivationDoneFits ==
    ASSUME RestoreInv, NEW w \in Workers, NEW new, NEW eff, NEW launch \in RowStates
    PROVE  Fits(w, ActivationDone(w, launch), new, eff)
<1> DEFINE next == [Out(w, "launch") EXCEPT !.saw = launch]
<1>1. "launch" \in Places BY DEF Places
<1>2. next \in CallRecords /\ next.at = "launch" /\ ~next.granted BY <1>1, Known, OutRecord
<1> HIDE DEF next
<1>3. Fits(w, next, new, eff) BY <1>2, PlainFits DEF Special
<1>4. Fits(w, Out(w, "advance"), new, eff) BY OutFits DEF Places, Special
<1> QED BY <1>3, <1>4, KeptFits DEF ActivationDone, next

LEMMA EnterActivationMoves ==
    ASSUME RestoreInv, NEW w \in Workers, EnterActivation(w)
    PROVE  Moves(w)
<1> DEFINE place == IF worker[w].saw \in {"absent", "prepared"} THEN "activation-claim"
                    ELSE "activation-read"
           next == [worker[w] EXCEPT !.at = place, !.inside = "activation"]
<1>1. ~worker[w].granted BY Known DEF EnterActivation, At, Knows, GrantedPlaces
<1>2. place \in Places /\ place \notin Special BY DEF Places, Special
<1> HIDE DEF place
<1>3. next \in CallRecords /\ next.at = place /\ ~next.granted
  BY <1>1, <1>2, Known DEF CallRecords, Guarded
<1> HIDE DEF next
<1>4. Fits(w, next, row, effect) BY <1>2, <1>3, PlainFits
<1> QED BY <1>4, ActivationFailedFits, TakesGuardMoves DEF EnterActivation, next, place,
  Guarded

\* The coordinator goes to the provider with the token only after its own claim.
LEMMA ActivationCoreFits ==
    ASSUME RestoreInv, NEW w \in Workers, NEW new, NEW state \in RowStates,
           NEW granted \in BOOLEAN, NEW starting,
           state \in CommittedStates => effect["activation"] = "done",
           granted => /\ row["activation"] = "prepared" /\ state = "starting"
                      /\ new["activation"] \notin Unclaimed,
           Fits(w, starting, new, effect)
    PROVE  Fits(w, ActivationCore(w, state, granted, starting), new, effect)
<1> DEFINE on == [worker[w] EXCEPT !.saw = From(state), !.granted = granted,
                                   !.seen = "absent", !.spare = TRUE]
           final == [on EXCEPT !.at = "activation-finalize"]
           ask == [on EXCEPT !.at = "activation-provider"]
<1>1. "activation-finalize" \in Places /\ "activation-provider" \in Places BY DEF Places
<1>2. From(state) \in RowStates BY DEF From, RowStates, ActiveStates
<1>3. on \in CallRecords /\ on.granted = granted
  BY <1>2, Known DEF CallRecords, Seen, RowStates
<1> HIDE DEF on
<1>4. /\ final \in CallRecords /\ final.at = "activation-finalize" /\ final.granted = granted
      /\ ask \in CallRecords /\ ask.at = "activation-provider" /\ ask.granted = granted
  BY <1>1, <1>3 DEF CallRecords
<1> HIDE DEF final, ask
<1>5. ASSUME state \in CommittedStates
      PROVE  Fits(w, final, new, effect)
  BY <1>4, <1>5 DEF Fits, Finalizes, Follows, MayBegin, GrantedPlaces, CommittedStates
<1>6. Fits(w, ask, new, effect)
  BY <1>4 DEF Fits, Finalizes, Follows, MayBegin, GrantedPlaces
<1> QED BY <1>5, <1>6, ActivationFailedFits, HeldOrFits DEF ActivationCore, on, final, ask

LEMMA ActivationClaimMoves ==
    ASSUME RestoreInv, NEW w \in Workers, ActivationClaim(w)
    PROVE  Moves(w)
<1> DEFINE new == Claimed("activation")
           core == ActivationCore(w, new["activation"], Granted("activation"),
                                  Go(w, "activation-mark"))
<1>1. ~worker[w].granted BY Known DEF ActivationClaim, At, Knows, GrantedPlaces
<1>2. /\ Succeeds(new, effect) /\ new["activation"] \in RowStates
      /\ row["activation"] = "prepared" => new["activation"] = "starting"
  BY ClaimedSucceeds DEF Guarded
<1> HIDE DEF new
<1>3. Granted("activation") \in BOOLEAN /\ (Granted("activation") => row["activation"] = "prepared")
  BY DEF Granted
<1>4. new["activation"] \in CommittedStates => effect["activation"] = "done"
  BY <1>2 DEF Succeeds, Guarded
<1>5. \A rows : Fits(w, Go(w, "activation-mark"), rows, effect)
  BY <1>1, GoFits DEF Places, Special
<1>6. Fits(w, Go(w, "activation-read"), row, effect) BY <1>1, GoFits DEF Places, Special
<1>7. Fits(w, core, new, effect) BY <1>2, <1>3, <1>4, <1>5, ActivationCoreFits DEF Unclaimed
<1> HIDE DEF core
<1> QED BY <1>2, <1>6, <1>7, ActivationFailedFits, TransactMoves, OnlyMoves DEF
  ActivationClaim, new, core

\* A coordinator that only read the row was granted nothing.
LEMMA ActivationReadFits ==
    ASSUME RestoreInv, NEW w \in Workers, NEW starting, Fits(w, starting, row, effect)
    PROVE  Fits(w, ActivationCore(w, row["activation"], FALSE, starting), row, effect)
<1>1. row["activation"] \in RowStates BY DEF RestoreInv, Typed, Stages, Guarded
<1>2. row["activation"] \in CommittedStates => effect["activation"] = "done"
  BY DEF RestoreInv, Committed, Guarded
<1> QED BY <1>1, <1>2, ActivationCoreFits

LEMMA ActivationReadMoves ==
    ASSUME RestoreInv, NEW w \in Workers, ActivationRead(w)
    PROVE  Moves(w)
<1>1. Fits(w, Go(w, "activation-mark"), row, effect)
  BY Known, GoFits DEF ActivationRead, At, Knows, GrantedPlaces, Places, Special
<1> QED BY <1>1, ActivationReadFits, ActivationFailedFits, QueryMoves DEF ActivationRead

LEMMA ActivationMarkMoves ==
    ASSUME RestoreInv, NEW w \in Workers, ActivationMark(w)
    PROVE  Moves(w)
<1>1. \A rows : Fits(w, Go(w, "activation-reread"), rows, effect)
  BY Known, GoFits DEF ActivationMark, At, Knows, GrantedPlaces, Places, Special
<1> QED BY <1>1, MarkedSucceeds, TransactMoves DEF ActivationMark, Guarded

LEMMA ActivationRereadMoves ==
    ASSUME RestoreInv, NEW w \in Workers, ActivationReread(w)
    PROVE  Moves(w)
BY ActivationReadFits, ActivationFailedFits, QueryMoves DEF ActivationReread

LEMMA ActivationProviderMoves ==
    ASSUME RestoreInv, NEW w \in Workers, ActivationProvider(w)
    PROVE  Moves(w)
<1> DEFINE final == Go(w, "activation-finalize")
           prepare == Go(w, "activation-prepare")
<1>1. "activation-finalize" \in Places /\ "activation-prepare" \in Places BY DEF Places
<1>2. /\ final \in CallRecords /\ final.at = "activation-finalize"
      /\ prepare \in CallRecords /\ prepare.at = "activation-prepare"
  BY <1>1, Known, GoRecord
<1> HIDE DEF final, prepare
<1>3. ASSUME effect["activation"] = "done"
      PROVE  Fits(w, final, row, effect)
  BY <1>2, <1>3 DEF Fits, Finalizes, Follows, MayBegin, GrantedPlaces
<1>4. ASSUME MayPrepare(w)
      PROVE  Fits(w, prepare, row, effect)
  <2>1. MayBegin(worker[w], "activation")
    BY <1>4 DEF MayPrepare, MayBegin, ActivationProvider, At
  <2>2. row["activation"] \notin Unclaimed BY <2>1, Known DEF Knows, Guarded
  <2> QED BY <1>2, <2>1, <2>2 DEF Fits, Finalizes, Follows, MayBegin, GrantedPlaces
<1>5. PICK next : To(w, next) /\ Fits(w, next, row, effect)
  BY <1>3, <1>4, ActivationFailedFits DEF ActivationProvider, final, prepare
<1>6. UNCHANGED <<row, effect, dispatched, told, sweep>> /\ (Fault \/ UNCHANGED faults)
  BY DEF ActivationProvider
<1>7. faults' \in 0 .. MaxFaults BY <1>6, FaultCounts
<1> QED BY <1>5, <1>6, <1>7, RowsSucceed, ToMoves DEF RestoreInv, Typed, sweep, Chain,
  Committed

LEMMA ActivationPrepareMoves ==
    ASSUME RestoreInv, NEW w \in Workers, ActivationPrepare(w)
    PROVE  Moves(w)
<1> DEFINE next == [Go(w, "activation-preparing") EXCEPT !.seen = "dispatched"]
<1>1. MayBegin(worker[w], "activation") BY DEF ActivationPrepare, At, MayBegin
<1>2. "activation-preparing" \in Places /\ "dispatched" \in Seen BY DEF Places, Seen
<1>3. next \in CallRecords /\ next.at = "activation-preparing" BY <1>2, Known, GoRecord
<1> HIDE DEF next
<1>4. Fits(w, next, row, effect) /\ ~MayBegin(next, "activation")
  BY <1>3, PlainFits DEF Special, MayBegin, GrantedPlaces
<1> QED BY <1>1, <1>4, BeginMoves DEF ActivationPrepare, next, Guarded

LEMMA ActivationPreparedMoves ==
    ASSUME RestoreInv, NEW w \in Workers, ActivationPrepared(w)
    PROVE  Moves(w)
<1> DEFINE next == Go(w, "activation-finalize")
           done == [effect EXCEPT !["activation"] = "done"]
<1>1. "activation-finalize" \in Places BY DEF Places
<1>2. next \in CallRecords /\ next.at = "activation-finalize" BY <1>1, Known, GoRecord
<1>3. done["activation"] = "done" BY DEF RestoreInv, Typed, Guarded
<1> HIDE DEF next, done
<1>4. Fits(w, next, row, done)
  BY <1>2, <1>3 DEF Fits, Finalizes, Follows, MayBegin, GrantedPlaces
<1>5. "activation-uncertain" \in Places \ Special /\ "activation-uncertain" \in GrantedPlaces
  BY DEF Places, Special, GrantedPlaces
<1>6. /\ Fits(w, Go(w, "activation-uncertain"), row, done)
      /\ Fits(w, Go(w, "activation-uncertain"), row, effect)
  BY <1>5, GoFits
<1> QED BY <1>4, <1>6, HeldOrFits, FinishMoves DEF ActivationPrepared, next, done, Guarded

LEMMA ActivationFinalizeMoves ==
    ASSUME RestoreInv, NEW w \in Workers, ActivationFinalize(w)
    PROVE  Moves(w)
<1> DEFINE launch == IF row["launch"] = "absent" THEN "prepared" ELSE row["launch"]
           new == [row EXCEPT !["activation"] = Settled(worker[w].saw), !["launch"] = launch]
           again == [worker[w] EXCEPT !.spare = FALSE]
<1>1. effect["activation"] = "done" /\ worker[w].at = "activation-finalize"
  BY Known DEF ActivationFinalize, At, Knows, Finalizes, Guarded
<1>2. launch \in RowStates /\ (row["launch"] \in CommittedStates => launch = row["launch"])
  BY DEF RestoreInv, Typed, Stages, RowStates, ActiveStates, CommittedStates
<1> HIDE DEF launch
<1>3. ASSUME Finalizable("activation", worker[w].saw)
      PROVE  Succeeds(new, effect)
  <2>1. row["activation"] \notin Unclaimed /\ Settled(worker[w].saw) \in CommittedStates
    BY <1>3, FinalizableRow DEF Guarded
  <2> HIDE DEF new
  <2>2. /\ new \in [Stages -> RowStates]
        /\ new["activation"] = Settled(worker[w].saw) /\ new["launch"] = launch
        /\ \A s \in Stages \ {"activation", "launch"} : new[s] = row[s]
    BY <1>2, <2>1 DEF new, RestoreInv, Typed, Stages, Guarded, RowStates, CommittedStates
  <2> QED BY <1>1, <1>2, <2>1, <2>2, RowsSucceed DEF Succeeds, Stages, Guarded,
    CommittedStates, Unclaimed
<1>4. again \in CallRecords /\ again.at = "activation-finalize" BY <1>1, Known, SpareRecord
<1> HIDE DEF again, new
<1>5. Fits(w, again, row, effect)
  BY <1>1, <1>4 DEF Fits, Finalizes, Follows, MayBegin, GrantedPlaces
<1>6. "activation-uncertain" \in Places \ Special /\ "activation-uncertain" \in GrantedPlaces
  BY DEF Places, Special, GrantedPlaces
<1>7. Fits(w, ActivationUnfinished(w), row, effect)
  BY <1>6, GoFits, ActivationFailedFits DEF ActivationUnfinished
<1> QED BY <1>2, <1>3, <1>5, <1>7, ActivationDoneFits, TransactMoves, OnlyMoves DEF
  ActivationFinalize, again, new, launch

LEMMA ActivationUncertainMoves ==
    ASSUME RestoreInv, NEW w \in Workers, ActivationUncertain(w)
    PROVE  Moves(w)
BY MarkedSucceeds, ActivationFailedFits, TransactMoves DEF ActivationUncertain, Guarded

\* A launch is left, or settles the row that an activation prepared.
LEMMA LaunchMoves ==
    ASSUME RestoreInv, NEW w \in Workers, NEW answered \in BOOLEAN, NEW next,
           Launch(w, answered, next), \A new : Fits(w, next, new, effect)
    PROVE  Moves(w)
<1>1. CASE ~Only(w, next)
  <2>1. row["launch"] \in CommittedStates \cup ActiveStates BY <1>1 DEF Launch
  <2>2. /\ UNCHANGED <<effect, dispatched, sweep>> /\ (Fault \/ UNCHANGED faults)
        /\ To(w, next)
        /\ \/ row' = row /\ (told' => told \/ Committed("launch"))
           \/ row' = With("launch", "settled") /\ told' \in BOOLEAN
           \/ /\ row["launch"] \in ActiveStates /\ told' = told
              /\ row' \in {With("launch", l) : l \in {"starting", "uncertain"}}
        /\ told' \in BOOLEAN
    BY <1>1 DEF Launch, RestoreInv, Typed
  <2>3. /\ Succeeds(With("launch", "settled"), effect)
        /\ row["launch"] \in ActiveStates =>
              /\ Succeeds(With("launch", "starting"), effect)
              /\ Succeeds(With("launch", "uncertain"), effect)
    BY <2>1, RowsSucceed DEF RestoreInv, Typed, Succeeds, With, Stages, Guarded, RowStates,
       ActiveStates, CommittedStates, Unclaimed
  <2>4. Succeeds(row', effect') /\ faults' \in 0 .. MaxFaults
    BY <2>2, <2>3, RowsSucceed, FaultCounts
  <2>5. told' => row'["launch"] \in CommittedStates
    <3>1. CASE row' = With("launch", "settled")
      BY <3>1 DEF With, RestoreInv, Typed, Stages, CommittedStates
    <3>2. CASE row["launch"] \in ActiveStates /\ told' = told
      BY <3>2 DEF RestoreInv, Chain, Committed, ActiveStates, CommittedStates
    <3>3. CASE row' = row /\ (told' => told \/ Committed("launch"))
      BY <3>3 DEF RestoreInv, Chain, Committed
    <3> QED BY <2>2, <3>1, <3>2, <3>3
  <2>6. Fits(w, next, row', effect') BY <2>2
  <2> QED BY <2>2, <2>4, <2>5, <2>6, ToMoves DEF RestoreInv, Typed, sweep
<1> QED BY <1>1, OnlyMoves

LEMMA RunLaunchMoves ==
    ASSUME RestoreInv, NEW w \in Workers, RunLaunch(w)
    PROVE  Moves(w)
<1>1. Leased(w) \in BOOLEAN BY DEF Leased
<1> QED BY <1>1, NoCallFits, LaunchMoves DEF RunLaunch

--------------------------------------------------------------------------------
(* The calls begin. *)

LEMMA StartRestoreMoves ==
    ASSUME RestoreInv, NEW w \in Workers, StartRestore(w)
    PROVE  Moves(w)
<1> DEFINE next == [NoCall EXCEPT !.call = "restore", !.at = "session"]
<1>0. "session" \in Places BY DEF Places
<1>1. next \in CallRecords /\ next.at = "session" /\ ~next.granted
  BY <1>0, NoCallRecord DEF CallRecords, CallKinds
<1> HIDE DEF next
<1> HIDE DEF next
<1>2. Fits(w, next, row, effect) BY <1>1, PlainFits DEF Special
<1>3. /\ worker' = [worker EXCEPT ![w] = next]
      /\ lifecycle' = [lifecycle EXCEPT !.shared = lifecycle.shared \cup {w}]
      /\ UNCHANGED <<row, effect, dispatched, guard, faults, told, sweep>>
  BY DEF StartRestore, next
<1>4. Typed' BY <1>1, <1>3 DEF RestoreInv, Typed, sweep
<1> QED BY <1>1, <1>2, <1>3, <1>4, RowsSucceed DEF Moves, RestoreInv, Chain, Committed

LEMMA StartCapturesMoves ==
    ASSUME RestoreInv, NEW w \in Workers, StartCaptures(w)
    PROVE  Moves(w)
<1> DEFINE place == IF row["capture"] = "prepared" THEN "resume" ELSE "reconcile"
           next == [NoCall EXCEPT !.call = "captures", !.at = place]
<1>1. place \in Places /\ place \notin Special BY DEF Places, Special
<1> HIDE DEF place
<1>2. next \in CallRecords /\ next.at = place /\ ~next.granted
  BY <1>1, NoCallRecord DEF NoCall, CallRecords, CallKinds
<1> HIDE DEF next
<1>3. Fits(w, next, row, effect) BY <1>1, <1>2, PlainFits
<1> QED BY <1>3, OnlyMoves DEF StartCaptures, next, place

LEMMA StartRecoveryMoves ==
    ASSUME RestoreInv, NEW w \in Workers, StartRecovery(w)
    PROVE  Moves(w)
<1> DEFINE next == [NoCall EXCEPT !.call = "recover", !.at = "lane", !.lane = "generation"]
<1>0. "lane" \in Places BY DEF Places
<1>1. next \in CallRecords /\ next.at = "lane" /\ next.lane = "generation" /\ ~next.granted
  BY <1>0, NoCallRecord DEF CallRecords, CallKinds, Lanes
<1> HIDE DEF next
<1>2. Fits(w, next, row, effect) BY <1>1 DEF Fits, Finalizes, Follows, MayBegin, Lanes
<1>3. /\ worker' = [worker EXCEPT ![w] = next]
      /\ lifecycle' = [lifecycle EXCEPT !.exclusive = w]
      /\ UNCHANGED <<row, effect, dispatched, guard, faults, told, sweep>>
  BY DEF StartRecovery, next
<1>4. Typed' BY <1>1, <1>3 DEF RestoreInv, Typed, sweep
<1> QED BY <1>1, <1>2, <1>3, <1>4, RowsSucceed DEF Moves, RestoreInv, Chain, Committed

--------------------------------------------------------------------------------
(* Recovery. *)

\* The position behind a page is the start or one of the first two sessions.
LEMMA NextPositionType ==
    ASSUME NEW page \in SUBSET {1, 2, 3}, NEW position
    PROVE  NextPosition(page, position) \in 0 .. Ours
<1>1. CASE Cardinality(page) > 1
  <2>0. Cardinality({}) = 0 /\ Cardinality({3}) = 1 BY FS_EmptySet, FS_Singleton
  <2>1. page # {3} /\ page # {} BY <1>1, <2>0
  <2>2. PICK p \in page : p \in {1, 2} BY <2>1
  <2>3. \E i \in page : \A j \in page : i <= j BY <2>2
  <2>4. First(page) \in page /\ First(page) <= p BY <2>2, <2>3 DEF First
  <2>5. First(page) \in {1, 2}
    <3>1. First(page) \in {1, 2, 3} BY <2>4
    <3> QED BY <2>2, <2>4, <3>1
  <2> QED BY <1>1, <2>5 DEF NextPosition, Ours
<1>2. CASE ~(Cardinality(page) > 1) BY <1>2 DEF NextPosition, Ours
<1> QED BY <1>1, <1>2

LEMMA PageType ==
    ASSUME RestoreInv, NEW l \in Lanes, NEW position
    PROVE  Page(l, position) \in SUBSET {1, 2, 3}
<1>1. deployment.neighbours \in SUBSET Neighbours BY RestoreAssumption DEF RestoreInv, Typed
<1> QED BY <1>1 DEF Page, Neighbours, Ours

\* A record may keep any place of its lane.
LEMMA PositionRecord ==
    ASSUME NEW r \in CallRecords, NEW after \in 0 .. Ours, NEW next \in 0 .. Ours
    PROVE  /\ [r EXCEPT !.after = after, !.next = next] \in CallRecords
           /\ [r EXCEPT !.after = after, !.next = next].at = r.at
           /\ [r EXCEPT !.after = after, !.next = next].granted = r.granted
           /\ [r EXCEPT !.after = after, !.next = next].lane = r.lane
BY DEF CallRecords

LEMMA ListLaneMoves ==
    ASSUME RestoreInv, NEW w \in Workers, ListLane(w)
    PROVE  Moves(w)
<1> DEFINE l == worker[w].lane
           page == Page(l, cursor[l])
           at == IF page # {} /\ First(page) = Ours THEN Visit(w, l) ELSE Go(w, "advance")
<1>1. ~worker[w].granted /\ l \in Lanes BY Known DEF ListLane, At, Knows, GrantedPlaces
<1>2. cursor[l] \in 0 .. Ours BY <1>1 DEF RestoreInv, Typed
<1>3. NextPosition(page, cursor[l]) \in 0 .. Ours BY <1>1, PageType, NextPositionType
<1>4. /\ {"recover", "activation-guard", "launch-visit", "advance"} \subseteq Places \ Special
      /\ "uncertain" \in RowStates
  BY DEF Places, Special, RowStates, ActiveStates
<1> HIDE DEF page
<1>5. at \in CallRecords /\ at.at \notin Special /\ ~at.granted
  BY <1>1, <1>4, Known, GoRecord DEF Visit, Lanes
<1> HIDE DEF at
<1>6. Fits(w, [at EXCEPT !.after = cursor[l], !.next = NextPosition(page, cursor[l])], row, effect)
  BY <1>2, <1>3, <1>5, PositionRecord, PlainFits, ZenonT(60)
<1> QED BY <1>6, KeptFits, NoCallFits, QueryMoves DEF ListLane, at, page

LEMMA AdvanceLaneMoves ==
    ASSUME RestoreInv, NEW w \in Workers, AdvanceLane(w)
    PROVE  Moves(w)
<1> DEFINE base == Out(w, "lane")
           next == [NextLane(w) EXCEPT !.after = 0, !.next = 0]
<1>1. "lane" \in Places BY DEF Places
<1>2. base \in CallRecords /\ base.at = "lane" /\ ~base.granted BY <1>1, Known, OutRecord
<1> HIDE DEF base
<1>3. \/ /\ next \in CallRecords /\ next.at = "lane" /\ ~next.granted
         /\ next.lane \in {"activation", "launch"}
      \/ next \in CallRecords /\ next.at = "idle" /\ ~next.granted
  <2>1. CASE worker[w].lane \in {"generation", "activation"}
    <3>1. PICK m \in {"activation", "launch"} : NextLane(w) = [base EXCEPT !.lane = m]
      BY <2>1 DEF NextLane, base
    <3> DEFINE r == [base EXCEPT !.lane = m]
    <3>2. r \in CallRecords /\ r.at = "lane" /\ r.granted = FALSE /\ r.lane = m
      BY <1>2 DEF CallRecords, Lanes
    <3>3. next = [r EXCEPT !.after = 0, !.next = 0] BY <3>1
    <3>4. 0 \in 0 .. Ours BY DEF Ours
    <3> HIDE DEF r, next
    <3> QED BY <3>2, <3>3, <3>4, PositionRecord
  <2>2. CASE worker[w].lane \notin {"generation", "activation"}
    <3>1. next = [NoCall EXCEPT !.after = 0, !.next = 0] BY <2>2 DEF NextLane
    <3>2. 0 \in 0 .. Ours BY DEF Ours
    <3> HIDE DEF next
    <3> QED BY <3>1, <3>2, NoCallRecord, PositionRecord
  <2> QED BY <2>1, <2>2
<1> HIDE DEF next
<1>4. Fits(w, next, row, effect) BY <1>3 DEF Fits, Finalizes, Follows, MayBegin, Lanes
<1>5. UNCHANGED <<row, effect, dispatched, told, deployment>> /\ (Fault \/ UNCHANGED faults)
  BY DEF AdvanceLane
<1>6. cursor' \in [Lanes -> 0 .. Ours]
  <2>1. worker[w].next \in 0 .. Ours /\ cursor \in [Lanes -> 0 .. Ours]
    BY Known DEF RestoreInv, Typed, CallRecords
  <2> QED BY <2>1 DEF AdvanceLane
<1>7. faults' \in 0 .. MaxFaults BY <1>5, FaultCounts
<1>8. To(w, Kept(w, next)) \/ To(w, NoCall) BY DEF AdvanceLane, next
<1> QED BY <1>4, <1>5, <1>6, <1>7, <1>8, KeptFits, NoCallFits, RowsSucceed, ToMoves DEF
  RestoreInv, Typed, Chain, Committed

LEMMA RecoveredFits ==
    ASSUME RestoreInv, NEW w \in Workers, NEW new, NEW eff
    PROVE  Fits(w, Recovered(w), new, eff)
BY OutFits DEF Recovered, Places, Special

LEMMA EnterRecoverMoves ==
    ASSUME RestoreInv, NEW w \in Workers, EnterRecover(w)
    PROVE  Moves(w)
<1> DEFINE next == [worker[w] EXCEPT !.at = "recover-read", !.inside = "generation"]
<1>1. ~worker[w].granted BY Known DEF EnterRecover, At, Knows, GrantedPlaces
<1>2. "recover-read" \in Places BY DEF Places
<1>3. next \in CallRecords /\ next.at = "recover-read" /\ ~next.granted
  BY <1>1, <1>2, Known DEF CallRecords, Guarded
<1> HIDE DEF next
<1>4. Fits(w, next, row, effect) BY <1>3, PlainFits DEF Special
<1> QED BY <1>4, RecoveredFits, TakesGuardMoves DEF EnterRecover, next, Guarded

LEMMA RecoverReadMoves ==
    ASSUME RestoreInv, NEW w \in Workers, RecoverRead(w)
    PROVE  Moves(w)
<1> DEFINE next == CASE row["generation"] = "starting" -> Go(w, "recover-mark")
                     [] row["generation"] = "uncertain" ->
                          HeldOr(w, Go(w, "recover-verify"), Recovered(w))
                     [] OTHER -> Recovered(w)
<1>1. ~worker[w].granted BY Known DEF RecoverRead, At, Knows, GrantedPlaces
<1>2. /\ Fits(w, Go(w, "recover-mark"), row, effect)
      /\ Fits(w, Go(w, "recover-verify"), row, effect)
  BY <1>1, GoFits DEF Places, Special
<1>3. next \in {Go(w, "recover-mark"), HeldOr(w, Go(w, "recover-verify"), Recovered(w)),
                Recovered(w)}
  <2>1. CASE row["generation"] = "starting" BY <2>1
  <2>2. CASE row["generation"] = "uncertain" BY <2>2
  <2>3. CASE row["generation"] \notin {"starting", "uncertain"} BY <2>3
  <2> QED BY <2>1, <2>2, <2>3
<1> HIDE DEF next
<1>4. Fits(w, next, row, effect) BY <1>2, <1>3, RecoveredFits, HeldOrFits
<1> QED BY <1>4, RecoveredFits, QueryMoves DEF RecoverRead, next

LEMMA RecoverMarkMoves ==
    ASSUME RestoreInv, NEW w \in Workers, RecoverMark(w)
    PROVE  Moves(w)
<1>1. \A rows : Fits(w, Go(w, "recover-reread"), rows, effect)
  BY Known, GoFits DEF RecoverMark, At, Knows, GrantedPlaces, Places, Special
<1> QED BY <1>1, MarkedSucceeds, TransactMoves DEF RecoverMark, Guarded

LEMMA RecoverRereadMoves ==
    ASSUME RestoreInv, NEW w \in Workers, RecoverReread(w)
    PROVE  Moves(w)
<1>1. Fits(w, Go(w, "recover-verify"), row, effect)
  BY Known, GoFits DEF RecoverReread, At, Knows, GrantedPlaces, Places, Special
<1> QED BY <1>1, RecoveredFits, QueryMoves DEF RecoverReread

LEMMA RecoverVerifyMoves ==
    ASSUME RestoreInv, NEW w \in Workers, RecoverVerify(w)
    PROVE  Moves(w)
<1> DEFINE next == Go(w, "recover-finalize")
<1>1. ~worker[w].granted BY Known DEF RecoverVerify, At, Knows, GrantedPlaces
<1>2. "recover-finalize" \in Places BY DEF Places
<1>3. next \in CallRecords /\ next.at = "recover-finalize" /\ ~next.granted
  BY <1>1, <1>2, Known, GoRecord
<1> HIDE DEF next
<1>4. ASSUME DestinationPublished
      PROVE  Fits(w, next, row, effect)
  BY <1>3, <1>4 DEF Fits, Finalizes, Follows, MayBegin, DestinationPublished
<1> QED BY <1>4, RecoveredFits, OnlyMoves DEF RecoverVerify, next

LEMMA RecoverFinalizeMoves ==
    ASSUME RestoreInv, NEW w \in Workers, RecoverFinalize(w)
    PROVE  Moves(w)
<1>1. effect["generation"] = "done"
  BY Known DEF RecoverFinalize, At, Knows, Finalizes, Guarded
<1>2. ASSUME Finalizable("generation", "uncertain")
      PROVE  Succeeds(With("generation", "settled-late"), effect)
  BY <1>1, <1>2, FinalizableRow, SettledSucceeds DEF Guarded, CommittedStates
<1> QED BY <1>2, RecoveredFits, TransactMoves, OnlyMoves DEF RecoverFinalize

LEMMA LaunchVisitMoves ==
    ASSUME RestoreInv, NEW w \in Workers, LaunchVisit(w)
    PROVE  Moves(w)
<1>1. \A new : Fits(w, Out(w, "advance"), new, effect) BY OutFits DEF Places, Special
<1> QED BY <1>1, LaunchMoves DEF LaunchVisit

--------------------------------------------------------------------------------
(* Faults. *)

LEMMA CrashMoves ==
    ASSUME RestoreInv, NEW w \in Workers, Crash(w)
    PROVE  Moves(w)
<1>1. To(w, NoCall) /\ Fault /\ UNCHANGED <<row, effect, dispatched, told, sweep>>
  BY DEF Crash
<1>2. faults' \in 0 .. MaxFaults BY <1>1, FaultCounts
<1> QED BY <1>1, <1>2, NoCallFits, RowsSucceed, ToMoves DEF RestoreInv, Typed, sweep, Chain,
  Committed

\* What the invariant is about is untouched, or more of the work is done.
LEMMA OutsideKeeps ==
    ASSUME RestoreInv, UNCHANGED <<row, dispatched, worker, told>>, Typed',
           \A s \in Guarded : effect[s] = "done" => effect'[s] = "done"
    PROVE  RestoreInv'
BY DEF RestoreInv, Chain, Committed, Knows

LEMMA LoseGuardKeeps ==
    ASSUME RestoreInv, NEW w \in Workers, LoseGuard(w)
    PROVE  RestoreInv'
<1>1. faults' \in 0 .. MaxFaults BY FaultCounts DEF LoseGuard
<1>2. Typed' BY <1>1 DEF LoseGuard, RestoreInv, Typed, sweep
<1> QED BY <1>2, OutsideKeeps DEF LoseGuard

LEMMA LoseLifecycleKeeps ==
    ASSUME RestoreInv, NEW w \in Workers, LoseLifecycle(w)
    PROVE  RestoreInv'
<1>1. faults' \in 0 .. MaxFaults BY FaultCounts DEF LoseLifecycle
<1>2. lifecycle' \in [shared : SUBSET Workers, exclusive : Workers \cup {Free}]
  <2>1. lifecycle \in [shared : SUBSET Workers, exclusive : Workers \cup {Free}]
    BY DEF RestoreInv, Typed
  <2> QED BY <2>1 DEF LoseLifecycle
<1>3. Typed' BY <1>1, <1>2 DEF LoseLifecycle, RestoreInv, Typed, sweep
<1> QED BY <1>3, OutsideKeeps DEF LoseLifecycle

LEMMA ProviderFinishesKeeps ==
    ASSUME RestoreInv, NEW s \in Guarded, ProviderFinishes(s)
    PROVE  RestoreInv'
<1>1. /\ effect' = [effect EXCEPT ![s] = "done"]
      /\ UNCHANGED <<row, dispatched, guard, lifecycle, worker, faults, told, sweep>>
  BY DEF ProviderFinishes
<1>2. Typed' /\ \A t \in Guarded : effect[t] = "done" => effect'[t] = "done"
  BY <1>1 DEF RestoreInv, Typed, sweep
<1> QED BY <1>1, <1>2, OutsideKeeps

--------------------------------------------------------------------------------
(* The restore. *)

LEMMA StepMoves ==
    ASSUME RestoreInv, NEW w \in Workers, Step(w)
    PROVE  Moves(w)
<1>1. ASSUME \/ ReadSession(w) \/ ReadCapture(w) \/ ReadGeneration(w)
             \/ Renew(w) \/ StopForCapture(w) \/ Captured(w)
             \/ EnterResume(w) \/ ResumeRead(w) \/ ResumeClaim(w)
             \/ ResumePublish(w) \/ ResumePublished(w) \/ ResumeFinalize(w)
      PROVE  Moves(w)
  BY <1>1, ReadSessionMoves, ReadCaptureMoves, ReadGenerationMoves, RenewMoves,
     StopForCaptureMoves, CapturedMoves, EnterResumeMoves, ResumeReadMoves,
     ResumeClaimMoves, ResumePublishMoves, ResumePublishedMoves, ResumeFinalizeMoves
<1>2. ASSUME \/ ResumeReadback(w) \/ ResumeMark(w) \/ EnterReconcile(w)
             \/ ReconcileRead(w) \/ ReconcileVerify(w) \/ ReconcileFinalize(w)
             \/ ReconcileMark(w) \/ EnterGeneration(w) \/ GenerationReserve(w)
             \/ GenerationClaim(w) \/ GenerationReread(w) \/ GenerationPublish(w)
      PROVE  Moves(w)
  BY <1>2, ResumeReadbackMoves, ResumeMarkMoves, EnterReconcileMoves, ReconcileReadMoves,
     ReconcileVerifyMoves, ReconcileFinalizeMoves, ReconcileMarkMoves, EnterGenerationMoves,
     GenerationReserveMoves, GenerationClaimMoves, GenerationRereadMoves,
     GenerationPublishMoves
<1>3. ASSUME \/ GenerationVerify(w) \/ GenerationPublished(w) \/ GenerationFinalize(w)
             \/ GenerationCommitted(w) \/ ReadActivation(w) \/ ReadLaunch(w)
             \/ EnterDetach(w) \/ DetachReserve(w) \/ DetachClaim(w)
             \/ DetachDispatch(w) \/ DetachProved(w) \/ DetachFinalize(w)
      PROVE  Moves(w)
  BY <1>3, GenerationVerifyMoves, GenerationPublishedMoves, GenerationFinalizeMoves,
     GenerationCommittedMoves, ReadActivationMoves, ReadLaunchMoves, EnterDetachMoves,
     DetachReserveMoves, DetachClaimMoves, DetachDispatchMoves, DetachProvedMoves,
     DetachFinalizeMoves
<1>4. ASSUME \/ DetachMark(w) \/ DetachBlocked(w) \/ EnterActivate(w)
             \/ ActivationReserve(w) \/ EnterActivation(w) \/ ActivationClaim(w)
             \/ ActivationRead(w) \/ ActivationMark(w) \/ ActivationReread(w)
             \/ ActivationProvider(w) \/ ActivationPrepare(w) \/ ActivationPrepared(w)
      PROVE  Moves(w)
  BY <1>4, DetachMarkMoves, DetachBlockedMoves, EnterActivateMoves, ActivationReserveMoves,
     EnterActivationMoves, ActivationClaimMoves, ActivationReadMoves, ActivationMarkMoves,
     ActivationRereadMoves, ActivationProviderMoves, ActivationPrepareMoves,
     ActivationPreparedMoves
<1>5. ASSUME \/ ActivationFinalize(w) \/ ActivationUncertain(w) \/ RunLaunch(w)
             \/ ListLane(w) \/ AdvanceLane(w) \/ EnterRecover(w)
             \/ RecoverRead(w) \/ RecoverMark(w) \/ RecoverReread(w)
             \/ RecoverVerify(w) \/ RecoverFinalize(w) \/ LaunchVisit(w)
      PROVE  Moves(w)
  BY <1>5, ActivationFinalizeMoves, ActivationUncertainMoves, RunLaunchMoves, ListLaneMoves,
     AdvanceLaneMoves, EnterRecoverMoves, RecoverReadMoves, RecoverMarkMoves,
     RecoverRereadMoves, RecoverVerifyMoves, RecoverFinalizeMoves, LaunchVisitMoves
<1> QED BY <1>1, <1>2, <1>3, <1>4, <1>5 DEF Step

LEMMA InitKeeps ==
    ASSUME Init
    PROVE  RestoreInv
<1>1. Typed
  <2>1. row \in [Stages -> RowStates] BY DEF Init, RowStates
  <2>2. /\ effect \in [Guarded -> {"none", "begun", "done"}]
        /\ dispatched \in [Guarded -> {0, 1}]
        /\ guard \in [Guarded -> Workers \cup {Free}]
        /\ cursor \in [Lanes -> 0 .. Ours]
    BY DEF Init, Ours
  <2>3. lifecycle \in [shared : SUBSET Workers, exclusive : Workers \cup {Free}] BY DEF Init
  <2>4. worker \in [Workers -> CallRecords] BY NoCallRecord DEF Init
  <2>5. faults \in 0 .. MaxFaults BY RestoreAssumption DEF Init
  <2>6. told \in BOOLEAN /\ deployment \in Deployments BY DEF Init
  <2> QED BY <2>1, <2>2, <2>3, <2>4, <2>5, <2>6 DEF Typed
<1>2. Chain BY DEF Init, Chain, Stages, Guarded, Committed, CommittedStates
<1>3. \A w \in Workers, s \in Guarded : ~MayBegin(worker[w], s)
  BY NoCallRecord DEF Init, MayBegin
<1>4. \A w \in Workers : Knows(worker[w])
  BY <1>3, NoCallRecord DEF Init, Knows, Finalizes, Follows
<1>5. \A s \in Guarded : row[s] = "absent" /\ dispatched[s] = 0 BY DEF Init, Stages
<1> QED BY <1>1, <1>2, <1>3, <1>4, <1>5 DEF RestoreInv, Committed, CommittedStates

LEMMA NextKeeps ==
    ASSUME RestoreInv, [Next]_vars
    PROVE  RestoreInv'
<1>1. CASE UNCHANGED vars
  <2>1. Typed' BY <1>1 DEF vars, sweep, RestoreInv, Typed
  <2> QED BY <1>1, <2>1, OutsideKeeps DEF vars
<1>2. ASSUME NEW w \in Workers,
             \/ StartRestore(w) \/ StartCaptures(w) \/ StartRecovery(w)
             \/ Step(w)
             \/ Crash(w) \/ LoseGuard(w) \/ LoseLifecycle(w)
      PROVE  RestoreInv'
  BY <1>2, StartRestoreMoves, StartCapturesMoves, StartRecoveryMoves, StepMoves, CrashMoves,
     LoseGuardKeeps, LoseLifecycleKeeps, MovesKeep
<1>3. ASSUME NEW s \in Guarded, ProviderFinishes(s)
      PROVE  RestoreInv'
  BY <1>3, ProviderFinishesKeeps
<1> QED BY <1>1, <1>2, <1>3 DEF Next

(* The invariant of a restore, for every set of processes and deployments   *)
(* and every number of faults: the token of each stage, what a worker knows *)
(* where it finalises or goes on, and the chain of the stages.              *)
THEOREM RestoreInvariant == Spec => []RestoreInv
<1>1. Init => RestoreInv BY InitKeeps
<1>2. RestoreInv /\ [Next]_vars => RestoreInv' BY NextKeeps
<1> QED BY <1>1, <1>2, PTL DEF Spec

(* The rows, locks, cursors and counters of a restore keep their types: in  *)
(* particular a lane's cursor never names a session behind the last one     *)
(* that a page can lead past.                                               *)
THEOREM RestoreTypes == Spec => []TypeOK
<1>1. RestoreInv => TypeOK
  <2> SUFFICES ASSUME RestoreInv PROVE TypeOK
    OBVIOUS
  <2>1. \A w \in Workers : worker[w].inside \in Guarded \cup {"none"}
    BY Known DEF CallRecords
  <2>2. dispatched \in [Guarded -> 0 .. 2] BY DEF RestoreInv, Typed
  <2> QED BY <2>1, <2>2 DEF RestoreInv, Typed, TypeOK
<1> QED BY <1>1, RestoreInvariant, PTL

(* The work of a stage (publishing the checkpoint or the generation, the    *)
(* detachment of the old writer, the attachment of the new one) is begun at *)
(* most once, however many foregrounds and sweeps claim, resume or recover  *)
(* it and whichever answers, locks and processes are lost.                  *)
THEOREM WorkIsBegunOnce == Spec => []BegunOnce
<1>1. RestoreInv => BegunOnce BY DEF RestoreInv, Typed, BegunOnce
<1> QED BY <1>1, RestoreInvariant, PTL

(* A stage is finalised only by a caller that knows its work as done, so a  *)
(* committed row is never a claim about work that was not; and when restore *)
(* answers that the workflow is complete, every stage of it is committed.   *)
THEOREM CommittedWorkIsReal == Spec => []CommittedIsReal
<1>1. RestoreInv => CommittedIsReal
  BY DEF RestoreInv, Chain, CommittedIsReal, Committed, CommittedStates, Guarded
<1> QED BY <1>1, RestoreInvariant, PTL

================================================================================
