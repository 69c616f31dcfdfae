------------------------- MODULE ProviderAdoption -------------------------
(***************************************************************************)
(* The provider ledger with its PostgreSQL authority: how a head request   *)
(* is resolved and judged, and how a version 2 ledger, whose history is in *)
(* its own files, becomes a version 3 ledger, whose history is in          *)
(* PostgreSQL, with a marker that survives a crash at any step.            *)
(***************************************************************************)
EXTENDS ProviderLedger

-----------------------------------------------------------------------------
\* The database's side.

RowIs(h) == IF row = NoRow THEN h = Genesis(h.version) ELSE row = h

\* The last committed state of a storage in the operation index.
latestCommittedStorage(s) ==
    LET mine == {o \in Ops : index[o].phase = "committed" /\ index[o].storage = s}
    IN  IF mine = {} THEN NoStorage
        ELSE LET last == CHOOSE o \in mine :
                           \A q \in mine : index[q].after.rev <= index[o].after.rev
             IN  index[last].after

\* Mutant: the head is updated without comparing the whole of the old one.
AcceptsSameGeneration(r) ==
    /\ IF row = NoRow THEN TRUE ELSE row.gen = r.exp.gen
    /\ CASE r.why = "append" -> isNormalAppend(r.exp, r.next)
         [] r.why = "rotate" -> isPureRotation(r.exp, r.next)
         [] r.why = "adopt" -> isAdoptionRotation(r.exp, r.next)

\* Does the transaction accept the request?  Version 3 also compares the
\* storage the operation started from with the index.
Accepts(r) ==
    /\ RowIs(r.exp)
    /\ CASE r.why = "append" ->
              /\ isNormalAppend(r.exp, r.next)
              /\ r.exp.version = 3 =>
                   /\ latestCommittedStorage(r.frame.storage) =
                        HeadState(r.exp).storages[r.frame.storage]
                   /\ index[r.frame.op].phase =
                        IF r.frame.type = "prepared" THEN "none" ELSE "prepared"
         [] r.why = "rotate" -> isPureRotation(r.exp, r.next)
         [] r.why = "adopt" -> isAdoptionRotation(r.exp, r.next)
Idempotent(r) == r.why = "adopt" /\ row = r.next

\* What an adoption installs: every operation of the version 2 history.
insertAdoptedOperations(h) == HeadState(h).ops

\* Mutant: the head moves and the operation row is left for later.
HeadOnly(r) == row' = r.next /\ UNCHANGED index

compareAndAdvance(r) ==
    /\ row' = r.next
    /\ index' = CASE r.why = "append" /\ r.exp.version = 3 ->
                       [index EXCEPT ![r.frame.op] = HeadState(r.next).ops[r.frame.op]]
                  [] r.why = "adopt" -> insertAdoptedOperations(r.exp)
                  [] OTHER -> index

Resolve(r) == IF Accepts(r) THEN compareAndAdvance(r)
              ELSE UNCHANGED <<row, index>>

\* The answer reaches the caller.
CasAnswered(p) ==
    LET r == wire[p]
    IN  /\ proc[p].pc = "cas"
        /\ Resolve(r)
        /\ proc' = [proc EXCEPT ![p].pc = "judge",
              ![p].ack = IF Accepts(r) \/ Idempotent(r) THEN "true" ELSE "false"]
        /\ wire' = [wire EXCEPT ![p] = NoRequest]
        /\ UNCHANGED <<file, marker, lock, stray, granted, told, ghost, faults>>

\* What becomes of a request nobody waits for any more: it took effect, it
\* was rolled back, or the server is still committing it.
Abandon(r, fate) ==
    /\ IF fate = "landed" THEN Resolve(r) ELSE UNCHANGED <<row, index>>
    /\ stray' = IF fate = "open" THEN stray \cup {r} ELSE stray
Fates == {"landed", "dropped", "open"}

\* The acknowledgement of an append or a rotation is lost.
CasLost(p) ==
    /\ Fault
    /\ proc[p].pc = "cas" /\ proc[p].why # "adopt"
    /\ \E fate \in Fates : Abandon(wire[p], fate)
    /\ proc' = [proc EXCEPT ![p].pc = "judge", ![p].ack = "lost"]
    /\ wire' = [wire EXCEPT ![p] = NoRequest]
    /\ UNCHANGED <<file, marker, lock, granted, told, ghost>>

\* The acknowledgement of an adoption is lost: the authority reads the row
\* back under its row lock, behind a writer that is still resolving, or fails.
AdoptionLost(p) ==
    /\ Fault
    /\ proc[p].pc = "cas" /\ proc[p].why = "adopt"
    /\ \E fate \in Fates, resolved \in BOOLEAN :
         /\ resolved => fate # "open"
         /\ Abandon(wire[p], fate)
         /\ proc' = [proc EXCEPT ![p].pc = "judge",
              ![p].ack = IF ~resolved THEN "error"
                         ELSE IF fate = "landed" /\ (Accepts(wire[p]) \/ Idempotent(wire[p]))
                         THEN "true" ELSE "false"]
    /\ wire' = [wire EXCEPT ![p] = NoRequest]
    /\ UNCHANGED <<file, marker, lock, granted, told, ghost>>

\* A request takes effect, or is rolled back, after its sender went on.
StrayResolves(s) ==
    /\ s \in stray
    /\ stray' = stray \ {s}
    /\ \/ /\ Accepts(s)
          /\ compareAndAdvance(s)
          /\ ghost' = [ghost EXCEPT !.strayLanded = TRUE]
       \/ UNCHANGED <<row, index, ghost>>
    /\ UNCHANGED <<file, marker, lock, proc, wire, granted, told, faults>>

-----------------------------------------------------------------------------
\* The caller's side: what the answer, or the head read back, says.

compareAndResolveTrustedHead(p, readable) ==
    IF proc[p].ack = "true" THEN "advanced"
    ELSE IF ~readable THEN "unknown"
    ELSE IF HeadIs(p, proc[p].next) THEN "advanced"
    ELSE IF HeadIs(p, proc[p].head) THEN "unchanged"
    ELSE "unknown"

compareAndResolveAdoption(p, readable) ==
    IF proc[p].ack = "true" THEN "advanced"
    ELSE IF proc[p].ack = "false" /\ readable /\ HeadIs(p, proc[p].head)
    THEN "unchanged" ELSE "unknown"

\* A read-back may fail too, which is a fault of its own.
ReadsBack(readable) == IF readable THEN UNCHANGED faults ELSE Fault

\* An append is answered: advanced, taken back, or uncertain.
JudgeAppend(p, readable) ==
    LET c == proc[p]
        outcome == compareAndResolveTrustedHead(p, readable)
    IN  /\ c.pc = "judge" /\ c.why = "append"
        /\ ReadsBack(readable)
        /\ CASE outcome = "advanced" ->
                  /\ Idles(p) /\ Leave(p)
                  /\ told' = told \cup {<<c.frame.op, c.frame.type>>}
                  /\ granted' = IF c.frame.type = "prepared"
                                   /\ validateV3AuthorityProjection(p, c.next)
                                THEN [granted EXCEPT ![c.frame.op] = @ + 1] ELSE granted
                  /\ UNCHANGED file
             [] outcome = "unchanged" ->
                  /\ IF TrueGenesis(c.head)
                     THEN Clean(p, cleanupGeneration(0), "failed") /\ UNCHANGED file
                     ELSE Goto(p, "failed") /\ file' = Truncated(file, c.head)
                  /\ UNCHANGED <<lock, granted, told>>
             [] outcome = "unknown" -> Answers(p) /\ UNCHANGED file
        /\ UNCHANGED <<row, index, marker, wire, stray, ghost>>

\* A rotation: the old generation goes once the head has moved; an unmoved
\* head takes the new one back; an unknown outcome leaves both.
JudgeRotate(p, readable) ==
    LET c == proc[p]
        outcome == compareAndResolveTrustedHead(p, readable)
    IN  /\ c.pc = "judge" /\ c.why = "rotate"
        /\ ReadsBack(readable)
        /\ CASE outcome = "advanced" /\ validateV3AuthorityProjection(p, c.next) ->
                  /\ LET plan == cleanupGeneration(c.head.gen)
                     IN  proc' = [proc EXCEPT ![p].head = c.next,
                            ![p].pc = IF plan = <<>> THEN "write" ELSE "clean",
                            ![p].todo = plan, ![p].then = "write"]
                  /\ UNCHANGED <<lock, granted, told>>
             [] outcome = "unchanged" ->
                  /\ Clean(p, cleanupGeneration(c.next.gen), "failed")
                  /\ UNCHANGED <<lock, granted, told>>
             [] OTHER -> Answers(p)
        /\ UNCHANGED <<row, index, file, marker, wire, stray, ghost>>

-----------------------------------------------------------------------------
\* Adoption of a version 2 ledger.

Mark(phase, h) == [phase |-> phase, exp |-> h, next |-> AdoptHead(h)]
MarkGen(h) == IF h.version = 2 THEN h.gen + 1 ELSE h.gen
Marks(g, phase) == IF g \in Gens THEN {m \in marker[g] : m.phase = phase} ELSE {}

\* requiredGenerationPresence and the exact (never truncating) load.
PresenceComplete(h) ==
    \/ TrueGenesis(h)
    \/ Exists(<<h.gen, "ledger">>) /\ (h.gen = 0 \/ Exists(<<h.gen, "ckpt">>))
LoadsExactly(h) == Loads(file, h) /\ ~HasTail(h)

predecessorIsV2(g) ==
    LET c == Live(<<g, "ckpt">>)
        l == Live(<<g, "ledger">>)
    IN  IF c # NoFile THEN c.version = 2
        ELSE l # NoFile /\ l.frames # <<>> /\ l.frames[1].version = 2

\* recoverV2AdoptionIfNeeded: an interrupted adoption is taken up from its
\* marker; without one a version 2 head is adopted and a version 3 head opened.
recoverV2AdoptionIfNeeded(p) ==
    LET h == proc[p].head
        g == MarkGen(h)
        pending == Marks(g, "pending")
        verified == Marks(g, "verified")
        m == CHOOSE x \in IF verified # {} THEN verified ELSE pending : TRUE
        Take(pc) == proc' = [proc EXCEPT ![p].pc = pc, ![p].head = m.exp,
                                         ![p].next = m.next]
    IN  /\ proc[p].pc = "open" /\ Version(p) = 3
        /\ CASE verified # {} /\ h = m.next /\ ~PresenceComplete(m.exp)
                  /\ LoadsExactly(m.next) ->
                    Take("averify") /\ UNCHANGED <<lock, granted, told>>
             [] (IF verified # {} THEN h = m.next
                 ELSE pending # {} /\ h \in {m.exp, m.next})
                  /\ PresenceComplete(m.exp) ->
                    Take("arecover") /\ UNCHANGED <<lock, granted, told>>
             [] pending = {} /\ verified = {} /\ h.version = 2 ->
                    /\ Clean(p, IF h.gen = 0 THEN cleanupCheckpointFile(0)
                                ELSE cleanupGeneration(h.gen - 1), "asource")
                    /\ UNCHANGED <<lock, granted, told>>
             [] pending = {} /\ verified = {} /\ h.version = 3
                  /\ (h.gen = 0 \/ ~predecessorIsV2(h.gen - 1)) ->
                    Goto(p, "tidy") /\ UNCHANGED <<lock, granted, told>>
             [] OTHER -> Answers(p)
        /\ UNCHANGED <<row, index, file, marker, wire, stray, ghost, faults>>

\* A version 2 process opens directly.
OpenV2(p) ==
    /\ proc[p].pc = "open"
    /\ Version(p) = 2 /\ proc[p].head.version = 2
    /\ Goto(p, "tidy")
    /\ UNCHANGED <<row, index, file, marker, lock, wire, stray, granted, told,
                   ghost, faults>>

\* adoptV2Generation, first part: load the source, clear the candidate's names.
AdoptSource(p) ==
    LET h == proc[p].head
    IN  /\ proc[p].pc = "asource"
        /\ IF h.gen < MaxGen /\ Loads(file, h) /\ Held(p) /\ HeadIs(p, h)
           THEN /\ file' = IF HasTail(h) THEN Truncated(file, h) ELSE file
                /\ Clean(p, cleanupGeneration(h.gen + 1), "acreate")
                /\ UNCHANGED <<lock, granted, told>>
           ELSE Answers(p) /\ UNCHANGED file
        /\ UNCHANGED <<row, index, marker, wire, stray, ghost, faults>>

\* Second part: the version 3 candidate, complete and durable.
AdoptCandidate(p) ==
    LET c == proc[p]
        next == AdoptHead(c.head)
    IN  /\ c.pc = "acreate"
        /\ IF Fresh(p, {"ckpt", "ledger"})
           THEN /\ file' = SyncAll(writeCheckpointFrames([file EXCEPT
                      ![<<next.gen, "ledger">>].live = LedgerFile(<<>>, FALSE)],
                      next), {<<next.gen, "ckpt">>, <<next.gen, "ledger">>})
                /\ proc' = [proc EXCEPT ![p].pc = "amark", ![p].next = next]
                /\ UNCHANGED <<lock, granted, told>>
           ELSE Answers(p) /\ UNCHANGED file
        /\ UNCHANGED <<row, index, marker, wire, stray, ghost, faults>>

createAdoptionMarker(g, m) == marker' = [marker EXCEPT ![g] = @ \cup {m}]

\* Third part: the pending marker; a failure before it removes the candidate.
AdoptMark(p) ==
    LET c == proc[p]
    IN  /\ c.pc = "amark"
        /\ IF Held(p) /\ HeadIs(p, c.head) /\ Marks(c.next.gen, "pending") = {}
           THEN createAdoptionMarker(c.next.gen, Mark("pending", c.head))
                /\ Goto(p, "asend")
           ELSE /\ Clean(p, cleanupGeneration(c.next.gen), "failed")
                /\ UNCHANGED marker
        /\ UNCHANGED <<row, index, file, lock, wire, stray, granted, told, ghost,
                       faults>>

\* recoverV2AdoptionMaterial: both generations must still be exact.
AdoptRecover(p) ==
    LET c == proc[p]
    IN  /\ c.pc = "arecover"
        /\ IF LoadsExactly(c.head) /\ LoadsExactly(c.next)
              /\ c.next.ckpt = checkpointArrays(HeadState(c.head), 3)
           THEN Goto(p, "asend") /\ UNCHANGED <<lock, granted, told>>
           ELSE Answers(p)
        /\ UNCHANGED <<row, index, file, marker, wire, stray, ghost, faults>>

\* compareAndAdopt is sent under the lock.
AdoptSend(p) ==
    /\ proc[p].pc = "asend"
    /\ IF Held(p)
       THEN Sent(p, "adopt", proc[p].next) /\ UNCHANGED <<lock, granted, told>>
       ELSE Answers(p) /\ UNCHANGED wire
    /\ UNCHANGED <<row, index, file, marker, stray, ghost, faults>>

JudgeAdopt(p, readable) ==
    LET c == proc[p]
        outcome == compareAndResolveAdoption(p, readable)
    IN  /\ c.pc = "judge" /\ c.why = "adopt"
        /\ ReadsBack(readable)
        /\ CASE outcome = "advanced" ->
                  Goto(p, "averify") /\ UNCHANGED <<lock, granted, told, marker>>
             [] outcome = "unchanged" ->
                  \* discardUnchangedV2Adoption
                  /\ marker' = [marker EXCEPT ![c.next.gen] =
                                  {m \in @ : m.phase # "pending"}]
                  /\ Clean(p, IF Held(p) THEN cleanupGeneration(c.next.gen)
                              ELSE <<>>, "failed")
                  /\ UNCHANGED <<lock, granted, told>>
             [] OTHER -> Answers(p) /\ UNCHANGED marker
        /\ UNCHANGED <<row, index, file, wire, stray, ghost>>

\* finishVerifiedV2Adoption: the verified marker, then the source, the pending
\* marker and at last the verified marker go.
AdoptVerify(p) ==
    LET c == proc[p]
        g == c.next.gen
    IN  /\ c.pc = "averify"
        /\ IF /\ Held(p) /\ HeadIs(p, c.next) /\ compareProjection(p, c.next)
           THEN /\ IF Marks(g, "verified") # {} THEN UNCHANGED marker
                   ELSE createAdoptionMarker(g, Mark("verified", c.head))
                /\ Clean(p, cleanupGeneration(c.head.gen), "aunmark")
                /\ UNCHANGED <<lock, granted, told>>
           ELSE Answers(p) /\ UNCHANGED marker
        /\ UNCHANGED <<row, index, file, wire, stray, ghost, faults>>

AdoptUnmark(p) ==
    LET c == proc[p]
        g == c.next.gen
    IN  /\ c.pc = "aunmark"
        /\ IF ~Held(p) THEN Answers(p) /\ UNCHANGED marker
           ELSE /\ marker' = [marker EXCEPT ![g] =
                     {m \in @ : m.phase = "verified" /\ Marks(g, "pending") # {}}]
                /\ proc' = IF Marks(g, "pending") # {} THEN proc
                           ELSE [proc EXCEPT ![p].pc = "decide",
                                             ![p].head = c.next]
                /\ UNCHANGED <<lock, granted, told>>
        /\ UNCHANGED <<row, index, file, wire, stray, ghost, faults>>

-----------------------------------------------------------------------------
\* Faults.

\* A write that a crash interrupts leaves a part of its frame.
Torn(fs, p) ==
    IF proc[p].pc # "sync" THEN {fs}
    ELSE {fs, [fs EXCEPT ![<<proc[p].head.gen, "ledger">>].live =
                 LedgerFile(proc[p].head.log, TRUE)]}

\* A process dies, perhaps to be restarted as a version 3 one.
Crash(p) ==
    /\ Fault
    /\ proc[p].pc # "idle"
    /\ \E v \in {Version(p), 3} :
         proc' = [proc EXCEPT ![p] = [Idle EXCEPT !.mode = v]]
    /\ Leave(p)
    /\ wire' = [wire EXCEPT ![p] = NoRequest]
    /\ IF wire[p] = NoRequest THEN UNCHANGED <<row, index, stray>>
       ELSE \E fate \in Fates : Abandon(wire[p], fate)
    /\ file' \in Torn(file, p)
    /\ UNCHANGED <<marker, granted, told, ghost>>

\* An idle process is upgraded.
Upgrade(p) ==
    /\ proc[p].pc = "idle" /\ Version(p) = 2
    /\ proc' = [proc EXCEPT ![p].mode = 3]
    /\ UNCHANGED <<row, index, file, marker, lock, wire, stray, granted, told,
                   ghost, faults>>

\* The host loses power: every process dies, and of what was not synced any
\* part may be gone.
PowerLoss ==
    /\ Fault
    /\ \E p \in Procs : proc[p].pc # "idle"
    /\ \E fate \in Fates :
         IF \E p \in Procs : wire[p] # NoRequest
         THEN Abandon(wire[CHOOSE p \in Procs : wire[p] # NoRequest], fate)
         ELSE fate = "dropped" /\ UNCHANGED <<row, index, stray>>
    /\ \E gone \in SUBSET {n \in Names :
                             file[n].live # (IF file[n].entry THEN file[n].dur
                                             ELSE NoFile)} :
         file' = [n \in Names |->
           LET left == IF n \notin gone THEN file[n].live
                       ELSE IF file[n].entry THEN file[n].dur ELSE NoFile
           IN  [live |-> left, dur |-> left, entry |-> left # NoFile]]
    /\ proc' = [p \in Procs |-> [Idle EXCEPT !.mode = Version(p)]]
    /\ lock' = NoProc
    /\ wire' = [p \in Procs |-> NoRequest]
    /\ UNCHANGED <<marker, granted, told, ghost>>

\* The helper that holds the lock dies while its process goes on.
LockLost(p) ==
    /\ Fault
    /\ lock = p
    /\ lock' = NoProc
    /\ ghost' = [ghost EXCEPT !.lockLost = TRUE]
    /\ UNCHANGED <<row, index, file, marker, proc, wire, stray, granted, told>>

\* A read, write, sync or unlink fails: after a write to the ledger it is
\* taken back; elsewhere the call ends and leaves what there is.
IoError(p) ==
    /\ Fault
    /\ proc[p].pc \in {"tidy", "clean", "load", "rcreate", "rwrite", "write",
                       "sync", "asource", "acreate", "arecover", "averify"}
    /\ IF proc[p].pc = "sync" THEN Goto(p, "undo") /\ UNCHANGED <<lock, granted, told>>
       ELSE Answers(p)
    /\ UNCHANGED <<row, index, file, marker, wire, stray, ghost>>

-----------------------------------------------------------------------------
Decide(p) ==
    \E o \in Ops : \/ commitOperation(p, o)
                  \/ \E kind \in Kinds, s \in Storages :
                       prepareOperation(p, o, kind, s)

Judge(p) == \E readable \in BOOLEAN :
    JudgeAppend(p, readable) \/ JudgeRotate(p, readable) \/ JudgeAdopt(p, readable)

Next ==
    \/ \E p \in Procs :
         \/ Begin(p) \/ CleanStep(p) \/ Failed(p) \/ OpenRefused(p) \/ OpenV2(p)
         \/ recoverV2AdoptionIfNeeded(p) \/ Tidy(p)
         \/ loadGenerationState(p) \/ LoadRefused(p)
         \/ Decide(p) \/ Reads(p)
         \/ RotateCreate(p) \/ RotateWrite(p)
         \/ AppendWrite(p) \/ AppendSync(p) \/ AppendUndo(p)
         \/ CasAnswered(p) \/ CasLost(p) \/ AdoptionLost(p) \/ Judge(p)
         \/ AdoptSource(p) \/ AdoptCandidate(p) \/ AdoptMark(p)
         \/ AdoptRecover(p) \/ AdoptSend(p) \/ AdoptVerify(p) \/ AdoptUnmark(p)
         \/ Crash(p) \/ Upgrade(p) \/ LockLost(p) \/ IoError(p)
    \/ \E s \in stray : StrayResolves(s)
    \/ PowerLoss

Spec == Init /\ [][Next]_vars

-----------------------------------------------------------------------------
\* Properties.

\* What the ledger says: the index for version 3, the replayed files for
\* version 2.
DurableOps == IF row = NoRow THEN [o \in Ops |-> NoRecord]
              ELSE IF row.version = 3 THEN index ELSE HeadState(row).ops
DurableStorages == IF row = NoRow THEN [s \in Storages |-> NoStorage]
                   ELSE HeadState(row).storages

\* The files a call is about to remove, with a restart in between, are never
\* the ones the head names: whoever opens the directory next, even after a
\* loss of power, can load the state of the head.  Only a lock that was lost
\* while it was held, or a request that took effect after its sender had gone
\* on, can break this.
HeadReadable ==
    (~ghost.lockLost /\ ~ghost.strayLanded /\ row # NoRow) =>
        /\ Loads(file, row)
        /\ Loads([n \in Names |-> [file[n] EXCEPT !.live =
                     IF file[n].entry THEN file[n].dur ELSE NoFile]], row)

\* An operation is dispatched at most once, however often it is prepared, by
\* whomever, and whatever crashed in between: a second prepare is a replay.
DispatchedOnce == ~ghost.lockLost => \A o \in Ops : granted[o] <= 1

\* What a caller was told is durable stays so, through lost answers, rotations
\* that drop the record from the files and the move to version 3.
ToldIsDurable ==
    \A t \in told : /\ DurableOps[t[1]].phase # "none"
                    /\ t[2] = "committed" => DurableOps[t[1]].phase = "committed"

\* The detailed ledger implements the register of operations it promises: no
\* operation is lost, rewritten or committed twice, and no storage moves by
\* anything but a legal transition.
Promise == INSTANCE ProviderOperations
             WITH ops <- DurableOps, storages <- DurableStorages
ImplementsOperations == Promise!AbsSpec
============================================================================
