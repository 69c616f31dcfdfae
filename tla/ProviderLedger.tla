-------------------------- MODULE ProviderLedger --------------------------
(***************************************************************************)
(* The ledger of a filesystem image provider.  Each generation is a        *)
(* checkpoint file and an active ledger file in a directory that several   *)
(* processes share under an advisory lock; the head that says which bytes  *)
(* count is a PostgreSQL row advanced by compare-and-swap.  A process      *)
(* writes and syncs first, advances the head second, and judges a lost     *)
(* acknowledgement by reading the head back.                               *)
(***************************************************************************)
EXTENDS ProviderState, FiniteSets

CONSTANTS Procs,      \* processes that share the state directory
          MaxGen,     \* the last generation (2^64 - 1 in the code)
          MaxFaults   \* bound: crashes, lost answers, lost locks, I/O errors

ASSUME ProviderLedgerAssumption ==
    MaxGen \in Nat /\ MaxFaults \in Nat /\ Procs # {}

VARIABLES row,     \* the head row in PostgreSQL
          index,   \* index[o]: the operation row in PostgreSQL (version 3)
          file,    \* file[n]: live content, durable content, durable entry
          marker,  \* marker[g]: the phases of an adoption marker that exist
          lock,    \* the process whose helper holds the directory lock
          proc,    \* proc[p]: the call process p is executing
          wire,    \* wire[p]: the request of p that the database is resolving
          stray,   \* requests still in the database after their sender left
          granted, \* granted[o]: answers that told a caller to dispatch o
          told,    \* <<o, phase>> that some caller was told is durable
          ghost,   \* has a lock been lost, has a stray request landed
          faults

vars == <<row, index, file, marker, lock, proc, wire, stray, granted, told,
          ghost, faults>>

NoRow == [version |-> 0]
NoHead == Genesis(2)
NoProc == "no process"
NoFrame == [type |-> "none"]
NoRequest == [why |-> "none"]
Gens == 0 .. MaxGen
Names == Gens \X {"ckpt", "ledger"}

\* A file: NoFile, a checkpoint, or a ledger whose last write may be torn.
NoFile == [is |-> "absent"]
CkptFile(st, version) == [is |-> "ckpt", st |-> st, version |-> version]
LedgerFile(frames, torn) == [is |-> "ledger", frames |-> frames, torn |-> torn]

Live(n) == file[n].live
Exists(n) == Live(n) # NoFile

\* A sync of the file, and of the directory with all its entries.
SyncFile(fs, n) == [fs EXCEPT ![n].dur = fs[n].live]
SyncDirectory(fs) ==
    [n \in Names |-> [fs[n] EXCEPT !.entry = fs[n].live # NoFile,
                                   !.dur = IF fs[n].live = NoFile THEN NoFile
                                           ELSE @]]

Idle == [pc |-> "idle", head |-> NoHead, frame |-> NoFrame,
         next |-> NoHead, why |-> "none", ack |-> "none", todo |-> <<>>,
         then |-> "none", mode |-> 3]

Version(p) == proc[p].mode
Held(p) == lock = p

\* readHead: a process that finds no row starts from its own genesis.
ReadHead(p) == IF row = NoRow THEN Genesis(Version(p)) ELSE row
HeadIs(p, h) == ReadHead(p) = h

Init ==
    /\ row = NoRow
    /\ index = [o \in Ops |-> NoRecord]
    /\ file = [n \in Names |-> [live |-> NoFile, dur |-> NoFile,
                                entry |-> FALSE]]
    /\ marker = [g \in Gens |-> {}]
    /\ lock = NoProc
    /\ \E v \in {2, 3} : proc = [p \in Procs |-> [Idle EXCEPT !.mode = v]]
    /\ wire = [p \in Procs |-> NoRequest]
    /\ stray = {}
    /\ granted = [o \in Ops |-> 0]
    /\ told = {}
    /\ ghost = [lockLost |-> FALSE, strayLanded |-> FALSE]
    /\ faults = 0

-----------------------------------------------------------------------------
\* Moving through a call.

Goto(p, pc) == proc' = [proc EXCEPT ![p].pc = pc]
Leave(p) == lock' = IF Held(p) THEN NoProc ELSE lock
Idles(p) == proc' = [proc EXCEPT ![p] = [Idle EXCEPT !.mode = Version(p)]]

Answers(p) == Idles(p) /\ Leave(p) /\ UNCHANGED <<granted, told>>

Fault == faults < MaxFaults /\ faults' = faults + 1

\* cleanupGeneration: unlink the checkpoint, unlink the ledger, sync if
\* anything was removed.
CleanPlan(names) ==
    LET there == SelectSeq(names, Exists)
    IN  IF there = <<>> THEN <<>> ELSE Append(there, <<0, "sync">>)
cleanupGeneration(g) ==
    IF g \in Gens THEN CleanPlan(<< <<g, "ckpt">>, <<g, "ledger">> >>) ELSE <<>>
cleanupCheckpointFile(g) == CleanPlan(<< <<g, "ckpt">> >>)

Clean(p, plan, then) ==
    proc' = [proc EXCEPT ![p].pc = IF plan = <<>> THEN then ELSE "clean",
                         ![p].todo = plan, ![p].then = then]

CleanStep(p) ==
    LET n == Head(proc[p].todo)
        rest == Tail(proc[p].todo)
    IN  /\ proc[p].pc = "clean"
        /\ file' = IF n[2] = "sync" THEN SyncDirectory(file)
                   ELSE [file EXCEPT ![n].live = NoFile]
        /\ proc' = [proc EXCEPT ![p].todo = rest,
                        ![p].pc = IF rest = <<>> THEN proc[p].then ELSE "clean"]
        /\ UNCHANGED <<row, index, marker, lock, wire, stray, granted, told,
                       ghost, faults>>

\* A call that ends with an error after its cleanup.
Failed(p) ==
    /\ proc[p].pc = "failed"
    /\ Answers(p)
    /\ UNCHANGED <<row, index, file, marker, wire, stray, ghost, faults>>

-----------------------------------------------------------------------------
\* Opening: take the lock, read the head, clean the neighbouring generations
\* and load the one the head names.

\* Which operation the call is about matters only once the state is loaded,
\* so it is chosen there.
Begin(p) ==
    /\ proc[p].pc = "idle"
    /\ lock = NoProc
    /\ lock' = p
    /\ proc' = [proc EXCEPT ![p].pc = "open", ![p].head = ReadHead(p)]
    /\ UNCHANGED <<row, index, file, marker, wire, stray, granted, told, ghost,
                   faults>>

\* A version 2 process refuses a version 3 head.
OpenRefused(p) ==
    /\ proc[p].pc = "open"
    /\ Version(p) = 2 /\ proc[p].head.version = 3
    /\ Answers(p)
    /\ UNCHANGED <<row, index, file, marker, wire, stray, ghost, faults>>

\* What precedes the head's generation was superseded; what follows it is a
\* candidate that was never anchored.
Tidy(p) ==
    LET h == proc[p].head
        previous == IF TrueGenesis(h) THEN cleanupGeneration(0)
                    ELSE IF h.gen = 0 THEN cleanupCheckpointFile(0)
                    ELSE cleanupGeneration(h.gen - 1)
    IN  /\ proc[p].pc = "tidy"
        /\ Clean(p, previous \o cleanupGeneration(h.gen + 1), "load")
        /\ UNCHANGED <<row, index, file, marker, lock, wire, stray, granted,
                       told, ghost, faults>>

\* loadCheckpointState and parseActiveLedger: the files say what the head
\* says, up to one unanchored frame that follows from the state.
TailOf(l, h) == SubSeq(l.frames, Len(h.log) + 1, Len(l.frames))
parseActiveLedger(l, h) ==
    /\ l # NoFile
    /\ Len(l.frames) >= Len(h.log)
    /\ SubSeq(l.frames, 1, Len(h.log)) = h.log
    /\ Len(TailOf(l, h)) + (IF l.torn THEN 1 ELSE 0) <= 1
    /\ \A i \in 1 .. Len(TailOf(l, h)) : Applies(HeadState(h), TailOf(l, h)[i])
loadCheckpointState(c, h) == h.gen = 0 \/ c = CkptFile(h.ckpt, h.version)
Loads(fs, h) ==
    \/ TrueGenesis(h)
    \/ /\ loadCheckpointState(fs[<<h.gen, "ckpt">>].live, h)
       /\ parseActiveLedger(fs[<<h.gen, "ledger">>].live, h)
HasTail(h) == /\ ~TrueGenesis(h)
              /\ Live(<<h.gen, "ledger">>) # LedgerFile(h.log, FALSE)

Truncated(fs, h) ==
    SyncFile([fs EXCEPT ![<<h.gen, "ledger">>].live = LedgerFile(h.log, FALSE)],
             <<h.gen, "ledger">>)

\* PostgreSQL holds exactly the prepared operations of the state.
comparePreparedProjection(st) ==
    \A o \in Ops : (st.ops[o].phase = "prepared" \/ index[o].phase = "prepared")
                     => st.ops[o] = index[o]

\* The operation an attachment came from is committed there, and the storage
\* has not moved away from what it attached.
compareAttachmentOrigins(st) ==
    \A s \in Storages : st.storages[s].life = "attached" =>
        LET o == st.origins[s]
        IN  /\ o # NoOp
            /\ index[o].phase = "committed"
            /\ index[o].kind \in {"attach", "restore-attach"}
            /\ index[o].after.epoch = st.storages[s].epoch
            /\ index[o].after.root = st.storages[s].root
            /\ index[o].after.rev <= st.storages[s].rev

compareProjection(p, h) ==
    /\ HeadIs(p, h)
    /\ comparePreparedProjection(HeadState(h))
    /\ compareAttachmentOrigins(HeadState(h))

validateV3AuthorityProjection(p, h) ==
    Version(p) = 3 => h.version = 3 /\ compareProjection(p, h)

loadGenerationState(p) ==
    LET h == proc[p].head
    IN  /\ proc[p].pc = "load"
        /\ Loads(file, h)
        /\ HasTail(h) => Held(p) /\ HeadIs(p, h)
        /\ validateV3AuthorityProjection(p, h)
        /\ file' = IF HasTail(h) THEN Truncated(file, h) ELSE file
        /\ Goto(p, "decide")
        /\ UNCHANGED <<row, index, marker, lock, wire, stray, granted, told,
                       ghost, faults>>

\* Anything else is corrupt_ledger (or io_failed) and changes nothing.
LoadRefused(p) ==
    LET h == proc[p].head
    IN  /\ proc[p].pc = "load"
        /\ ~ /\ Loads(file, h)
             /\ HasTail(h) => Held(p) /\ HeadIs(p, h)
             /\ validateV3AuthorityProjection(p, h)
        /\ Answers(p)
        /\ UNCHANGED <<row, index, file, marker, wire, stray, ghost, faults>>

-----------------------------------------------------------------------------
\* Deciding what a call appends.

\* The record a call judges by: PostgreSQL's row at the loaded head for
\* version 3, the replayed ledger for version 2.
Existing(p, o) == IF Version(p) = 3 THEN index[o]
                  ELSE HeadState(proc[p].head).ops[o]

Appends(p, f) ==
    proc' = [proc EXCEPT ![p].frame = f,
               ![p].pc = IF eventRequiresRotation(proc[p].head)
                         THEN "rcreate" ELSE "write"]

\* Mutant: a repeated prepare of a prepared operation is dispatched again.
prepareOperationAgain(p, o, kind, storage) ==
    LET c == proc[p]
        st == HeadState(c.head)
        r == Existing(p, o)
    IN  /\ c.pc = "decide"
        /\ Version(p) = 3 => HeadIs(p, c.head)
        /\ IF r = NoRecord /\ pendingOperationForStorage(st, storage) = {}
              /\ assertPreparePrecondition(st.storages[storage], kind)
           THEN /\ Appends(p, PreparedFrame(Version(p), o, kind, storage,
                                            st.storages[storage]))
                /\ UNCHANGED <<lock, granted, told>>
           ELSE /\ Idles(p) /\ Leave(p)
                /\ granted' = IF r.phase = "prepared"
                              THEN [granted EXCEPT ![o] = @ + 1] ELSE granted
                /\ UNCHANGED told
        /\ UNCHANGED <<row, index, file, marker, wire, stray, ghost, faults>>

\* prepareOperation: an operation that is already there is replayed and not
\* dispatched; a storage has one pending operation at a time.
prepareOperation(p, o, kind, storage) ==
    LET c == proc[p]
        st == HeadState(c.head)
        r == Existing(p, o)
    IN  /\ c.pc = "decide"
        /\ Version(p) = 3 => HeadIs(p, c.head)
        /\ IF r = NoRecord /\ pendingOperationForStorage(st, storage) = {}
              /\ assertPreparePrecondition(st.storages[storage], kind)
           THEN /\ Appends(p, PreparedFrame(Version(p), o, kind, storage,
                                            st.storages[storage]))
                /\ UNCHANGED <<lock, granted, told>>
           ELSE Answers(p)
        /\ UNCHANGED <<row, index, file, marker, wire, stray, ghost, faults>>

\* commitOperation: only a prepared operation, on the storage state it was
\* prepared on, by a legal transition.
commitOperation(p, o) ==
    LET c == proc[p]
        st == HeadState(c.head)
        r == Existing(p, o)
    IN  /\ c.pc = "decide"
        /\ Version(p) = 3 => HeadIs(p, c.head)
        /\ \E image \in Proposals(r.before) :
           IF /\ r.phase = "prepared"
              /\ Version(p) = 3 => st.ops[o] = r
              /\ st.storages[r.storage] = r.before
              /\ assertStorageTransition(r.before, image, r.kind)
           THEN /\ Appends(p, CommittedFrame(Version(p), o, r, image))
                /\ UNCHANGED <<lock, granted, told>>
           ELSE Answers(p)
        /\ UNCHANGED <<row, index, file, marker, wire, stray, ghost, faults>>

\* readOperation, readStorage, inspectCapacity and snapshot: what they return
\* was loaded under the lock and, for version 3, is still the head.
Reads(p) ==
    LET c == proc[p]
    IN  /\ c.pc = "decide"
        /\ Idles(p) /\ Leave(p)
        /\ told' = IF Held(p) /\ HeadIs(p, c.head)
                   THEN told \cup {<<o, "prepared">> : o \in
                          {q \in Ops : HeadState(c.head).ops[q].phase = "prepared"}}
                   ELSE told
        /\ UNCHANGED <<row, index, file, marker, wire, stray, granted, ghost,
                       faults>>

-----------------------------------------------------------------------------
\* Rotation: the next checkpoint and an empty ledger, then the head.

Fresh(p, parts) == \A part \in parts :
    ~Exists(<<proc[p].head.gen + 1, part>>)

\* Creating either file fails when the name exists, and the last generation
\* has no next.
RotateCreate(p) ==
    LET c == proc[p]
        g == c.head.gen + 1
    IN  /\ c.pc = "rcreate"
        /\ IF g \in Gens /\ Fresh(p, {"ckpt", "ledger"})
           THEN /\ file' = [file EXCEPT
                      ![<<g, "ckpt">>].live = CkptFile(EmptyState, 0),
                      ![<<g, "ledger">>].live = LedgerFile(<<>>, FALSE)]
                /\ Goto(p, "rwrite")
                /\ UNCHANGED <<lock, granted, told>>
           ELSE Answers(p) /\ UNCHANGED file
        /\ UNCHANGED <<row, index, marker, wire, stray, ghost, faults>>

Sent(p, why, next) ==
    /\ wire' = [wire EXCEPT ![p] =
                  [why |-> why, exp |-> proc[p].head,
                   next |-> next, frame |-> proc[p].frame]]
    /\ proc' = [proc EXCEPT ![p].pc = "cas", ![p].next = next,
                            ![p].why = why]

\* Mutant: the new generation's files are not synced before the head moves.
NotSynced(fs, names) == fs

\* Both files and the directory are synced before the head moves.
SyncAll(fs, names) ==
    SyncDirectory([n \in Names |-> IF n \in names
                                   THEN [fs[n] EXCEPT !.dur = fs[n].live]
                                   ELSE fs[n]])

\* The checkpoint of a head, all of its frames.
writeCheckpointFrames(fs, h) ==
    [fs EXCEPT ![<<h.gen, "ckpt">>].live = CkptFile(h.ckpt, h.version)]

RotateWrite(p) ==
    LET c == proc[p]
        next == RotateHead(c.head)
    IN  /\ c.pc = "rwrite"
        /\ file' = SyncAll(writeCheckpointFrames(file, next),
                           {<<next.gen, "ckpt">>, <<next.gen, "ledger">>})
        /\ IF Held(p) /\ HeadIs(p, c.head)
           THEN Sent(p, "rotate", next) /\ UNCHANGED <<lock, granted, told>>
           ELSE Answers(p) /\ UNCHANGED wire
        /\ UNCHANGED <<row, index, marker, stray, ghost, faults>>

-----------------------------------------------------------------------------
\* Appending one frame.

\* The frame's bytes reach the file (a crash may leave a part of them).  A
\* genesis ledger is created, any other one continues where the head ends.
AppendWrite(p) ==
    LET c == proc[p]
        n == <<c.head.gen, "ledger">>
        start == IF TrueGenesis(c.head) THEN NoFile ELSE LedgerFile(c.head.log, FALSE)
    IN  /\ c.pc = "write"
        /\ IF Live(n) = start /\ Held(p) /\ HeadIs(p, c.head)
           THEN /\ file' = [file EXCEPT ![n].live =
                              LedgerFile(Append(c.head.log, c.frame), FALSE)]
                /\ Goto(p, "sync")
                /\ UNCHANGED <<lock, granted, told>>
           ELSE Answers(p) /\ UNCHANGED file
        /\ UNCHANGED <<row, index, marker, wire, stray, ghost, faults>>

\* The file (and a new directory entry) is synced, the lock is still held, and
\* what was written reads back as the next head.
AppendSync(p) ==
    LET c == proc[p]
        n == <<c.head.gen, "ledger">>
        next == AppendHead(c.head, c.frame)
        synced == SyncFile(file, n)
    IN  /\ c.pc = "sync"
        /\ file' = IF TrueGenesis(c.head) THEN SyncDirectory(synced) ELSE synced
        /\ IF Held(p) /\ Live(n) = LedgerFile(next.log, FALSE)
              /\ Applies(HeadState(c.head), c.frame)
           THEN Sent(p, "append", next)
           ELSE Goto(p, "undo") /\ UNCHANGED wire
        /\ UNCHANGED <<row, index, marker, lock, stray, granted, told, ghost,
                       faults>>

\* Before the head is touched a failure takes the frame back.
AppendUndo(p) ==
    LET c == proc[p]
    IN  /\ c.pc = "undo"
        /\ IF TrueGenesis(c.head)
           THEN Clean(p, cleanupGeneration(0), "failed") /\ UNCHANGED file
           ELSE /\ file' = IF Exists(<<c.head.gen, "ledger">>)
                           THEN Truncated(file, c.head) ELSE file
                /\ Goto(p, "failed")
        /\ UNCHANGED <<row, index, marker, lock, wire, stray, granted, told,
                       ghost, faults>>
============================================================================
