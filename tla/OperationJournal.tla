------------------------- MODULE OperationJournal -------------------------
(***************************************************************************)
(* The filesystem operation journal: one small record file per operation,  *)
(* replaced by writing a temporary file and renaming it under an advisory  *)
(* lock.  A process sees the page cache (vis); a loss of power falls back   *)
(* to what a directory sync has made durable (dur).  The lock's helper      *)
(* process performs the rename, so a rename happens only under the lock.    *)
(***************************************************************************)
EXTENDS Naturals, FiniteSets

CONSTANTS Procs,    \* processes that share the journal and target directories
          Ops,      \* operation identifiers
          Versions, \* contents a source tree can have
          MaxTrees, \* bound: candidate directories ever created
          MaxFaults \* bound: crashes, power losses, lost locks and I/O errors

ASSUME JournalAssumption ==
    /\ MaxTrees \in Nat /\ MaxFaults \in Nat
    /\ Procs # {} /\ Ops # {} /\ Versions # {}

VARIABLES rec,     \* rec[o]: the record file, as seen and as durable
          temp,    \* temp[o]: is there a temporary record file
          jlock,   \* the process whose lock helper holds the journal lock
          call,    \* call[p]: the journal call process p is executing
          faults   \* faults injected so far

journalVars == <<rec, temp, jlock, call, faults>>

NoProc == "no process"
NoTree == 0
NoVersion == "no content"
Trees == 1 .. MaxTrees

\* A materialization: the identity of the staged tree and its content digest.
Materializations == [tree : Trees, digest : Versions]
NoMat == [tree |-> NoTree, digest |-> NoVersion]
States == {"absent", "prepared", "materialized", "committed"}
Records == [state : States, mat : Materializations \cup {NoMat}]
Absent == [state |-> "absent", mat |-> NoMat]
Rank(state) == CASE state = "absent" -> 0 [] state = "prepared" -> 1
                 [] state = "materialized" -> 2 [] state = "committed" -> 3

\* What a journal call tells its caller.
Replied(ok, record, commit, replayed) ==
    [ok |-> ok, record |-> record, commit |-> commit, replayed |-> replayed]
Pending == Replied(FALSE, Absent, "not-committed", FALSE)

\* A call: where it stands, what it asks for, the record it confirmed first,
\* and its result so far.
IdleCall == [pc |-> "idle", op |-> "none", want |-> Absent, fresh |-> FALSE,
             seen |-> Absent, result |-> Pending]
CallPcs == {"idle", "begin", "temp", "rename", "sync", "release", "done"}

JournalInit ==
    /\ rec = [o \in Ops |-> [vis |-> Absent, dur |-> Absent]]
    /\ temp = [o \in Ops |-> FALSE]
    /\ jlock = NoProc
    /\ call = [p \in Procs |-> IdleCall]
    /\ faults = 0

Fault == faults < MaxFaults /\ faults' = faults + 1

\* The result of the call under way, and the step that follows.
Step(p, pc) == call' = [call EXCEPT ![p].pc = pc]
Settle(p, result) ==
    call' = [call EXCEPT ![p].pc = "release", ![p].result = result]
Refuse(p, commit) == Settle(p, Replied(FALSE, Absent, commit, FALSE))

(***************************************************************************)
(* A caller starts one of the journal's methods: read asks for nothing,    *)
(* prepare, prepareFresh, markMaterialized and commit ask for a record.     *)
(***************************************************************************)
Ask(p, o, want, fresh) ==
    [IdleCall EXCEPT !.pc = "begin", !.op = o, !.want = want, !.fresh = fresh]
ReadCall(p, o) == Ask(p, o, Absent, FALSE)
PrepareCall(p, o, fresh) ==
    Ask(p, o, [state |-> "prepared", mat |-> NoMat], fresh)
MarkMaterializedCall(p, o, mat) ==
    Ask(p, o, [state |-> "materialized", mat |-> mat], FALSE)
CommitCall(p, o, mat) == Ask(p, o, [state |-> "committed", mat |-> mat], FALSE)

\* readCanonicalRecord refuses a journal in which a temporary file is left
\* over: it is evidence that only a recovery procedure may interpret.
Readable(o) == ~temp[o]

\* confirmVisibleRecord: a record is trusted only once the file and its
\* directory, with every record renamed into it, have been synced.
Confirmed(o) == IF rec[o].vis = Absent THEN rec
                ELSE [x \in Ops |-> [vis |-> rec[x].vis, dur |-> rec[x].vis]]

\* #transition: what the requested record means next to the existing one.
Replays(existing, want) ==
    \/ want.state = "absent"
    \/ want.state = "prepared" /\ existing.state # "absent"
    \/ /\ want.state \in {"materialized", "committed"}
       /\ Rank(existing.state) >= Rank(want.state)
       /\ existing.mat = want.mat
\* Mutant: a second materialization of the operation replaces the first.
FollowsAnyCopy(existing, want) ==
    \/ want.state = "prepared" /\ existing.state = "absent"
    \/ want.state = "materialized" /\ existing.state # "absent"
    \/ want.state = "committed" /\ existing.state = "materialized"

Follows(existing, want) ==
    \/ want.state = "prepared" /\ existing.state = "absent"
    \/ want.state = "materialized" /\ existing.state = "prepared"
    \/ /\ want.state = "committed" /\ existing.state = "materialized"
       /\ existing.mat = want.mat

\* prepareFresh: the operation already has a record.
Started(p) == call[p].fresh /\ rec[call[p].op].vis.state # "absent"

\* #run takes the lock, reads and confirms the record and decides.
BeginFails(p) ==
    /\ call[p].pc = "begin"
    /\ \/ jlock # NoProc /\ UNCHANGED faults
       \/ Fault
    /\ call' = [call EXCEPT ![p].pc = "done",
                            ![p].result = Replied(FALSE, Absent, "not-committed", FALSE)]
    /\ UNCHANGED <<rec, temp, jlock>>

Begin(p) ==
    LET o == call[p].op
        existing == rec[o].vis
        want == call[p].want
    IN
    /\ call[p].pc = "begin" /\ jlock = NoProc
    /\ jlock' = p
    /\ IF ~Readable(o)
       THEN Refuse(p, "not-committed") /\ UNCHANGED rec
       ELSE /\ rec' = Confirmed(o)
            /\ \/ /\ Replays(existing, want)
                  /\ ~Started(p)
                  /\ Settle(p, Replied(TRUE, existing, "not-committed",
                                       want.state # "absent"))
               \/ /\ Follows(existing, want)
                  /\ call' = [call EXCEPT ![p].pc = "temp", ![p].seen = existing]
               \/ /\ ~Follows(existing, want)
                  /\ ~Replays(existing, want) \/ Started(p)
                  /\ Refuse(p, "not-committed")
    /\ UNCHANGED <<temp, faults>>

\* The confirming sync fails: the visible record may not be durable.
BeginUnconfirmed(p) ==
    /\ call[p].pc = "begin" /\ jlock = NoProc
    /\ Readable(call[p].op) /\ rec[call[p].op].vis # Absent
    /\ Fault
    /\ jlock' = p
    /\ Refuse(p, "uncertain")
    /\ UNCHANGED <<rec, temp>>

(***************************************************************************)
(* writeCanonicalRecord.                                                   *)
(***************************************************************************)
\* The temporary file is created exclusively, written and synced.  It is
\* never removed: a failure before the rename leaves it behind.
WriteTemp(p) ==
    LET o == call[p].op IN
    /\ call[p].pc = "temp"
    /\ jlock = p /\ ~temp[o]
    /\ temp' = [temp EXCEPT ![o] = TRUE]
    /\ \/ Step(p, "rename") /\ UNCHANGED faults
       \/ Fault /\ Refuse(p, "not-committed")
    /\ UNCHANGED <<rec, jlock>>

\* The lock was lost, the file exists already, or the open fails.
WriteTempRefused(p) ==
    /\ call[p].pc = "temp"
    /\ \/ (jlock # p \/ temp[call[p].op]) /\ UNCHANGED faults
       \/ jlock = p /\ ~temp[call[p].op] /\ Fault
    /\ Refuse(p, "not-committed")
    /\ UNCHANGED <<rec, temp, jlock>>

\* assertCanonicalPrecondition: the record is still the one that was read.
StillCurrent(p) == rec[call[p].op].vis = call[p].seen

Rename(p) ==
    LET o == call[p].op IN
    /\ call[p].pc = "rename"
    /\ jlock = p /\ StillCurrent(p)
    /\ rec' = [rec EXCEPT ![o].vis = call[p].want]
    /\ temp' = [temp EXCEPT ![o] = FALSE]
    /\ \/ Step(p, "sync") /\ UNCHANGED faults
       \/ Fault /\ Refuse(p, "uncertain")   \* the helper's answer is lost
    /\ UNCHANGED jlock

\* The rename did not happen: the precondition or the helper refused it, or
\* the helper is gone and cannot say.
RenameRefused(p) ==
    /\ call[p].pc = "rename"
    /\ \/ jlock # p /\ Refuse(p, "uncertain") /\ UNCHANGED faults
       \/ jlock = p /\ ~StillCurrent(p) /\ Refuse(p, "not-committed") /\ UNCHANGED faults
       \/ jlock = p /\ Fault
          /\ \E commit \in {"not-committed", "uncertain"} : Refuse(p, commit)
    /\ UNCHANGED <<rec, temp, jlock>>

\* The directory is synced and the record read back.
SyncRecord(p) ==
    LET o == call[p].op IN
    /\ call[p].pc = "sync"
    /\ \/ /\ jlock = p /\ ~temp[o] /\ rec[o].vis = call[p].want
          /\ rec' = Confirmed(o)
          /\ Settle(p, Replied(TRUE, call[p].want, "committed", FALSE))
          /\ UNCHANGED faults
       \/ /\ Fault
          /\ rec' \in {rec, Confirmed(o)}
          /\ Refuse(p, "uncertain")
       \/ /\ jlock # p \/ temp[o] \/ rec[o].vis # call[p].want
          /\ rec' = Confirmed(o)
          /\ Refuse(p, "uncertain")
          /\ UNCHANGED faults
    /\ UNCHANGED <<temp, jlock>>

(***************************************************************************)
(* #run verifies the record once more, releases the lock and reports.  A    *)
(* failed release reports the commit state the operation had reached.       *)
(***************************************************************************)
Verified(p) ==
    LET r == call[p].result IN
    /\ jlock = p /\ Readable(call[p].op)
    /\ rec[call[p].op].vis = r.record

ReleaseJournal(p) ==
    LET r == call[p].result
        reported == IF r.ok /\ ~Verified(p)
                    THEN Replied(FALSE, Absent, "uncertain", FALSE) ELSE r
    IN
    /\ call[p].pc = "release"
    /\ rec' = IF r.ok /\ Verified(p) THEN Confirmed(call[p].op) ELSE rec
    /\ jlock' = IF jlock = p THEN NoProc ELSE jlock
    /\ \/ /\ call' = [call EXCEPT ![p].pc = "done", ![p].result = reported]
          /\ UNCHANGED faults
       \/ /\ Fault                             \* journal_lock_release_failed
          /\ call' = [call EXCEPT ![p].pc = "done",
                          ![p].result = [reported EXCEPT !.ok = FALSE]]
    /\ UNCHANGED temp

\* The lock's helper dies; whoever holds the lock learns of it at its next
\* assertHeld or rename.
LoseJournalLock(p) ==
    /\ jlock = p /\ call[p].pc \in {"temp", "rename", "sync"}
    /\ Fault
    /\ jlock' = NoProc
    /\ UNCHANGED <<rec, temp, call>>

JournalStep(p) ==
    \/ Begin(p) \/ BeginFails(p) \/ BeginUnconfirmed(p)
    \/ WriteTemp(p) \/ WriteTempRefused(p)
    \/ Rename(p) \/ RenameRefused(p)
    \/ SyncRecord(p) \/ ReleaseJournal(p)
    \/ LoseJournalLock(p)

\* A process dies: its helper finishes or abandons a rename and lets go.
JournalCrash(p) ==
    /\ call' = [call EXCEPT ![p] = IdleCall]
    /\ jlock' = IF jlock = p THEN NoProc ELSE jlock
    /\ \/ UNCHANGED <<rec, temp>>
       \/ /\ call[p].pc = "rename" /\ jlock = p /\ StillCurrent(p)
          /\ rec' = [rec EXCEPT ![call[p].op].vis = call[p].want]
          /\ temp' = [temp EXCEPT ![call[p].op] = FALSE]

\* A loss of power: each record keeps the visible or the durable file; an undone
\* rename may bring the temporary file back, and a temporary file whose
\* creation was not synced may be gone.
JournalPowerLoss ==
    /\ call' = [p \in Procs |-> IdleCall]
    /\ jlock' = NoProc
    /\ \E undone \in SUBSET {o \in Ops : rec[o].vis # rec[o].dur} :
         /\ rec' = [o \in Ops |->
                      IF o \in undone THEN [vis |-> rec[o].dur, dur |-> rec[o].dur]
                                     ELSE [vis |-> rec[o].vis, dur |-> rec[o].vis]]
         /\ \E left \in SUBSET ({o \in Ops : temp[o]} \cup undone) :
              temp' = [o \in Ops |-> o \in left]

JournalTypeOK ==
    /\ rec \in [Ops -> [vis : Records, dur : Records]]
    /\ temp \in [Ops -> BOOLEAN]
    /\ jlock \in Procs \cup {NoProc}
    /\ \A p \in Procs : call[p].pc \in CallPcs /\ call[p].want \in Records
    /\ faults \in 0 .. MaxFaults
=============================================================================
