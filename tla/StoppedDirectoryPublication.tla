-------------------- MODULE StoppedDirectoryPublication --------------------
(***************************************************************************)
(* Publication of a stopped directory tree under one final name: the tree  *)
(* is copied into a candidate directory, synced and verified, recorded in  *)
(* the operation journal, renamed to the final name and committed.  The     *)
(* protocol is re-entered after errors, crashes and losses of power.        *)
(***************************************************************************)
EXTENDS OperationJournal

VARIABLES dir,    \* the target directory's entries, as seen and as durable
          tree,   \* tree[t]: the contents of directory t
          made,   \* candidate directories created so far
          source, \* the content of the source tree
          lock,   \* the process whose helper holds the publication lock
          run     \* run[p]: the publication call process p is executing

vars == <<rec, temp, jlock, call, faults, dir, tree, made, source, lock, run>>

Torn == "torn"    \* an incompletely written tree
NoResult == [ok |-> FALSE, commit |-> "not-committed"]

\* #publish keeps three facts that decide what an error may claim: whether a
\* rename may have happened, whether a committed record was read, and whether
\* the journal's commit was attempted.
Idle == [pc |-> "idle", op |-> "none", mode |-> "publish", may |-> FALSE,
         hist |-> FALSE, attempted |-> FALSE, digest |-> NoVersion, mat |-> NoMat,
         ns |-> [cand |-> NoTree, final |-> NoTree], result |-> NoResult]

Init ==
    /\ JournalInit
    /\ dir = [vis |-> [cand |-> [o \in Ops |-> NoTree], final |-> NoTree],
              dur |-> [cand |-> [o \in Ops |-> NoTree], final |-> NoTree]]
    /\ tree = [t \in Trees |-> [op |-> "none", content |-> Torn, synced |-> FALSE]]
    /\ made = 0
    /\ source \in Versions
    /\ lock = NoProc
    /\ run = [p \in Procs |-> Idle]

(***************************************************************************)
(* The stopped-tree primitives.                                            *)
(***************************************************************************)
Namespace(o) == [cand |-> dir.vis.cand[o], final |-> dir.vis.final]
\* copyStoppedTreeBetweenRoots writes every entry of the source.
CopyOf(t, content) == [tree EXCEPT ![t].content = content, ![t].synced = FALSE]
\* syncStoppedTree syncs every entry bottom up.
SyncTree(t) == [tree EXCEPT ![t].synced = TRUE]
\* digestTree and digestStoppedTreeIdentities against the materialization.
Matches(t, mat) == t = mat.tree /\ tree[t].content = mat.digest

\* targetAuthority.handle.sync: the directory's entries become durable.
SyncTarget == dir' = [dir EXCEPT !.dur = dir.vis]

(***************************************************************************)
(* Errors.  A claim of not-committed survives only while no rename can have *)
(* happened; a committed record that was read is never denied.              *)
(***************************************************************************)
\* Mutant: an error keeps the commit state its own step had.
Unadjusted(p, commit) == commit

Adjusted(p, commit) ==
    CASE run[p].hist -> "committed"
      [] run[p].may /\ commit = "not-committed" /\ ~run[p].hist -> "uncertain"
      [] OTHER -> commit

\* normalizeJournalError: only the final commit may be reported committed.
JournalCommitState(p) ==
    IF run[p].hist \/ (run[p].may /\ run[p].attempted
                         /\ call[p].result.commit = "committed")
    THEN "committed"
    ELSE IF run[p].may THEN "uncertain" ELSE "not-committed"

Ended(p, ok, commit) ==
    [run[p] EXCEPT !.pc = "cleanup", !.result = [ok |-> ok, commit |-> commit]]
Fails(p, commit) == run' = [run EXCEPT ![p] = Ended(p, FALSE, Adjusted(p, commit))]
Goes(p, pc) == run' = [run EXCEPT ![p].pc = pc]

\* verifyCommittedCheckpointArtifact and verifyCommittedRestoreDestination.
Verifies(p) == run[p].mode \in {"verifyArtifact", "verifyRestore"}

\* A step of p's own that is between two journal calls.
At(p, pc) == run[p].pc = pc /\ call[p].pc = "idle"
Invoke(p, c) == call' = [call EXCEPT ![p] = c]
Returned(p, pc) == run[p].pc = pc /\ call[p].pc = "done"
Collected(p) == call' = [call EXCEPT ![p] = IdleCall]

targetVars == <<dir, tree, made, source>>
journalFiles == <<rec, temp, jlock>>

(***************************************************************************)
(* Admission: publishCheckpointArtifact, publishFreshCheckpointArtifact,    *)
(* publishRestoreDestination and the two verifications.                     *)
(***************************************************************************)
Modes == {"publish", "fresh", "verifyArtifact", "verifyRestore"}

Publish(p, o, mode) ==
    /\ run[p].pc = "idle"
    /\ run' = [run EXCEPT ![p] = [Idle EXCEPT !.pc = "lock", !.op = o, !.mode = mode,
                                              !.may = TRUE]]
    /\ UNCHANGED <<lock, call, faults, targetVars, journalFiles>>

\* The publication lock is taken and the journal read, with the directory's
\* entries noted before.
TakeLock(p) ==
    /\ At(p, "lock") /\ lock = NoProc
    /\ lock' = p
    /\ run' = [run EXCEPT ![p].pc = "read", ![p].ns = Namespace(run[p].op)]
    /\ Invoke(p, ReadCall(p, run[p].op))
    /\ UNCHANGED <<faults, targetVars, journalFiles>>

LockUnavailable(p) ==
    /\ At(p, "lock")
    /\ \/ lock # NoProc /\ UNCHANGED faults
       \/ Fault
    /\ Fails(p, "uncertain")
    /\ UNCHANGED <<lock, call, targetVars, journalFiles>>

(***************************************************************************)
(* What the record and the directory's entries say together.               *)
(***************************************************************************)
\* Whether a rename may have happened already, from what was observed.
MayHaveOccurred(state, ns) ==
    CASE state = "absent" -> FALSE
      [] state = "committed" -> TRUE
      [] state = "prepared" -> ns.final # NoTree
      [] state = "materialized" -> ~(ns.cand # NoTree /\ ns.final = NoTree)

\* Read while the entries changed, or failed: nothing can be claimed.
ReadUnusable(p) ==
    /\ Returned(p, "read")
    /\ \/ ~call[p].result.ok \/ lock # p
       \/ Namespace(run[p].op) # run[p].ns
    /\ run' = [run EXCEPT ![p] = Ended(p, FALSE,
                 IF Verifies(p) /\ call[p].result.ok
                    /\ call[p].result.record.state = "committed"
                 THEN "committed" ELSE "uncertain")]
    /\ Collected(p)
    /\ UNCHANGED <<lock, faults, targetVars, journalFiles>>

Observed(p) ==
    LET o == run[p].op
        record == call[p].result.record
        ns == Namespace(o)
        seen == [run[p] EXCEPT !.hist = record.state = "committed",
                               !.may = MayHaveOccurred(record.state, ns)]
    IN
    /\ Returned(p, "read") /\ call[p].result.ok
    /\ lock = p /\ ns = run[p].ns
    /\ ~Verifies(p)
    /\ IF record.state = "absent" /\ ns # [cand |-> NoTree, final |-> NoTree]
       THEN /\ run' = [run EXCEPT ![p] = [seen EXCEPT !.pc = "cleanup",
                                            !.result = [ok |-> FALSE, commit |-> "not-committed"]]]
            /\ Collected(p)
       ELSE /\ run' = [run EXCEPT ![p] = [seen EXCEPT !.pc = "prepare"]]
            /\ Invoke(p, PrepareCall(p, o, run[p].mode = "fresh"))
    /\ UNCHANGED <<lock, faults, targetVars, journalFiles>>

\* A root is not the filesystem object that the record names, or cannot be
\* inspected: a committed record is still reported as committed.
ObservedFails(p, commit) ==
    LET state == call[p].result.record.state
        may == MayHaveOccurred(state, run[p].ns)
    IN
    /\ Returned(p, "read") /\ call[p].result.ok
    /\ lock = p /\ Namespace(run[p].op) = run[p].ns
    /\ ~Verifies(p)
    /\ Fault
    /\ run' = [run EXCEPT ![p] = Ended(p, FALSE,
                 CASE state = "committed" -> "committed"
                   [] state # "committed" /\ may /\ commit = "not-committed" -> "uncertain"
                   [] OTHER -> commit)]
    /\ Collected(p)
    /\ UNCHANGED <<lock, targetVars, journalFiles>>

StorageChanged(p) ==
    /\ call[p].result.record.state # "absent"
    /\ ObservedFails(p, "not-committed")

\* The source is missing or is another directory than before: it is needed
\* only until the tree is materialized.
SourceGone(p) ==
    /\ call[p].result.record.state \in {"absent", "prepared"}
    /\ ObservedFails(p, "not-committed")

\* #verifyCommittedPublication: a published tree is only read and checked.
VerifyCommitted(p) ==
    LET record == call[p].result.record
        ns == Namespace(run[p].op)
        sound == ns.cand = NoTree /\ Matches(ns.final, record.mat)
    IN
    /\ Returned(p, "read") /\ call[p].result.ok
    /\ lock = p /\ ns = run[p].ns
    /\ Verifies(p)
    /\ run' = [run EXCEPT ![p] =
         IF record.state = "committed" THEN Ended(p, sound, "committed")
         ELSE IF \/ record.state = "materialized" /\ ~(ns.cand # NoTree /\ ns.final = NoTree)
                 \/ record.state = "prepared" /\ ns.final # NoTree
                 \/ /\ record.state = "absent" /\ ns.final # NoTree
                    /\ run[p].mode = "verifyRestore"
         THEN Ended(p, FALSE, "uncertain")
         ELSE Ended(p, FALSE, "not-committed")]
    /\ IF record.state = "committed" /\ sound /\ run[p].mode = "verifyArtifact"
       THEN SyncTarget /\ tree' = SyncTree(ns.final)
       ELSE UNCHANGED <<dir, tree>>
    /\ Collected(p)
    /\ UNCHANGED <<lock, faults, made, source, journalFiles>>

(***************************************************************************)
(* The journal's prepare, and what its record says is left to do.          *)
(***************************************************************************)
PrepareRefused(p) ==
    /\ Returned(p, "prepare")
    /\ \/ lock # p \/ Namespace(run[p].op) # run[p].ns
       \/ ~call[p].result.ok
    /\ run' = [run EXCEPT ![p] = Ended(p, FALSE,
                 IF lock = p /\ Namespace(run[p].op) = run[p].ns
                 THEN JournalCommitState(p)
                 ELSE IF run[p].hist THEN "committed" ELSE "uncertain")]
    /\ Collected(p)
    /\ UNCHANGED <<lock, faults, targetVars, journalFiles>>

Prepared(p) ==
    LET r == call[p].result
        ns == Namespace(run[p].op)
        next == [run[p] EXCEPT !.mat = r.record.mat]
    IN
    /\ Returned(p, "prepare") /\ r.ok
    /\ lock = p /\ ns = run[p].ns
    /\ run' = [run EXCEPT ![p] =
         CASE r.record.state = "committed" -> [next EXCEPT !.pc = "confirm"]
           [] r.record.state = "materialized" -> [next EXCEPT !.pc = "place"]
           [] r.record.state = "prepared" /\ ns = [cand |-> NoTree, final |-> NoTree]
                -> [next EXCEPT !.pc = "create"]
           [] OTHER -> Ended(p, FALSE, Adjusted(p, "not-committed"))]
    /\ Collected(p)
    /\ UNCHANGED <<lock, faults, targetVars, journalFiles>>

(***************************************************************************)
(* #materializeCandidate.                                                  *)
(***************************************************************************)
\* The source is synced and digested and the candidate directory created.
CreateCandidate(p) ==
    LET o == run[p].op IN
    /\ At(p, "create")
    /\ dir.vis.cand[o] = NoTree /\ made < MaxTrees
    /\ made' = made + 1
    /\ dir' = [dir EXCEPT !.vis.cand[o] = made + 1]
    /\ tree' = [tree EXCEPT ![made + 1].op = o]
    /\ run' = [run EXCEPT ![p].pc = "copy", ![p].digest = source,
                          ![p].mat = [tree |-> made + 1, digest |-> source]]
    /\ UNCHANGED <<source, lock, call, faults, journalFiles>>

CopyCandidate(p) ==
    /\ At(p, "copy")
    /\ \/ tree' = CopyOf(run[p].mat.tree, source) /\ Goes(p, "barrier") /\ UNCHANGED faults
       \/ Fault /\ Fails(p, "not-committed") /\ UNCHANGED tree
    /\ UNCHANGED <<dir, made, source, lock, call, journalFiles>>

\* The copy and the source are digested again after the copy was synced.
CopyAgrees(p) ==
    /\ dir.vis.cand[run[p].op] = run[p].mat.tree
    /\ Matches(run[p].mat.tree, run[p].mat)
    /\ source = run[p].digest

CandidateBarrier(p) ==
    /\ At(p, "barrier")
    /\ tree' = SyncTree(run[p].mat.tree)
    /\ SyncTarget
    /\ IF CopyAgrees(p)
       THEN /\ Goes(p, "mark")
            /\ Invoke(p, MarkMaterializedCall(p, run[p].op, run[p].mat))
       ELSE Fails(p, "not-committed") /\ UNCHANGED call
    /\ UNCHANGED <<made, source, lock, faults, journalFiles>>

\* The record is materialized.  A final entry that appeared meanwhile makes
\* the outcome uncertain; any journal failure leaves the tree unpublished.
Marked(p) ==
    /\ Returned(p, "mark")
    /\ run' = [run EXCEPT ![p] =
         IF lock # p \/ dir.vis.final # NoTree THEN Ended(p, FALSE, "uncertain")
         ELSE IF call[p].result.ok THEN [run[p] EXCEPT !.pc = "place"]
         ELSE Ended(p, FALSE, "not-committed")]
    /\ Collected(p)
    /\ UNCHANGED <<lock, faults, targetVars, journalFiles>>

(***************************************************************************)
(* From the materialized record to the final name.                         *)
(***************************************************************************)
\* Exactly one of the two entries must exist.  A candidate is verified
\* against the record and synced, never copied again.
Place(p) ==
    LET ns == Namespace(run[p].op) IN
    /\ At(p, "place")
    /\ IF ns.cand # NoTree /\ ns.final = NoTree
       THEN IF Matches(ns.cand, run[p].mat)
            THEN /\ tree' = SyncTree(ns.cand) /\ SyncTarget
                 /\ run' = [run EXCEPT ![p].pc = "rename", ![p].may = FALSE]
            ELSE /\ Fails(p, "not-committed") /\ UNCHANGED <<dir, tree>>
       ELSE /\ UNCHANGED <<dir, tree>>
            /\ IF ns.cand = NoTree /\ ns.final # NoTree
               THEN run' = [run EXCEPT ![p] =
                      IF ns.final = run[p].mat.tree
                      THEN [run[p] EXCEPT !.pc = "settle", !.may = TRUE]
                      ELSE Ended(p, FALSE, "uncertain")]
               ELSE Fails(p, "not-committed")
    /\ UNCHANGED <<made, source, lock, call, faults, journalFiles>>

RenameFinal(p) ==
    LET o == run[p].op IN
    /\ At(p, "rename")
    /\ lock = p /\ dir.vis.final = NoTree /\ dir.vis.cand[o] = run[p].mat.tree
    /\ dir' = [dir EXCEPT !.vis = [cand |-> [dir.vis.cand EXCEPT ![o] = NoTree],
                                   final |-> run[p].mat.tree]]
    /\ \/ run' = [run EXCEPT ![p].pc = "settle", ![p].may = TRUE] /\ UNCHANGED faults
       \/ Fault /\ run' = [run EXCEPT ![p] = Ended(p, FALSE, "uncertain")]
    /\ UNCHANGED <<tree, made, source, lock, call, journalFiles>>

\* The helper refuses the rename, or is gone and cannot say.
RenameFinalRefused(p) ==
    /\ At(p, "rename")
    /\ \/ /\ lock = p /\ dir.vis.final # NoTree /\ UNCHANGED faults
          /\ run' = [run EXCEPT ![p] = Ended(p, FALSE, "not-committed")]
       \/ /\ lock # p /\ UNCHANGED faults
          /\ run' = [run EXCEPT ![p] = Ended(p, FALSE, "uncertain")]
       \/ /\ lock = p /\ Fault
          /\ \E commit \in {"not-committed", "uncertain"} :
               run' = [run EXCEPT ![p] = Ended(p, FALSE, commit)]
    /\ UNCHANGED <<lock, call, targetVars, journalFiles>>

\* The final entry is the pinned tree; parent and tree are synced and the
\* content verified before the journal may say committed.
FinalSettled(p) ==
    /\ lock = p
    /\ Namespace(run[p].op) = [cand |-> NoTree, final |-> run[p].mat.tree]
    /\ Matches(run[p].mat.tree, run[p].mat)

SettleFinal(p) ==
    /\ At(p, "settle")
    /\ IF FinalSettled(p)
       THEN /\ SyncTarget /\ tree' = SyncTree(run[p].mat.tree)
            /\ run' = [run EXCEPT ![p].pc = "commit", ![p].attempted = TRUE]
            /\ Invoke(p, CommitCall(p, run[p].op, run[p].mat))
       ELSE Fails(p, "uncertain") /\ UNCHANGED <<dir, tree, call>>
    /\ UNCHANGED <<made, source, lock, faults, journalFiles>>

CommitReturned(p) ==
    /\ Returned(p, "commit")
    /\ run' = [run EXCEPT ![p] =
         IF call[p].result.ok THEN [run[p] EXCEPT !.pc = "confirm"]
         ELSE Ended(p, FALSE, JournalCommitState(p))]
    /\ Collected(p)
    /\ UNCHANGED <<lock, faults, targetVars, journalFiles>>

\* verifyCommittedPublication inside #publish: the tree is pinned, synced and
\* verified; whatever it finds, the commit stands.
ConfirmCommitted(p) ==
    LET ns == Namespace(run[p].op)
        sound == ns.cand = NoTree /\ Matches(ns.final, run[p].mat) /\ lock = p
    IN
    /\ At(p, "confirm")
    /\ run' = [run EXCEPT ![p] = Ended(p, sound, "committed")]
    /\ IF sound THEN SyncTarget /\ tree' = SyncTree(ns.final)
                ELSE UNCHANGED <<dir, tree>>
    /\ UNCHANGED <<made, source, lock, call, faults, journalFiles>>

\* Handles are closed and the lock released; the result is returned.
Cleanup(p) ==
    /\ At(p, "cleanup")
    /\ lock' = IF lock = p THEN NoProc ELSE lock
    /\ run' = [run EXCEPT ![p] = Idle]
    /\ UNCHANGED <<call, faults, targetVars, journalFiles>>

\* Any inspection, sync or lock check between the steps can fail.
CheckFails(p) ==
    /\ run[p].pc \in {"create", "barrier", "place", "settle", "confirm"}
    /\ At(p, run[p].pc)
    /\ \/ lock # p /\ UNCHANGED faults
       \/ lock = p /\ Fault
    /\ Fails(p, CASE run[p].pc = "settle" -> "uncertain"
                  [] run[p].pc = "confirm" -> "committed"
                  [] OTHER -> "not-committed")
    /\ UNCHANGED <<lock, call, targetVars, journalFiles>>

PublicationStep(p) ==
    \/ TakeLock(p) \/ LockUnavailable(p) \/ ReadUnusable(p) \/ Observed(p)
    \/ StorageChanged(p) \/ SourceGone(p) \/ VerifyCommitted(p) \/ PrepareRefused(p) \/ Prepared(p)
    \/ CreateCandidate(p) \/ CopyCandidate(p) \/ CandidateBarrier(p) \/ Marked(p)
    \/ Place(p) \/ RenameFinal(p) \/ RenameFinalRefused(p) \/ SettleFinal(p)
    \/ CommitReturned(p) \/ ConfirmCommitted(p) \/ Cleanup(p) \/ CheckFails(p)

(***************************************************************************)
(* Faults.                                                                 *)
(***************************************************************************)
\* The source changes although its writer is believed stopped.
SourceChanges ==
    /\ \E p \in Procs : run[p].pc \in {"create", "copy", "barrier"}
    /\ Fault
    /\ \E v \in Versions \ {source} : source' = v
    /\ UNCHANGED <<rec, temp, jlock, call, dir, tree, made, lock, run>>

LoseLock(p) ==
    /\ lock = p /\ run[p].pc # "cleanup"
    /\ Fault
    /\ lock' = NoProc
    /\ UNCHANGED <<call, run, targetVars, journalFiles>>

Crash(p) ==
    /\ run[p].pc # "idle"
    /\ Fault
    /\ JournalCrash(p)
    /\ run' = [run EXCEPT ![p] = Idle]
    /\ lock' = IF lock = p THEN NoProc ELSE lock
    /\ UNCHANGED targetVars

\* What the target directory may hold after a loss of power: for every
\* operation its entries since the last sync survive together or not at all,
\* and a tree that was not synced may be torn.
PowerLoss ==
    /\ Fault
    /\ JournalPowerLoss
    /\ \E kept \in SUBSET Ops :
         LET after == [cand |-> [o \in Ops |-> IF o \in kept THEN dir.vis.cand[o]
                                                          ELSE dir.dur.cand[o]],
                       final |-> IF /\ dir.vis.final # NoTree
                                    /\ tree[dir.vis.final].op \in kept
                                 THEN dir.vis.final ELSE dir.dur.final]
         IN dir' = [vis |-> after, dur |-> after]
    /\ tree' = [t \in Trees |-> IF tree[t].synced THEN tree[t]
                                ELSE [tree[t] EXCEPT !.content = Torn]]
    /\ run' = [p \in Procs |-> Idle]
    /\ lock' = NoProc
    /\ UNCHANGED <<made, source>>

Next ==
    \/ \E p \in Procs :
         \/ \E o \in Ops, mode \in Modes : Publish(p, o, mode)
         \/ PublicationStep(p)
         \/ JournalStep(p) /\ UNCHANGED <<dir, tree, made, source, lock, run>>
         \/ LoseLock(p) \/ Crash(p)
    \/ SourceChanges \/ PowerLoss

Spec == Init /\ [][Next]_vars

(***************************************************************************)
(* Properties.                                                             *)
(***************************************************************************)
\* Every variable keeps its type.
TypeOK ==
    /\ JournalTypeOK
    /\ dir \in [vis : [cand : [Ops -> Trees \cup {NoTree}], final : Trees \cup {NoTree}],
                dur : [cand : [Ops -> Trees \cup {NoTree}], final : Trees \cup {NoTree}]]
    /\ \A t \in Trees : tree[t].content \in Versions \cup {Torn}
    /\ made \in 0 .. MaxTrees /\ source \in Versions
    /\ lock \in Procs \cup {NoProc}

\* A journal record that says committed - even one that only the page cache
\* holds - stands for a tree that is durable under the final name, whole, with
\* the recorded identity and content: no loss of power can take the tree back
\* from under a commit.
CommittedIsDurable ==
    \A o \in Ops : rec[o].vis.state = "committed" =>
        LET mat == rec[o].vis.mat IN
        /\ dir.vis.final = mat.tree /\ dir.dur.final = mat.tree
        /\ tree[mat.tree] = [op |-> o, content |-> mat.digest, synced |-> TRUE]

\* Commits are durable as above, and what a call is about to report is true:
\* committed only with a durable committed record, and not-committed, when its
\* lock was never lost, only if the operation's tree is not under the final name.
OutcomeHonest ==
    /\ CommittedIsDurable
    /\ \A p \in Procs : run[p].pc = "cleanup" =>
          LET o == run[p].op
              r == run[p].result
          IN
          /\ r.ok => r.commit = "committed"
          /\ r.commit = "committed" => rec[o].dur.state = "committed"
          /\ r.commit = "not-committed" /\ lock = p =>
               dir.vis.final = NoTree \/ tree[dir.vis.final].op # o

\* The protocol implements the atomic publication: a durable materialization
\* chooses an operation's tree and a durable commit publishes it.  No retry,
\* crash, loss of power or second process replaces the recorded tree by another
\* copy, takes a publication back or publishes a second operation.
Committed == {o \in Ops : rec[o].dur.state = "committed"}
Promise == INSTANCE AtomicPublication WITH
    Trees <- Materializations, None <- NoMat,
    chosen <- [o \in Ops |-> rec[o].dur.mat],
    published <- IF Committed = {} THEN NoMat ELSE CHOOSE o \in Committed : TRUE
PublishesAtomically == Promise!Spec
=============================================================================
