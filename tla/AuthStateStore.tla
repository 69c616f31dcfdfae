--------------------------- MODULE AuthStateStore ---------------------------
(***************************************************************************)
(* The encrypted canonical store of the auth broker as its callers see it: *)
(* one record, published by a rename inside a locked transaction.          *)
(*                                                                         *)
(* A transaction (process queue, directory guard, advisory lock) excludes  *)
(* every other one, so each store method is one step; what it may leave    *)
(* behind when a part of it fails is the set of its outcomes.  A disk has  *)
(*   live       the record the canonical name leads to,                    *)
(*   durable    the record it leads to after a power loss (the rename is   *)
(*              only durable once the directory was synced),               *)
(*   candidate  whether a promotion candidate (".next-") was left behind.  *)
(* An outcome is [disk, reply, record, fault]: record is what a read       *)
(* returns, fault says whether something had to go wrong for it.           *)
(***************************************************************************)
EXTENDS Naturals

CONSTANT MaxGeneration  \* the last generation, 2^64 - 1 in the code

ASSUME MaxGenerationAssumption == MaxGeneration \in Nat

Outcome(d, reply, fault) ==
    [disk |-> d, reply |-> reply, record |-> d.live, fault |-> fault]

(* #proveDirectoryDurable: the directory is synced before a result leaves. *)
ProveDirectoryDurable(d) == [d EXCEPT !.durable = d.live]

(* The two points of #commit a failure can stop at: the candidate was      *)
(* written but not renamed, or renamed but the directory not synced.       *)
Candidate(d) == [d EXCEPT !.candidate = TRUE]

Renamed(d, record) == [d EXCEPT !.live = record]

(* lock.release() fails after the operation: that error replaces every     *)
(* other one, and only an operator can go on.                              *)
ReleaseFailed(disks) ==
    {Outcome(d, "recovery_required", TRUE) : d \in disks}

\* Mutant: a read returns what is visible without syncing it.
ReadOutcomesUnsynced(d) ==
    IF d.candidate
    THEN {Outcome(d, "recovery_required", FALSE)}
    ELSE {Outcome(d, "ok", FALSE)}

(* read(): refuses while a candidate is unresolved; otherwise syncs the    *)
(* directory and returns the record.                                       *)
ReadOutcomes(d) ==
    IF d.candidate
    THEN {Outcome(d, "recovery_required", FALSE)}
    ELSE {Outcome(ProveDirectoryDurable(d), "ok", FALSE),
          Outcome(d, "failed", TRUE)}
         \cup ReleaseFailed({d, ProveDirectoryDurable(d)})

(* #commit: write and sync a candidate, rename it while the lock is held,  *)
(* sync the directory, read back.  A failure before the rename is reported *)
(* as such, one after the rename was attempted as uncertain; the candidate *)
(* is never removed.                                                       *)
CommitOutcomes(d, record) ==
    LET renamed == Renamed(d, record)
        synced  == ProveDirectoryDurable(renamed)
    IN  {Outcome(synced, "ok", FALSE)}
        \cup {Outcome(x, "failed", TRUE) : x \in {d, Candidate(d)}}
        \cup {Outcome(x, "uncertain", TRUE) :
                 x \in {Candidate(d), renamed, synced}}
        \cup ReleaseFailed({d, Candidate(d), renamed, synced})

(* The last generation has no successor. *)
Exhausted(d) == d.live.generation >= MaxGeneration

(* compareAndSwap(): an exact replay of the current commit succeeds again, *)
(* a reused commit id with other content or another base never does.       *)
CompareAndSwapOutcomes(d, expectedGeneration, commitId, payload) ==
    IF d.candidate
    THEN {Outcome(d, "recovery_required", FALSE)}
    ELSE IF d.live.commitId = commitId
    THEN IF d.live.payload # payload
         THEN {Outcome(d, "invalid", FALSE)}
         ELSE IF d.live.generation # expectedGeneration + 1
         THEN {Outcome(d, "generation_conflict", FALSE)}
         ELSE {Outcome(ProveDirectoryDurable(d), "ok", FALSE),
               Outcome(d, "failed", TRUE)}
              \cup ReleaseFailed({d, ProveDirectoryDurable(d)})
    ELSE IF d.live.generation # expectedGeneration
    THEN {Outcome(d, "generation_conflict", FALSE)} \cup ReleaseFailed({d})
    ELSE IF Exhausted(d)
    THEN {Outcome(d, "invalid", FALSE)}
    ELSE CommitOutcomes(d, [generation |-> expectedGeneration + 1,
                            commitId   |-> commitId,
                            payload    |-> payload])

(* rotateEncryption(): the same payload under a new key is a generation of *)
(* its own.  The caller names the generation it read; one that is behind   *)
(* conflicts and changes nothing.                                          *)
RotateEncryptionOutcomes(d, commitId) ==
    IF d.candidate \/ d.live.generation = 0 \/ Exhausted(d)
    THEN {}
    ELSE CommitOutcomes(d, [generation |-> d.live.generation + 1,
                            commitId   |-> commitId,
                            payload    |-> d.live.payload])

(* What the directory may show after a power loss: the rename that was not *)
(* synced is undone, and its candidate may be back under its own name.     *)
PowerLossOutcomes(d) ==
    {[live |-> d.durable, durable |-> d.durable, candidate |-> left] :
        left \in {FALSE, d.candidate \/ d.live # d.durable}}
=============================================================================
