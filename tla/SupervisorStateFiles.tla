------------------------ MODULE SupervisorStateFiles ------------------------
(***************************************************************************)
(* The durable record of one writer container: a write-once file for each  *)
(* of the revisions preparing, created, started, stopping and stopped of a *)
(* launch attempt.  A revision is published by linking a synced pending    *)
(* file to its name; whoever reads a revision that still has its pending   *)
(* alias finishes the publication.  Operations give files and an outcome.  *)
(***************************************************************************)
EXTENDS Integers, FiniteSetsExt

CONSTANT Attempts

ASSUME AttemptsAssumption == "none" \notin Attempts

VARIABLE files

Preparing == 0
Created == 1
Started == 2
Stopping == 3
Stopped == 4
Revisions == Preparing .. Stopped

NoRecord == -1
Invalid == -2

(* A pending file is torn, whole or an alias (link) of the published one.  *)
(* live is what a reader sees, kept what a power loss leaves; by is the    *)
(* operation that a stopping or stopped record names.                      *)
NoFile == [pend |-> "none", live |-> FALSE, kept |-> FALSE, by |-> "none"]

FilesInit == files = [a \in Attempts |-> [r \in Revisions |-> NoFile]]

Chain(a) == {r \in Revisions : files[a][r].live}

(* readCurrent: the revisions form a chain, and the last one is current.   *)
Current(a) ==
    CASE Chain(a) = {} -> NoRecord
      [] Chain(a) # {} /\ Chain(a) = Preparing .. Max(Chain(a)) -> Max(Chain(a))
      [] OTHER -> Invalid

StoppedBy(a) == files[a][Stopping].by

SyncDirectory(f) == [a \in Attempts |-> [r \in Revisions |->
                        [f[a][r] EXCEPT !.kept = f[a][r].live]]]

Unaliased(f, a, r) == [f EXCEPT ![a][r].pend = "none"]

(* cleanupPublishedAlias, for each revision a reader comes across.         *)
Helped(a) ==
    IF \E r \in Chain(a) : files[a][r].pend = "alias"
    THEN SyncDirectory([files EXCEPT ![a] = [r \in Revisions |->
             IF @[r].pend = "alias" THEN [@[r] EXCEPT !.pend = "none"] ELSE @[r]]])
    ELSE files

Outcome(f, result) == [files |-> f, result |-> result]

(* The exclusive creation, write and sync of the pending file; a whole one *)
(* that a crashed or concurrent writer of the same record left is adopted. *)
WritePending(a, r, by) ==
    LET f == files[a][r] IN
    CASE f.live -> Outcome(Helped(a), "lost")
      [] ~f.live /\ (f.pend = "none" \/ (f.pend = "whole" /\ f.by = by)) ->
            Outcome([files EXCEPT ![a][r].pend = "whole", ![a][r].by = by], "written")
      [] OTHER -> Outcome(files, "failed")

(* What a failure or a crash in the middle of it leaves.                   *)
HalfWritten(a, r, by) ==
    LET f == files[a][r] IN
    IF f.live \/ f.pend # "none" THEN {files}
    ELSE {files} \cup {[files EXCEPT ![a][r].pend = pend, ![a][r].by = by] : pend \in {"torn", "whole"}}

(* The link makes one writer the winner.                                   *)
LinkPending(a, r) ==
    LET f == files[a][r] IN
    CASE f.live -> Outcome(Helped(a), "lost")
      [] ~f.live /\ f.pend = "whole" ->
            Outcome([files EXCEPT ![a][r] = [@ EXCEPT !.pend = "alias", !.live = TRUE]], "linked")
      [] OTHER -> Outcome(files, "failed")

\* Mutant: the alias is removed and nothing synced.
FinishUnsynced(a, r) ==
    Outcome(IF files[a][r].pend = "alias" THEN Unaliased(files, a, r) ELSE files, "created")

(* The directory is synced before the alias is removed.                    *)
FinishPublication(a, r) ==
    Outcome(SyncDirectory(IF files[a][r].pend = "alias"
                          THEN Unaliased(files, a, r) ELSE files), "created")

(* transition: a writer that lost to the same record has what it wanted.   *)
SameRecord(a, r, by) == files[a][r].live /\ files[a][r].by = by

-----------------------------------------------------------------------------
(* collect: the chain, with any prefix already gone, is removed oldest     *)
(* first; the terminal revision goes when no power loss can bring a lower  *)
(* one back.                                                               *)
LowerRevisions == Preparing .. Stopping

Collectable(a) ==
    /\ files[a][Stopped].live
    /\ \A r \in Chain(a) : r .. Stopped \subseteq Chain(a)

CollectLower(a) ==
    /\ Collectable(a)
    /\ Chain(a) # {Stopped}
    /\ files' = [files EXCEPT ![a] = [r \in Revisions |->
          IF r \in LowerRevisions
          THEN [@[r] EXCEPT !.live = FALSE, !.pend = "none"] ELSE @[r]]]

CollectTerminal(a) ==
    /\ Chain(a) = {Stopped}
    /\ LET synced == SyncDirectory(files) IN
       files' = [synced EXCEPT ![a][Stopped] =
                    [@ EXCEPT !.live = FALSE, !.pend = "none"]]

CollectSync(a) ==
    /\ Chain(a) = {}
    /\ files[a][Stopped].kept
    /\ files' = SyncDirectory(files)

(* A power loss may undo unsynced links and, newest first, unsynced        *)
(* removals; an unsynced pending name may go with it.                      *)
AfterPowerLoss(f, dropped, back, pending) ==
    LET live == IF f.live THEN f.kept \/ ~dropped ELSE f.kept /\ back IN
    [f EXCEPT !.by = IF live \/ pending THEN @ ELSE "none",
              !.live = live,
              !.kept = live,
              !.pend = IF pending THEN IF f.pend = "alias" /\ ~live THEN "whole" ELSE f.pend
                       ELSE "none"]

LosePower ==
    \E dropped, pending \in BOOLEAN, oldest \in 0 .. Stopped + 1 :
        files' = [a \in Attempts |-> [r \in Revisions |->
                    AfterPowerLoss(files[a][r], dropped, r >= oldest, pending)]]

=============================================================================
