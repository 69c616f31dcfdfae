-------------------------- MODULE MCStorageBackends --------------------------
(* Two storage backends for TLC, which share no state: the ext4 backend    *)
(* with one storage and two calls at a time, or the stopped-directory       *)
(* backend with two processes, one capture and one restore.                *)
EXTENDS Ext4ImageBackend, CheckpointCapture, TLC

CONSTANT First

MCEpoch == [e \in 1 .. LastEpoch |-> e]

VARIABLE part

backendVars == <<part, vars, captureVars>>

MCInit ==
    /\ part \in {"ext4", "directory"}
    /\ Init /\ CaptureInit

MCNext ==
    \/ part = "ext4" /\ Next /\ UNCHANGED <<part, captureVars>>
    \/ part = "directory" /\ CaptureNext /\ UNCHANGED <<part, vars>>

MCSpec == MCInit /\ [][MCNext]_backendVars

(* Operation identifiers of the ext4 backend are interchangeable and are    *)
(* used in order.  The first writer is on First: the processes are alike.   *)
InOrder == \A o, q \in Ops :
               o < q /\ ops[q] # NoRecord => ops[o] # NoRecord
FirstIsFirst == session.epoch < 2 => \A h \in Hosts \ {First} : writer[h] = NoWriter
Focus == IF part = "ext4" THEN InOrder ELSE FirstIsFirst

Symmetry == Permutations(Calls)
=============================================================================
