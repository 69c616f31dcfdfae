-------------------------- MODULE ProviderState --------------------------
(***************************************************************************)
(* The state a filesystem image provider keeps for its storages, and what  *)
(* one frame of its ledger does to it.  A frame records that an operation  *)
(* on a storage was prepared, or that a prepared one was committed.  The   *)
(* checksums that chain heads, checkpoints and frames are represented by   *)
(* the content they identify.                                              *)
(***************************************************************************)
EXTENDS Naturals, Sequences, SequencesExt

CONSTANTS Ops,       \* operation identifiers
          Storages,  \* storage identifiers
          MaxEpoch,  \* bound: writer epochs and data-root generations
          Watermark  \* activeFrameCountWatermark of the rotation policy

ASSUME ProviderStateAssumption ==
    /\ MaxEpoch \in Nat \ {0} /\ Watermark \in Nat \ {0}
    /\ Ops # {} /\ Storages # {}

Kinds == {"provision", "attach", "restore-attach", "detach", "checkpoint",
          "restore", "destroy"}
Lives == {"none", "provisioned", "attached", "detached", "destroyed"}
NoOp == "no operation"

\* A storage: lifecycle, revision, writer epoch and the identity of its data
\* root (0: none); a storage that was never provisioned has life "none".
NoStorage == [life |-> "none", rev |-> 0, epoch |-> 0, root |-> 0]

\* The storage states a caller may pass to commitOperation for prev.
Proposals(prev) ==
    {s \in [life : Lives \ {"none"}, rev : {prev.rev, prev.rev + 1},
            epoch : 0 .. MaxEpoch, root : 0 .. MaxEpoch] : s # prev}

AtRest(s) == s.life \in {"provisioned", "detached"}

assertPreparePrecondition(s, kind) ==
    CASE kind = "provision" -> s.life = "none"
      [] kind \in {"attach", "restore-attach", "destroy", "restore"} ->
            AtRest(s)
      [] kind = "detach" -> s.life = "attached"
      [] kind = "checkpoint" -> s.life \notin {"none", "destroyed"}

\* May a committed operation of this kind take a storage from prev to next?
assertStorageTransition(prev, next, kind) ==
    IF prev.life = "none"
    THEN kind = "provision" /\ next = [life |-> "provisioned", rev |-> 1,
                                       epoch |-> 0, root |-> 0]
    ELSE
    /\ prev.life # "destroyed"
    /\ next.rev = prev.rev + 1
    /\ CASE kind = "attach" ->
              /\ AtRest(prev) /\ next.life = "attached" /\ next.root # 0
              /\ prev.root \in {0, next.root} /\ next.epoch > prev.epoch
         [] kind = "restore-attach" ->
              /\ AtRest(prev) /\ next.life = "attached" /\ next.root # 0
              /\ prev.root # next.root /\ next.epoch > prev.epoch
         [] kind = "detach" ->
              /\ prev.life = "attached" /\ next.life = "detached"
              /\ next.epoch = prev.epoch /\ next.root = prev.root
         [] kind = "destroy" ->
              /\ AtRest(prev) /\ next.life = "destroyed"
              /\ next.epoch = prev.epoch /\ next.root = 0
         [] kind \in {"checkpoint", "restore"} ->
              /\ next.life = prev.life /\ next.epoch = prev.epoch
              /\ next.root = prev.root
         [] OTHER -> FALSE

-----------------------------------------------------------------------------
\* Frames and the state they build.

\* An operation record; before is the storage the operation was prepared on,
\* after the storage its commit installed.
NoRecord == [phase |-> "none", kind |-> "none", storage |-> "none",
             before |-> NoStorage, after |-> NoStorage]
PreparedRecord(kind, storage, before) ==
    [phase |-> "prepared", kind |-> kind, storage |-> storage,
     before |-> before, after |-> NoStorage]
CommittedRecord(r, after) == [r EXCEPT !.phase = "committed", !.after = after]

EmptyState == [rev |-> 0, ops |-> [o \in Ops |-> NoRecord],
               storages |-> [s \in Storages |-> NoStorage],
               origins |-> [s \in Storages |-> NoOp]]

PreparedFrame(v, o, kind, storage, before) ==
    [version |-> v, type |-> "prepared", op |-> o, kind |-> kind,
     storage |-> storage, image |-> before]
CommittedFrame(v, o, r, after) ==
    [version |-> v, type |-> "committed", op |-> o, kind |-> r.kind,
     storage |-> r.storage, image |-> after]

pendingOperationForStorage(st, storage) ==
    {o \in Ops : st.ops[o].phase = "prepared" /\ st.ops[o].storage = storage}

committedAttachmentOrigin(st, f) ==
    CASE f.kind \in {"attach", "restore-attach"} -> f.op
      [] f.kind \in {"checkpoint", "restore"} -> st.origins[f.storage]
      [] OTHER -> NoOp

\* Does the frame follow from the state?  Otherwise the ledger is corrupt.
Applies(st, f) ==
    LET cur == st.storages[f.storage]
        r == st.ops[f.op]
    IN  IF f.type = "prepared"
        THEN /\ r = NoRecord
             /\ pendingOperationForStorage(st, f.storage) = {}
             /\ cur = f.image
             /\ assertPreparePrecondition(cur, f.kind)
        ELSE /\ r.phase = "prepared" /\ r.kind = f.kind /\ r.storage = f.storage
             /\ cur = r.before
             /\ assertStorageTransition(cur, f.image, r.kind)

applyDeltaFrame(st, f) ==
    IF f.type = "prepared"
    THEN [st EXCEPT !.rev = @ + 1,
                    !.ops[f.op] = PreparedRecord(f.kind, f.storage, f.image)]
    ELSE [st EXCEPT !.rev = @ + 1,
                    !.ops[f.op] = CommittedRecord(@, f.image),
                    !.storages[f.storage] = f.image,
                    !.origins[f.storage] = committedAttachmentOrigin(st, f)]

Replay(st, frames) == FoldLeft(applyDeltaFrame, st, frames)

-----------------------------------------------------------------------------
\* Heads.  A head names a generation, the checkpoint it starts from and the
\* frames of its active ledger; its contract version is 2 or 3.

Genesis(version) ==
    [version |-> version, gen |-> 0, ckpt |-> EmptyState, log |-> <<>>]
HeadState(h) == Replay(h.ckpt, h.log)
TrueGenesis(h) == h.gen = 0 /\ HeadState(h).rev = 0

\* What a checkpoint keeps: version 2 every operation, version 3 the prepared
\* ones only (PostgreSQL keeps the committed ones).
checkpointArrays(st, version) ==
    IF version = 2 THEN st
    ELSE [st EXCEPT !.ops =
            [o \in Ops |-> IF st.ops[o].phase = "prepared" THEN st.ops[o]
                           ELSE NoRecord]]

AppendHead(h, f) == [h EXCEPT !.log = Append(@, f)]
RotateHead(h) ==
    [h EXCEPT !.gen = @ + 1, !.log = <<>>,
              !.ckpt = checkpointArrays(HeadState(h), h.version)]
AdoptHead(h) ==
    [version |-> 3, gen |-> h.gen + 1, log |-> <<>>,
     ckpt |-> checkpointArrays(HeadState(h), 3)]

isNormalAppend(h, next) ==
    /\ next.version = h.version /\ next.gen = h.gen /\ next.ckpt = h.ckpt
    /\ Len(next.log) = Len(h.log) + 1
isPureRotation(h, next) ==
    /\ next.version = h.version /\ next.gen = h.gen + 1
    /\ next.ckpt.rev = HeadState(h).rev
    /\ h.log # <<>> /\ next.log = <<>>
isAdoptionRotation(h, next) ==
    /\ h.version = 2 /\ HeadState(h).rev # 0 /\ next.version = 3
    /\ next.gen = h.gen + 1 /\ next.ckpt.rev = HeadState(h).rev
    /\ next.log = <<>>

eventRequiresRotation(h) == h.log # <<>> /\ Len(h.log) + 1 > Watermark
============================================================================
