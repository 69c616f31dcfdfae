-------------------------- MODULE StorageContracts --------------------------
(***************************************************************************)
(* What the records of a storage mutation must say of each other.  An      *)
(* epoch stands for a fence: the lease, its holder and the fencing epoch   *)
(* are issued together.  A session stands for session and backend, an id   *)
(* for the identifiers that are made from one operation's.                 *)
(***************************************************************************)
EXTENDS Naturals

SameStorage(left, right) ==
    left.session = right.session /\ left.storage = right.storage

assertSessionAttachment(a) == a.epoch > 0

assertCheckpointDescriptor(c) == c.epoch > 0 /\ c.class \in {"clean", "crash"}

TargetKind ==
    [attach |-> "attachment", detach |-> "attachment", destroy |-> "storage",
     checkpoint |-> "checkpoint", restore |-> "checkpoint"]
assertStorageMutationTarget(r) == r.kind = TargetKind[r.operation]

assertStorageMutationRequest(r) ==
    /\ r.operation \in DOMAIN TargetKind
    /\ r.epoch > 0
    /\ assertStorageMutationTarget(r)

\* A request carries the fence of the lease it is checked against, for the
\* session's own storage, before the lease expires.
assertStorageMutationMatchesLeaseSnapshot(r, lease, storageRef, expired) ==
    /\ assertStorageMutationRequest(r)
    /\ r.session = lease.session /\ r.epoch = lease.epoch
    /\ SameStorage(r, storageRef)
    /\ ~ expired

assertCanonicalFenceMatch(canonical, presented, expired) ==
    /\ canonical.session = presented.session /\ canonical.epoch = presented.epoch
    /\ ~ expired

Status == [checkpoint |-> "checkpoint-created", restore |-> "restored"]

\* A result repeats its request and adds the status of the operation.
assertStorageMutationResult(result, r) ==
    /\ assertStorageMutationRequest(result.request)
    /\ result.request = r
    /\ result.status = Status[r.operation]

\* A clean checkpoint is restored under a later fence than it was captured
\* under; the storage that is written may be another one.
assertRestoreCheckpointAdmission(checkpoint, r) ==
    /\ assertCheckpointDescriptor(checkpoint) /\ assertStorageMutationRequest(r)
    /\ checkpoint.class = "clean" /\ r.operation = "restore"
    /\ r.session = checkpoint.session /\ r.id = checkpoint.id
    /\ r.epoch > checkpoint.epoch
=============================================================================
