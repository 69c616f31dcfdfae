-------------------------- MODULE Ext4ImageBackend --------------------------
(***************************************************************************)
(* The lifecycle backend over ext4 images: every method prepares its       *)
(* operation in the provider's state (as ProviderOperations promises),     *)
(* drives the image, and commits what it observed.  A new process opens    *)
(* every recorded storage before it serves.                                *)
(***************************************************************************)
EXTENDS LinuxExt4ImageDriver

CONSTANTS Calls,     \* calls of the process that overlap
          MaxFaults  \* bound: failures, crashes, losses of power
ASSUME BackendAssumption == MaxFaults \in Nat /\ "none" \notin Storages

VARIABLES call,   \* call[c]: a method call in progress
          open,   \* the process: what it opened or closes
          faults

vars == <<ops, storages, disk, call, open, faults>>

NoCall == [pc |-> "idle", op |-> NoOp, again |-> FALSE, last |-> TRUE,
           todo |-> <<>>]
Closed == [pc |-> "no", left |-> {}, at |-> "none", todo |-> <<>>, hurt |-> FALSE]

Init ==
    /\ AbsInit
    /\ disk = [s \in Storages |-> NoDisk]
    /\ call = [c \in Calls |-> NoCall]
    /\ open = Closed
    /\ faults = 0

Kind(c) == ops[call[c].op].kind
Target(c) == ops[call[c].op].storage
Before(c) == ops[call[c].op].before
Pending(s) == {o \in Ops : ops[o].phase = "prepared" /\ ops[o].storage = s}
Fault == faults < MaxFaults /\ faults' = faults + 1

-----------------------------------------------------------------------------
\* What a request needs of the storage it is prepared on.
validateAttachPrecondition(st) == AtRest(st) /\ st.epoch < MaxEpoch
validateDetachPrecondition(st) == st.life = "attached"
validateDestroyPrecondition(st) == AtRest(st)

\* The directory of the generation that is restored for the next writer.
planRestoreDestination(st) == st.epoch + 2

Admits(kind, st) ==
    CASE kind = "provision" -> TRUE
      [] kind = "attach" -> validateAttachPrecondition(st)
      [] kind = "restore-attach" -> /\ validateAttachPrecondition(st)
                                    /\ planRestoreDestination(st) \in Roots
      [] kind = "detach" -> validateDetachPrecondition(st)
      [] kind = "destroy" -> validateDestroyPrecondition(st)
      [] OTHER -> FALSE

\* A repeated detach or destroy is never finished: an observation proves
\* neither the sync nor the removal of what was prepared before.
Resumes(kind) == kind \notin {"detach", "destroy"}

\* Methods wait for initialize; a committed operation is answered from the
\* record and changes nothing.
Prepare(c, o, kind, s) ==
    /\ open.pc = "yes" /\ call[c] = NoCall
    /\ Admits(kind, storages[s])
    /\ AbsPrepare(o, kind, s)
    /\ call' = [call EXCEPT ![c] = [NoCall EXCEPT !.pc = "queued", !.op = o,
                                                  !.last = kind # "provision"]]
    /\ UNCHANGED <<disk, open, faults>>

Repeat(c, o) ==
    /\ open.pc = "yes" /\ call[c] = NoCall
    /\ ops[o].phase = "prepared" /\ Resumes(ops[o].kind)
    /\ call' = [call EXCEPT ![c] =
          [NoCall EXCEPT !.pc = "queued", !.op = o, !.again = TRUE,
                         !.last = ops[o].kind # "provision"]]
    /\ UNCHANGED <<ops, storages, disk, open, faults>>

-----------------------------------------------------------------------------
\* The driver call each method makes.
provisionSession(again) == IF again THEN <<Fd("observe-mount")>> ELSE provision
prepareWritableAttachment(st) ==
    IF st.root = 0 THEN <<FdOn("attachment-root", DataRoot)>>
    ELSE <<FdOn("observe-root", st.root)>>
prepareRestoreAttachment(st) ==
    <<FdOn("observe-root", planRestoreDestination(st))>>

\* Mutant: detach does not sync the file system.
detachUnsynced == <<Fd("observe-mount")>>
detachAttachment == <<Fd("syncfs")>>
destroySession(d) == destroy(d)

\* provisionSession calls the driver twice: the second call creates, adopts
\* and syncs the publication control file.
DriverCall(c) ==
    LET d == disk[Target(c)]
    IN  IF call[c].last /\ Kind(c) = "provision"
        THEN <<FdOn("publication-root", 0)>>
        ELSE CASE Kind(c) = "provision" -> provisionSession(call[c].again)
               [] Kind(c) = "attach" -> prepareWritableAttachment(Before(c))
               [] Kind(c) = "restore-attach" -> prepareRestoreAttachment(Before(c))
               [] Kind(c) = "detach" -> detachAttachment
               [] Kind(c) = "destroy" -> destroySession(d)

\* Driver operations on one image and mount path take turns.
acquireOperationLock(c) ==
    \A b \in Calls : ~(call[b].pc = "driver" /\ Target(b) = Target(c))

Drive(c) ==
    /\ call[c].pc = "queued" /\ acquireOperationLock(c)
    /\ call' = [call EXCEPT ![c].pc = "driver", ![c].todo = DriverCall(c)]
    /\ UNCHANGED <<ops, storages, disk, open, faults>>

\* One invocation; after the last one of the program the locks are free.
Invoke(c) ==
    LET todo == call[c].todo
    IN  /\ call[c].pc = "driver" /\ todo # <<>>
        /\ \E e \in invokeFdOperation(disk[Target(c)], Head(todo)) :
             disk' = [disk EXCEPT ![Target(c)] = e]
        /\ call' = [call EXCEPT ![c].todo = Tail(todo)]
        /\ UNCHANGED <<ops, storages, open, faults>>

Return(c) ==
    /\ call[c].pc = "driver" /\ call[c].todo = <<>>
    /\ call' = [call EXCEPT ![c].pc = IF call[c].last THEN "commit" ELSE "queued",
                            ![c].last = TRUE]
    /\ UNCHANGED <<ops, storages, disk, open, faults>>

\* An invocation is refused by what it finds: the operation stays prepared.
Refuse(c) ==
    /\ call[c].pc = "driver" /\ call[c].todo # <<>>
    /\ invokeFdOperation(disk[Target(c)], Head(call[c].todo)) = {}
    /\ call' = [call EXCEPT ![c] = NoCall]
    /\ UNCHANGED <<ops, storages, disk, open, faults>>

\* An invocation fails or is not answered.
Fail(c) ==
    /\ call[c].pc = "driver" /\ call[c].todo # <<>> /\ Fault
    /\ \E e \in Partly(disk[Target(c)], Head(call[c].todo)) :
         disk' = [disk EXCEPT ![Target(c)] = e]
    /\ call' = [call EXCEPT ![c] = NoCall]
    /\ UNCHANGED <<ops, storages, open>>

-----------------------------------------------------------------------------
\* What each method commits.
Provisioned == [life |-> "provisioned", rev |-> 1, epoch |-> 0, root |-> 0]
Attached(st, r) == [life |-> "attached", rev |-> st.rev + 1,
                    epoch |-> st.epoch + 1, root |-> r]
Detached(st) == [st EXCEPT !.life = "detached", !.rev = @ + 1]
Destroyed(st) == [st EXCEPT !.life = "destroyed", !.rev = @ + 1, !.root = 0]
StorageState(kind, st) ==
    CASE kind = "provision" -> Provisioned
      [] kind = "attach" -> Attached(st, IF st.root = 0 THEN DataRoot ELSE st.root)
      [] kind = "restore-attach" -> Attached(st, planRestoreDestination(st))
      [] kind = "detach" -> Detached(st)
      [] kind = "destroy" -> Destroyed(st)

\* A call that finds its operation committed by another one returns the result
\* that is recorded.
commit(c) ==
    LET o == call[c].op
        after == StorageState(Kind(c), Before(c))
    IN  /\ call[c].pc = "commit"
        /\ IF ops[o].phase = "prepared"
           THEN /\ assertStorageTransition(storages[Target(c)], after, Kind(c))
                /\ ops' = [ops EXCEPT ![o] = CommittedRecord(@, after)]
                /\ storages' = [storages EXCEPT ![Target(c)] = after]
           ELSE UNCHANGED <<ops, storages>>
        /\ call' = [call EXCEPT ![c] = NoCall]
        /\ UNCHANGED <<disk, open, faults>>

\* The commit fails; one whose answer is lost is a commit.
CommitFails(c) ==
    /\ call[c].pc = "commit" /\ Fault
    /\ call' = [call EXCEPT ![c] = NoCall]
    /\ UNCHANGED <<ops, storages, disk, open>>

-----------------------------------------------------------------------------
\* initialize: the storages of the snapshot one by one.
initialize ==
    /\ open.pc = "no"
    /\ open' = [Closed EXCEPT !.pc = "opening",
                  !.left = {s \in Storages :
                              storages[s].life \notin {"none", "destroyed"}}]
    /\ UNCHANGED <<ops, storages, disk, call, faults>>

\* The mount is there, or it is absent and no writer was attached to it.
remountAbsent(s) ==
    /\ open.pc = "opening" /\ open.at = "none" /\ s \in open.left
    /\ ~readMountEvidence(disk[s]) /\ storages[s].life # "attached"
    /\ open' = [open EXCEPT !.at = s, !.todo = remount(disk[s])]
    /\ UNCHANGED <<ops, storages, disk, call, faults>>

\* Mount, control file and data root are those of the record.
Verifies(s) ==
    LET d == disk[s]
    IN  /\ observeMount(d) /\ ensurePublicationRoot(d, TRUE) # {}
        /\ storages[s].root # 0 => observeAttachmentRoot(d, storages[s].root)

verifyOpened(s) ==
    /\ open.pc = "opening" /\ s \in open.left
    /\ open.at \in {"none", s} /\ open.todo = <<>>
    /\ Verifies(s)
    /\ \E e \in ensurePublicationRoot(disk[s], TRUE) :
         disk' = [disk EXCEPT ![s] = e]
    /\ open' = [open EXCEPT !.left = @ \ {s}, !.at = "none"]
    /\ UNCHANGED <<ops, storages, call, faults>>

Opened ==
    /\ open.pc = "opening" /\ open.left = {}
    /\ open' = [Closed EXCEPT !.pc = "yes"]
    /\ UNCHANGED <<ops, storages, disk, call, faults>>

\* The outcome of initialize is kept: nothing is served until a new process
\* tries again.
coldOpenFailed(s) ==
    /\ open.pc = "opening" /\ s \in open.left /\ open.at \in {"none", s}
    /\ IF open.todo = <<>>
       THEN /\ ~Verifies(s)
            /\ open.at = s \/ readMountEvidence(disk[s])
                           \/ storages[s].life = "attached"
       ELSE invokeFdOperation(disk[s], Head(open.todo)) = {}
    /\ open' = [Closed EXCEPT !.pc = "failed"]
    /\ UNCHANGED <<ops, storages, disk, call, faults>>

\* quiesceStorage, which the host calls once every callback has settled.
beginClose ==
    /\ open.pc = "yes" /\ \A c \in Calls : call[c] = NoCall
    /\ open' = [Closed EXCEPT !.pc = "closing",
                  !.left = {s \in Storages : AtRest(storages[s])}]
    /\ UNCHANGED <<ops, storages, disk, call, faults>>

quiesceStorage(s) ==
    /\ open.pc = "closing" /\ open.at = "none" /\ s \in open.left
    /\ observeMount(disk[s]) /\ ensurePublicationRoot(disk[s], TRUE) # {}
    /\ open' = [open EXCEPT !.at = s, !.left = @ \ {s}, !.todo = quiesce(disk[s])]
    /\ UNCHANGED <<ops, storages, disk, call, faults>>

QuiesceDone ==
    /\ open.pc = "closing" /\ open.at # "none" /\ open.todo = <<>>
    /\ open' = [open EXCEPT !.at = "none"]
    /\ UNCHANGED <<ops, storages, disk, call, faults>>

\* An invocation of remount or quiesce.
OpenInvoke ==
    /\ open.todo # <<>>
    /\ \E e \in invokeFdOperation(disk[open.at], Head(open.todo)) :
         disk' = [disk EXCEPT ![open.at] = e]
    /\ open' = [open EXCEPT !.todo = Tail(@)]
    /\ UNCHANGED <<ops, storages, call, faults>>

OpenFails ==
    /\ open.todo # <<>> /\ Fault
    /\ \E e \in Partly(disk[open.at], Head(open.todo)) :
         disk' = [disk EXCEPT ![open.at] = e]
    /\ open' = [Closed EXCEPT !.pc = "failed", !.hurt = TRUE]
    /\ UNCHANGED <<ops, storages, call>>

-----------------------------------------------------------------------------
\* The writer of an attached storage; it is stopped before a detach is asked
\* for.
Write(s) ==
    LET r == storages[s].root
    IN  /\ storages[s].life = "attached" /\ Pending(s) = {}
        /\ observeMount(disk[s]) /\ disk[s].live.tree[r] \in 1 .. MaxTree - 1
        /\ disk' = [disk EXCEPT ![s].live.tree[r] = @ + 1]
        /\ UNCHANGED <<ops, storages, call, open, faults>>

\* The publication of a restored generation, synced before it is recorded.
Publish(s) ==
    LET r == planRestoreDestination(storages[s])
    IN  /\ open.pc = "yes" /\ AtRest(storages[s]) /\ Pending(s) = {}
        /\ r \in Roots /\ observeMount(disk[s]) /\ disk[s].live.tree[r] = Absent
        /\ disk' = [disk EXCEPT ![s].live.tree[r] = 1, ![s].kept.tree[r] = 1]
        /\ UNCHANGED <<ops, storages, call, open, faults>>

Restart == /\ call' = [c \in Calls |-> NoCall]
           /\ open' = Closed
           /\ UNCHANGED <<ops, storages>>

\* The process ends; the namespace it ran in may outlive it.
Dies ==
    /\ IF open.pc \in {"failed", "closing"} /\ open.todo = <<>>
       THEN UNCHANGED faults ELSE Fault
    /\ Restart
    /\ \/ UNCHANGED disk
       \/ disk' = [s \in Storages |-> NamespaceGone(disk[s])]

PowerLoss ==
    /\ Fault /\ Restart
    /\ disk' \in [Storages -> UNION {AfterPowerLoss(disk[s]) : s \in Storages}]
    /\ \A s \in Storages : disk'[s] \in AfterPowerLoss(disk[s])

Method(c) ==
    \/ \E o \in Ops, s \in Storages, kind \in Kinds : Prepare(c, o, kind, s)
    \/ \E o \in Ops : Repeat(c, o)
    \/ Drive(c) \/ Invoke(c) \/ Return(c) \/ Refuse(c) \/ Fail(c)
    \/ commit(c) \/ CommitFails(c)

Process ==
    \/ initialize \/ Opened \/ beginClose \/ QuiesceDone
    \/ OpenInvoke \/ OpenFails
    \/ \E s \in Storages : \/ remountAbsent(s) \/ verifyOpened(s)
                           \/ coldOpenFailed(s) \/ quiesceStorage(s)

Next == \/ \E c \in Calls : Method(c)
        \/ Process
        \/ \E s \in Storages : Write(s) \/ Publish(s)
        \/ Dies \/ PowerLoss

Spec == Init /\ [][Next]_vars

-----------------------------------------------------------------------------
Destroying(s) == \E o \in Pending(s) : ops[o].kind = "destroy"

(* What is recorded of a storage that no writer holds outlives a loss of    *)
(* power.  At rest: the image, the control file and the data root of the    *)
(* record are durable, with all that the last writer wrote.  Destroyed:     *)
(* nothing is left on the host, and nothing can come back.                  *)
RecordedIsReal ==
    \A s \in Storages :
        LET d == disk[s]
            r == storages[s].root
        IN  /\ AtRest(storages[s]) /\ ~Destroying(s) =>
                 /\ d.kept.image = "ext4" /\ d.kept.dir /\ d.kept.control
                 /\ r # 0 => /\ d.kept.tree[r] # Absent
                             /\ d.kept.tree[r] = d.live.tree[r]
            /\ storages[s].life = "destroyed" =>
                 /\ d.loops = 0 /\ ~d.mounted
                 /\ \A v \in {d.live, d.kept} : v.image = "none" /\ ~v.dir

(* The backend refuses to serve only because a storage lost its mount under *)
(* a writer, because a destroy was interrupted, or because the opening      *)
(* itself was disturbed: no other history leaves a host it cannot open.     *)
OpensUnlessCut ==
    open.pc = "failed" =>
        \/ open.hurt
        \/ \E s \in Storages : storages[s].life = "attached" \/ Destroying(s)
=============================================================================
