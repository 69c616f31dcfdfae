# Verification of the portable Codex runtime

TLA+ models of the runtime that keeps a Codex session portable between hosts:
who may write a session, how its writer is launched, stopped and fenced, and how
its state is captured, restored and recovered when workers crash. The modules
are translated from `src/src/*.mjs`; `PROJECT.json` maps every definition to the
lines it stands for.

## The system

One PostgreSQL database holds the authority over every session. Workers on any
host call it through serializable transactions, act on the outside world
(storage provider, container supervisor, snapshots) between two transactions,
and may die at any point; other workers find the active operation in the
database and finish or cancel it.

| component | state it keeps | operations | interacts with |
|---|---|---|---|
| Session authority (`postgres-session-authority`) | session row (revision, lifecycle, epoch, lease, attachment, launch, active and last pointer), operation rows, reservations, identifier claims, capture attempts, catalogue, generations, supervisor-state owners | register, reserve, claim dispatch per kind, mark uncertain, finalize per kind, finalize-and-reserve handoffs, cancel, renew, list and read | called by every worker; every method re-validates the rows it reads |
| Serializable store (`postgres-serializable-store`) | connection, transaction, certainty of the commit | run a callback in a serializable transaction, retry, retire a connection | under the authority |
| Operation guard, restore lifecycle guard | session-level advisory locks | run a callback under a lock | around every worker of one operation |
| Writer launcher, Podman supervisor and its durable state | record chain of one writer container, claims on the filesystem authority | start, inspect, stop, recover | authority (launch, stop), container runtime |
| Stopped-writer capability | same-process registry of writers and stop proofs | register, stop, consume, retire | launcher, capture workers |
| Detach, fence, stop-capture, atomic-capture compositions | none of their own (they resume from the authority) | reserve, claim, provider effect, finalize | authority, providers |
| Detached restore: plans, foreground, deployment, runtime, recovery | stable plans, cursors, leases of lanes | reserve a plan, restore, activate, launch, recover in lanes | authority, guards, image provider |
| Filesystem image provider: ledger, its authority, ext4 backend | append-only ledger of reservations, images and attachments with an anchored head | reserve, create, attach, detach, fence, publish | PostgreSQL head anchor, kernel drivers |
| Operation journal, stopped-directory publication | journal records published by rename and fsync, staged trees | prepare, materialize, commit, recover | filesystem |
| LVM atomic crash capture | catalogue rows, snapshot volumes | claim, dispatch, commit, settle | launcher (inside its stop capability), LVM |
| Auth broker, encrypted state store | token generation, refresh reservation | read, refresh, recover | advisory file lock, token endpoint |
| Managed auth refresh adapter | staging attempts and credential file of an authority home | refresh, promote, clean up | advisory file lock, app-server |
| Rollout tail repair, probes | none | repair a JSONL tail; compatibility probes | files, external executables |

What is hard: every worker step is a transaction followed by an effect, so a
crash, a lost acknowledgement or a second worker can come between any two; lease
expiry races dispatch; a handoff must commit one operation and reserve the next
without ever leaving a state its own readers refuse; epochs, revisions and
identifiers are bounded and shared. `PROJECT.json` lists these hazards at the
lines where they bite.

## Modules

| module | models | of |
|---|---|---|
| `SessionDocument` | the session document, its records, and the rules its readers apply to one document and to the operation it points to | `canonicalDocument`, `validateSessionRevisionState`, `validateActiveBusinessState`, `validateTerminalBusinessState`, ... |
| `SessionRelations` | the rows of one session (VARIABLES), what a transaction writes, and `validateSessionRelations`: the relations between rows that every method checks first | the relation readers and the SQL writers |
| `SessionAuthority` | one action per method that changes rows; requests and their admission; the specification and its properties | `PostgresSessionAuthority` |
| `FencedLease` | abstract specification of a writer lease: grant, revoke, vacate | what holders and providers rely on |
| `AuthStateStore` | the encrypted canonical record: each method as the set of its outcomes, with the candidate file, the rename and the directory sync | `EncryptedAuthStateStore` |
| `AuthBroker` | refresh reservation, shared refresh, reconciliation, recovery; composes with `AuthStateStore` | `AuthBroker` |
| `PostgresConnection` | external: one connection and its backend, every statement as the set of its outcomes | what the store uses of PostgreSQL and `pg` |
| `SerializableStore` | runSerializable: attempts, the query queue of the callback, commit, rollback, release to the pool | `PostgresSerializableStore` |
| `OperationJournal` | one journal of operation records: write of a candidate, rename, directory sync, read, close | `FilesystemOperationJournal` |
| `StoppedDirectoryPublication` | publish, reconcile and cleanup of a stopped tree over the journal, step by step, with the lock and its loss | `stopped-directory-publication.mjs` |
| `AtomicPublication` | abstract specification: a recorded tree is published once, whole, or not at all | what the callers of a publication rely on |
| `ProviderState` | the ledger of the image provider as data: frames, segments, generations, what replaying them yields, which transitions an operation makes | the readers and validators of `filesystem-image-provider-state.mjs` |
| `ProviderLedger` | processes that open, append, rotate, prepare, complete and reconcile, and the PostgreSQL row that anchors the head | `FilesystemImageProviderState`, `postgres-filesystem-image-provider-head-anchor.mjs` |
| `ProviderAdoption` | adoption of the ledger into exact mode: the row, its contract, compare-and-swap, what an opener accepts | `postgres-filesystem-image-provider-state-authority.mjs` |
| `ProviderOperations` | abstract specification: the table of operations a caller sees | what the backend relies on |
| `SupervisorStateFiles` | write-once records of one writer in a directory: pending file, link, sync, collection | `podman-writer-supervisor-state.mjs` |
| `PodmanWriterSupervisor` | launch, reconcile, stop, verified-stop fence and collection over those records and the container runtime | `podman-writer-supervisor.mjs`, the force-fence providers |
| `StoppedWriterCapability` | the slot of the same-process registry: registration, stop proof, consumption, retirement | `stopped-writer-capability.mjs` |
| `AtomicCrashCapture` | catalogue row, snapshot volume, commit, verification and retirement of one attempt | `lvm-atomic-crash-capture-provider.mjs`, the mutation authority, the catalogue |
| `LogicalWriterLauncher` | composes the three: calls of launcher processes under the operation guard, with the authority reduced to the launch, its stop and its fence | `postgres-logical-writer-launcher.mjs`, the force-fence and stop-capture compositions |
| `DetachedRestore` | one restore plan: foregrounds, capture sweep, recovery coordinator and lanes with durable cursors, under the guards | the detached-restore, detach, capture and recovery modules |
| `ManagedAuthRefresh` | one refresh of an authority home with its durable staging attempt and the app-server | `managed-auth-refresh.mjs` |
| `PhysicalSettlement` | settlement groups: deadline, grace, breach, quiescence and stop of the invocations of a deployment | `physical-collaborator-settlement.mjs` |
| `RecoveryScheduler` | the loop that runs recovery steps | `postgres-restore-recovery-scheduler.mjs` |
| `RestoreDeployment` | composes the two: start, admitted calls, image reservation, fatal errors and stop of a deployment | `postgres-detached-restore-deployment.mjs`, the runtime controller, the physical and image bindings |
| `LinuxExt4ImageDriver` | control directory, loop, mount and tree of one storage; each helper invocation with its outcomes | `linux-ext4-image-driver.mjs`, what the kernel does (external) |
| `Ext4ImageBackend` | prepare, complete, replay, cold open and quiesce of a backend over a driver, with overlapping calls of one process | `ext4-filesystem-image-backend.mjs` |
| `StorageContracts` | what a proof, a receipt or a context says, and which of them are about the same capture or restore | `session-storage-contracts.mjs` |
| `CheckpointCapture` | captures of a stopped directory and restores of their checkpoints: attempts, claims, publication, finalization, prepared resume, reconciliation and recovery of several processes over one authority | `stopped-directory-backend.mjs`, `postgres-checkpoint-mutation-authority.mjs`, the recovery service |
| `SessionAuthorityProofs`, `SerializableStoreProofs`, `AuthBrokerProofs`, `LocalLifecycleProofs`, `WriterLaunchProofs`, `DetachedRestoreProofs`, `StorageBackendProofs` | theorems (see Proofs); those of the abstract lease are in `FencedLease` | |
| `MCWriter`, `MCRestore`, `MCAuthBroker`, `MCStore`, `MCPublication`, `MCProvider`, `MCWriterLaunch`, `MCDetachedRestore`, `MCLocalLifecycles`, `MCStorageBackends` | instances for TLC | |

### How the authority model corresponds to the code

Every method of the authority is one serializable transaction, so every method
is one action; its guard is the conjunction of the method's `ensure`s and early
refusals, including `SessionReadable` (the whole of `validateSessionRelations`)
which every method runs first. A replay of a method that already happened
returns the stored receipt and writes nothing, so it is a stuttering step, and
so are the list, read and reconcile methods. Nothing says which worker calls the
next method: crashes, timeouts and takeovers by recovery are all covered by the
free choice of the next action.

Abstractions:

* one session; other sessions appear as `ForeignClaim`, which takes identifiers
  from the global registry, and as stable restore plans that keep one;
* identifiers derived from an operation identifier (lease, attachment,
  reservation, checkpoint, generation) are that identifier; a digest is the
  value it digests; a null is a record with id `None`;
* the clock is `leaseExpired`: whether the authority clock, sampled after the
  locks, has passed the lease's expiry; the expiry instant is the number of
  extensions (`term`);
* rows written with an operation (capture attempt, catalogue entry, generation)
  exist exactly in the phases that write them and are read off the operation;
* requests name identifiers that exist or that the caller means to use
  (`Offers`); the contract versions that need the whole fleet (`GatedContracts`)
  are a constant;
* a stop of version 1 behaves like one of version 2; kinds the authority has no
  finalizer for (`generic`, atomic crash captures) are only reserved, claimed,
  marked uncertain or cancelled.

Not modelled inside the authority: capture-attempt tombstones, the manual
fencing mode, claim tokens of stops, legacy document versions, and the
supervisor-state owner bindings with their garbage collection.

`Discipline` holds promises of the callers that the authority relies on and does
not check. The runs assume all of them; what happens when one is broken is under
"Observations", and what holds all the same is proved for every `Discipline`.

### How the auth model corresponds to the code

A store method runs inside the process queue and the advisory lock, so it is one
step; a failure inside it chooses another of its outcomes (nothing written, a
candidate left, renamed but not synced, committed but not acknowledged, lock not
released). `disk.live` is what a reader sees, `disk.durable` what a power loss
leaves. Broker code runs between two awaits without interruption: a step of
`AuthBroker` is one store method or adapter call together with the code up to the
next await. `job[p]` is the entry of `SINGLEFLIGHT` in process `p` with the locals
of `#refreshOnce`, `#compareAndRead` and its callers; when it settles, all callers
that await it go on in the same step, because the entry is deleted first and
their continuations run before anything else.

Abstractions: a credential is a number (access and refresh token are issued
together); one account and user, so the identity checks, which only refuse, are
left out; whether a token's TTL suffices is a free choice; error codes are kept
where a caller tells them apart; a commit id is the actor with the generation it
expects, which is as unique as the store needs since an actor does one thing at a
time. The adapter is external: it may fail and vouch that nothing was sent, or send
the token and then return anything. What an administrator installs is a new
credential or the one that is canonical when the install reads the store;
`installCredential` takes no precondition that would refuse an older one.

The documentation asks for one broker process; the reservation protocol does not
depend on it, and `auth_race` has two. One promise to workers does: a caller that
joins an active refresh (`#joinActiveRefresh`) is not subject to the
rejected-token check of `#refreshShared`. With two processes a worker can be given
its own token back: the reservation it reads is the other process's, the refresh it
joins is one of its own process that was started for an older token, and the other
process's adapter fails before dispatch, so that the credential goes back and is the
joined refresh's answer. TLC finds this trace when `RejectedTokenReplaced` is stated
without its second disjunct; the property allows exactly that (a joined refresh, the
last commit another process's, two generations after the worker's grant) and, in a
process that has the store to itself, nothing. `answered` tells a call that was
handed the same grant again from one that failed.

### How the store model corresponds to the code

A call of `runSerializable` is a record whose `pc` names what it awaits, and a
step is one statement with the code up to the next await. The queries of a
callback run on the promise chain of their capability, beside the call: a callback
may leave them unawaited, swallow their errors, and go on querying until `close`
has run. A statement's outcome is chosen from `Outcomes`: executed and answered;
refused with an SQLSTATE of a conflict, with one that vouches for the refusal, or
with none that counts; answered too late or never, with its effect or without; and
for a COMMIT, an effect that comes after the client has given up (`LateCommit`). A
malformed acknowledgement is treated by the code, and so by the model, as an
answer that never came. Statements that the store defends against are part of the
instance: a callback that commits, rolls back, chains, turns off
`synchronous_commit`, or leaves session state behind.

A conflict is only reported by a transaction that did some work, so not by the
empty one that `COMMIT AND CHAIN` opens: the recheck would take it for a proof
that the committed work was rolled back. Errors are kept by what `runSerializable`
does with them (retry or not, commit state); who threw them and their wording are
not. `migrate` is left out; it shares the commit and release paths and never
retries.

### How the publication model corresponds to the code

`StoppedDirectoryPublication` has one call per process: `publish`, `reconcile` or
`cleanup`, whose `pc` names the next await. The journal underneath is
`OperationJournal`: a record file is its content, a commit is candidate, rename
and directory sync, and `PowerLoss` keeps what was synced (an unsynced rename may
or may not survive). The lock may be lost while its holder goes on; only
`renameWhileHeld` is bound to the lock, because the helper process that holds it
does the rename: it is one step with four outcomes (done, not done, each told or
not). A tree is the version of the source it was copied from and whether it is
complete; what `stopped-tree` checks on its walk only refuses. An operation
identifier stands for its whole input. `AtomicPublication` is implemented by the
detailed module (`PublishesAtomically`).

If the lock is lost before the candidate directory is made, the candidate that is
left over makes a later `reconcile` answer `published_state_invalid` although the
commit stands; nothing is lost, and the model has that answer.

### How the provider ledger model corresponds to the code

The files are `ProviderState`'s segments of frames; a frame is `synced` or not, and
a crash leaves a torn last frame. A step of `ProviderLedger` is one file operation
or one statement with the code up to the next await. Checksums and hashes are
represented by what they are taken of: two heads are equal exactly when they
describe the same frames. The row in PostgreSQL is `anchor`; `ProviderAdoption` is
what `open` accepts and how the row moves from adoption to exact mode. The
in-memory cache, paged reading and the SQL text are left out. The caller chooses
its request when it decides, not when it starts.

`compareAndAdvance` whose acknowledgement is lost is judged by a plain `readHead`.
The update may still be committing then; the caller is told `unchanged` and the
row changes afterwards (`stray` in the model). The comment at
`filesystem-image-provider-state.mjs:4219` describes the read-back as final, the
code at `postgres-filesystem-image-provider-state-authority.mjs:4329` does not
make it so. `HeadReadable` therefore speaks of states in which no stray update has
landed; `ToldIsDurable`, `DispatchedOnce` and the refinement hold regardless. A
lost lock may cost readability; it never makes a durable record wrong.

### How the writer model corresponds to the code

A launcher process makes one call at a time (`runLaunch`, `runPreparedLaunch`,
`reconcileLaunchAttempt`, `stopWriterForCapture`, a force fence, a collection, an
atomic crash capture) and a step is an authority transaction, a supervisor step
or a container command. Reading a record is one step, a pending file is opened
and written in one step (a crash may leave it half written). A container command
may be done or not, told or not, or hang: a start that hangs leaves a stray start
that may happen later. The operation guard is a lock whose connection may die
while the guarded callback goes on; the code probes it before and after an
effect, and so does the model.

The authority in this module is the launch, its stop and its fence, with the
transitions of `SessionAuthority` on them; the lease that is acquired again
between two launches is abstracted to its epoch. `exposed` says that a container
ran without the fence the documentation asks for (`session-runtime-authority.md`
lines 1345 and 1398): the properties about running writers are conditional on it.

`AtomicCrashCapture` adds the catalogue row and the snapshot of one capture per
launch attempt. A statement or `lvcreate` whose answer is lost may take effect
later. Only the process that stopped the writer can capture it, so a committed row
of an earlier process is not reached. An uncertain capture leaves the local writer
blocker for good. The clean-stop route reserves nothing in the authority, so even
without any failure another process may launch a second writer while `lvcreate` of
the first runs; the snapshot is still of the stopped one, which is what
`CrashCaptureIsReal` says, and the documentation
(`atomic-crash-capture-extension.md`, lines 66-80) leaves that route dormant.

### How the restore model corresponds to the code

`DetachedRestore` follows one plan in release mode. Workers are foregrounds, the
capture sweep and recovery sweeps; what they do to the authority are its methods
on the operations of the plan, each with the operation it may find instead. The
force mode of a detach, generations of version 2 and the legacy `runCapture` route
are not in it. The stop and the launch are outcomes of the launcher model, image
preparation and the launch intent have no state. A cursor's read and the listing
of its page are one step; a page has one entry, and in one deployment the plan is
alone while in the other it lies between two others that are always pending, so
every sweep has to pass them. An abort ends a sweep like a crash between two
candidates.

The model has the places where the code stops for good, which are fail-closed: a
renewal whose answer is lost, a stop left active, a publication claimed by a
process that died before publishing, a detach whose claim was not answered (it
blocks). `DoneIsSettled` says that what was done is settled all the same.

### How the managed refresh model corresponds to the code

A call of `ManagedAuthRefresh` is one refresh of an authority home by a process,
with the adapter `runUncontainedCodexManagedRefreshProbe` (the default,
`runCodexManagedRefresh`, refuses before dispatch). The lock may be lost at any
time, the app-server is external: it may refresh, fail, write before it is asked,
or not stop. Checks of identities, modes and access lists only refuse; `Validate`
may refuse at will. A replacement of the home ends the call and leaves everything,
and an artifact that only an operator may clear keeps later calls out. `Login` is
somebody else who writes a credential without the lock; between the comparison and
the rename it may be overwritten, as in the code. Torn files of the app-server are
left out.

### How the ext4 backend model corresponds to the code

`Ext4ImageBackend` is one process, because the documentation asks for one
cooperating mutator (`linux-ext4-physical-backend.md`, lines 262-270), with calls
that overlap in it. A helper invocation of the driver is one step that may do
nothing, do its work without the sync, or finish. A root or control directory is
identified by its path: one that is lost is never made again under a committed
record. A prepare that finds the expected state already there is one step.
The process may end with or without its mount namespace; loop devices stay. A
replayed detach or destroy is never finished, and a cold open of a storage that is
recorded as attached and is not mounted, or whose destroy was cut off, closes the
backend for good: both are fail-closed. `OpensUnlessCut` says that these are the
only ways to lose the backend. The writer is stopped before a detach and the
publication is atomic, which are promises of the modules above. Reconcile,
resolve and inspect calls change nothing.

### How the checkpoint model corresponds to the code

`CheckpointCapture` keeps what the authority holds of a capture or restore (its row
with revision and base, the attempt, the catalogue entry), the source with its
writer, and the calls of the processes. A call of the backend goes from read to
reserve, claim, publication, release and finalization; each authority method is
one step whose answer may be lost, and every receipt is compared with what the call
holds by a predicate that keeps the name of the code's normalizer. The context of a
capture (source, owner, epoch, base) is taken when it is claimed and is what the
publication, the resume and the reconciliation are compared with. A prepared capture
is resumed by a process that reads the attempt; a capture without one is reconciled
to what the publication journal says. Each probe of the advisory lock
(`assertGuardHeld`) is a step of its own before the claim, the publication, the
verification, the finalization or the read-back that it admits (`probePrepared`,
`probeDispatched`, `probeAttempt`, `probePublished`, `probeUnanswered`): the lock can
be lost in between, and the call goes on beside whoever has taken it since. Only
the call that was granted a restore
publishes it, all others verify the generation. The publication itself is
`StoppedDirectoryPublication` and is one step here with its four outcomes. Proofs and
receipts are the records of `StorageContracts`; exact data shapes, copies and freezing
are left out.

### How the deployment model corresponds to the code

An await is the end of a step of `RestoreDeployment`: what `stop` does before its
first await (close the admission, stop the controller, the scheduler and every
settlement group) is one step. Only the group of the state collector is quiescent:
it fails its invocation and waits for the provider; every other group gives a
provider that is late a grace and then gives it up, which is fatal for the
deployment. The time of an invocation is early, due or over, and an elapsed
boundary is noticed by its timer, by the settlement of the provider or by a stop,
whichever comes first. Fatal events are handled in `fatalScope`, outside the async
context of the call they happen in, because the controller refuses to be stopped
from an admitted call. A start that fails cleans up without awaiting itself, while a
stop awaits an active start. The pools are closed last. The recovery step fails only
through its observer. An image reservation is used across an inspection: a second
use revokes it. The migration and the preflight are outcomes; what the calls do to
the database is in the other modules.

## Runs

| run | instance | shows |
|---|---|---|
| `writer_leases` | 5 interchangeable identifiers, each open to every writer contract, a generic kind and another session; 14 revisions, 3 epochs; symmetry over identifiers | every interleaving of acquire, renew, release, fence, block, refence, cancel up to the end of revisions and epochs: readable, recoverable, fenced, and a refinement of `FencedLease` |
| `restored_life` | 11 identifiers, one per part of the life of a restored session, used in that order or not at all; 45 revisions, 3 epochs | the long history: capture, detach, restore under a later epoch, launch, stop with or without capture handoff, detach or fence, activation, second launch, with uncertainty, cancellation and expiry anywhere |
| `restore_edge` | the same, 20 revisions, with a crossed launch identifier, a stable plan and a fence that hands over to an atomic capture, `FairSpec` | the revision space ends inside a handoff: a dispatched effect stays recordable, and no prepared launch holds the session for good |
| `auth_race` | 2 processes, 5 generations, 2 reservations, 1 failure; a caller each, an administrator with two calls and 3 credentials, or two callers against one, one install and 2 credentials | a refresh token is sent once, nothing but its own outcome or a recovery replaces it, and a worker is not handed the token it rejected but in the one case above |
| `auth_workers` | 1 process, 2 worker connections, 1 key rotation, 1 failure, 4 generations, `FairSpec` | grants are durable, never spent; every request is answered |
| `store_outcomes` | 2 calls, 1 connection, 2 attempts, 2 queries of 7 kinds, conflicts anywhere, 1 other failure; deadlock checked | the reported commit state is true for good, the callback takes effect at most once, and no call is stuck |
| `publication` | 2 processes, 2 operations, 2 versions of the source, 2 trees, 2 faults; symmetry over all three | a reported commit survives a power loss, an answer is honest, and the publication is atomic |
| `provider_ledger` | 2 processes, 2 operations of one storage, 2 generations, a rotation after every frame, 1 fault | the anchored head can be read back, an effect is dispatched once, what was told is durable, and the table of operations is implemented |
| `writer_launch` | 2 processes, 2 launch attempts under two epochs, 1 stop attempt, 1 fault | what is over does not run, effects are recorded before they happen, nothing captures a running writer |
| `detached_restore` | 2 workers, the plan alone and between two others, 1 fault, `FairSpec` | no effect is begun twice, committed rows are backed by their effect, what was done is settled |
| `local_lifecycles` | either 2 processes with 2 refreshes each, 4 credentials, 2 faults; or a deployment with a call and a recovery step that use the storage and the collector, or with two calls that use one image reservation; fairness of `Progress` | no refresh token is sent twice, no refreshed credential is lost; pools outlive the work, a clean stop is quiet, every stop settles, a reservation ends for good |
| `storage_backends` | either the ext4 backend: 1 storage, 8 operations in order, 2 overlapping calls, 3 epochs, 3 trees, 2 faults; or the stopped-directory backend: 2 processes, 1 capture and 1 restore, 2 epochs with a writer each, 1 write, 1 attempt identifier, 1 mishap | a committed record is backed by what is on the device, and a cold open succeeds unless an attach was lost or a destroy was cut off; a captured checkpoint is the tree its writer left when it stopped, and a capture or restore that is told done is done |

Bounds. Three epochs give an acquisition, a fence that supersedes it and a grant
after it. Fourteen revisions are two full writer cycles with a block between;
every bound is reached, so the ends of both spaces are part of the runs. In
`MCRestore` the order of the parts (`LifeInOrder`) is a state constraint: it cuts
histories in which an identifier is used for a part out of order, which are
renamings of shorter ones, and keeps the first writer's part uneventful because
`writer_leases` covers it. `CHECK_DEADLOCK FALSE` everywhere: identifiers and
revisions run out, and an atomic crash capture is fail-closed (no method of the
authority settles it), so a session really may stop.

For the broker, two reservations are enough for a stale owner to meet a later
one, three credentials for an installed, a refreshed and a recovered one, and the
last generation is reached in the middle of a refresh. One failure is enough for
the durability properties because they speak of what a power loss would leave,
not only of what it left. `MAX_STORAGE_ONLY_REBASES` and
`MAX_SHARED_REFRESH_RECHECKS` are 8 in the code and 2 in the runs, one more than
the single rotation and the single stale task need.

For the publication, two faults are a power loss on top of a lost lock or a crash;
two trees are the one of the attempt that failed and of the one that follows. The
second operation is there because the lock and the journal directory are shared.
For the ledger, a watermark of one rotates on every append, so every crash point of
a rotation is met with and without a frame in the new segment. `writer_launch` and
`detached_restore` have one fault because every step may be it, and the guards that
matter are those of the worker that comes afterwards; the safety properties were
also explored with two faults (1 689 661 and 1 104 397 states) without a violation.
In `local_lifecycles` two faults are a step that fails and the cleanup that fails
after it.

Two calls and the recovery step are enough for a deployment: a stop meets one
provider in each phase of its deadline, in a quiescent group and in another, and two
uses of a reservation overlap. For the ext4 backend, eight operations in order are
the whole life of a storage with a second attachment; two overlapping calls are a
prepare and a quiesce, two faults a lost process on top of a failed step. For the
stopped-directory backend, the second epoch is the writer that comes after the stopped
one and may write while a capture of the first is still open; one process is the
worker that was cut off and the other the one that resumes, and one mishap (a lost
answer, a crash, a failed release) puts the second worker behind every point of the
first.

For the store, two attempts are a retry and its exhaustion; two queries let one run
behind another that ended the transaction; the second call sends none, because it
is there to wait for the connection and to find it clean. Conflicts cost nothing
(attempts bound them), so the one failure comes on top of any pattern of retries.

Fairness. `FairSpec` of the authority assumes weak fairness of `ReconcileLaunchAttempt`
and of `LeaseExpires`. The scheduler repeats its rounds, and each asks the launch lane
for the launch attempts that are prepared and have no state owner yet (the owner is
recorded by the dispatch) and cancels what `cancelPreparedOperation` lets it; and the
authority's clock goes on. Nothing else is assumed to be taken again, because nothing
else prepared is: the lanes of generations and activations list those that are
starting or uncertain, and settle one only if they find its effect; the batches of
the checkpoint recovery service, which also list a capture that a stop handed over,
are run by whoever calls them; and nobody lists an acquire, a release, a fence or a
stop. That these can still be dispatched, cancelled or settled is what
`PreparedRecoverable` and `DispatchedRecoverable` say.

`FairSpec` of the broker assumes that store methods return, that the adapter answers
(it runs under timeouts) and that the event loop runs every continuation; callers, the
administrator, rotation and failures are free.
`FairSpec` of `DetachedRestore` assumes weak fairness of every step of a worker that
has begun, and strong fairness of starting each sweep: the scheduler loop starts
the lanes again and again, but a sweep may find the lifecycle lock taken. Its
property is under the hypothesis that again and again no worker is in a call
(`[]<>Quiet`), because two foregrounds can take the activation lock in turn for ever
and keep recovery out. `Progress` of `RestoreDeployment` is assumed to be weakly fair only once
a stop was begun: statements run under timeouts, timers fire, the event loop runs
every continuation, and the collector settles. Nothing is assumed of any other
provider, which may never settle, or of the callers.

## Observations

Met while modelling, and kept out of the runs by a promise of the callers
(`Discipline`) or by what a property speaks of:

* a version 3 stop whose capture identifier is claimed by somebody else before
  dispatch makes the session unreadable (offer the identifier of `private-intent` to
  another session); for the same situation on a fence the code keeps the operation
  cancellable on purpose (`postgres-session-authority.mjs`, lines 12342 and 12412);
* a capture reserved directly after a cancelled version 3 stop can be neither
  dispatched nor cancelled (drop `capture-after-stop`); the same happens to a launch
  reserved directly after a cancelled version 2 generation (drop
  `launch-after-restore`);
* a version 1 activation is written without reading the history it names, and every
  later read refuses it (drop `checked-activation`);
* a version 3 stop is reserved without the self-naming check that its readers apply
  (drop `own-stop`);
* a compare-and-swap of the ledger head may commit after its read-back has answered
  `unchanged` (see the provider ledger above).

## Proofs

TLC checks the properties on instances; the theorems below hold for every value
of the constants. They assume only the `ASSUME`s of the modules they extend (types
of the parameters, a name for "nobody" that is nobody's, natural numbers for
bounds), which TLC evaluates in the runs. Bounds that are part of a specification
(faults, attempts, generations) are constants, so a theorem covers all of them.

### The session authority

For every set of identifiers, every bound, every `Offers` and `FleetCompatible`.
They hold for every `Discipline` too: none of them relies on a promise of the
callers.

* `TypeCorrect`: `Spec => []TypeOK`. Inductive with `TypedInv`, which adds that
  the phase of an operation determines its revision (so committing never counts
  past 3) and that activations have version 1 or 2 (so the revision budget of
  their handoff is the large one). The budget lemmas (`SpaceLemma`,
  `HandoffSpace`) carry the argument that a handoff's two revisions fit.
* `Refinement`: `Spec => ImplementsFencedLease`. `AuthorityInv` adds that only
  the operation the session points to is in an active phase (`OneActive`), that
  an identifier with a row is materialized in the registry (`OwnClaims`: a
  handoff can only create a row that does not exist, never overwrite its own),
  and that the lease in the document is the one its operation minted
  (`LeaseHeld`). Every action is shown to be a grant, a revocation, a vacation
  or a stutter; the lifecycle rule that every method checks is what makes a
  grant meet an empty session.
* `EpochsFence`: `Spec => []EpochsFenceWriters`. Every step is a step of the
  abstract lease on the mapped state, and those keep its invariant (proved of the
  lease itself as `OneGrantPerEpochTheorem` and `HolderIsLatestTheorem` in
  `FencedLease`).
* `FenceAnchored`, `WriterTracked`, `DispatchedIsRecoverable` and `WriterLeaves`
  state `FenceTargetAnchored`, `RunningWriterTracked`,
  `DispatchedRecoverable` and `WriterLeavesByProof`. Their common invariant
  `WriterInv` adds to `AuthorityInv` that the active pointer names an operation,
  that only an operation that hands over names another (`IntentsNamed`), and
  `Anchored`: the release or fence that is active, in whatever phase, names the
  holder of the lease, and so does what a blocked operation left, which is
  committed. `FenceTargetAnchored` alone is not inductive: it says nothing of a
  fence that is only prepared, whose target is fixed then. The proofs first show
  what each method writes (`Dispatches`, `Settles`, `Reserves`, ...), and take what
  `validateSessionRelations` says of the state before the step from
  `SessionReadable`, since every method reads before it writes; they never assume
  that the state after a step is readable.
* `Readable`, `Recoverable` and `Boundary` speak of `AlwaysReadable`,
  `PreparedRecoverable` and `HandoffBoundary`. The first two are false of callers
  that break a promise (see Observations), so the theorems say exactly what a broken
  promise can do:
  * `Spec => [](RequestsSound => AlwaysReadable)`. `RequestsSound` looks at the
    request of the active and of the last operation only: a stop that hands over
    names itself, and nobody claims its capture before it is dispatched; an
    activation that was prepared names a history that exists. No other relation
    that the readers demand can be broken, by any sequence of methods of any caller.
  * `Spec => [](RequestsSound /\ NothingIntrudes => PreparedRecoverable)`.
    `NothingIntrudes` says that the prepared operation is not a capture or a launch
    which its caller reserved where a stop or a restore hands one over.
  * `Spec => []HandoffBoundary` holds without a condition.

  The runs check the three properties themselves, with the promises kept.
  * The relation readers look at the active and the last operation only, and at
    rows those name. That they still hold after a step rests on two facts about
    the rest of the database: committed rows never change (`HistoryKept`), and a
    claimed identifier stays with its claimant (`ClaimsSettle`). So whatever a
    reader found of the history is found again (`CoreKept`, `LaunchGenerationKept`,
    `RelationsKept`), and one lemma per method shows what it writes is accepted
    (`ReserveReadable`, `DispatchReadable`, `AloneReadable` and `OverReadable` for
    the finalizations without and with a handoff, `CancelReadable`, ...).
  * `SessionReadable` alone is not inductive. `ReadableInv` adds, for every
    operation and not only those the session points to: its reservation is in the
    phase of its row (`Reserved`); whoever hands over names an identifier other
    than its own (`IntentsFit`); whoever has claimed an identifier for another
    operation was dispatched (`IntentClaims`), which is what the readers of fences
    ask of `claims`; and the session
    that an active operation was reserved on suits its kind (`ActiveFits`), which
    a finalization needs to leave a document that `canonicalDocument` accepts.
  * `PreparedInv` adds what a prepared operation still has: a revision to be
    cancelled, or, where it may not be cancelled, the three revisions, the epoch
    and the handoff that its dispatch asks for (`FenceFits`, `CaptureFits`,
    `LaunchFits`; the last two for what was handed over, which the claim of its
    identifier shows), and that a generation is restored while no launch is recorded.
  * The invariants proved are `RequestsSound => ReadableInv` and `SoundPrepared`,
    which adds the one fact that `HandoffBoundary` needs of a launch that waits
    (`LaunchWaits`). They are inductive because every method reads before it writes:
    a session whose readers refuse a request is never written again, and no claim of
    another session makes the request sound (`SoundBefore`).

### The serializable store

* `StoreTellsTheTruth`: `Spec => []OutcomeIsTrue`, for every number of calls,
  connections, attempts and queries and whatever the callbacks send. `StoreInv`
  says that calls and connections are paired (`Paired`), that the writes a
  connection holds are those of the attempt it serves or of one that was given up
  with its `COMMIT` under way (`Owned`), that what is committed was written by the
  last attempt (`LastAttempt`), and for each step of a call what its connection
  then holds: as long as the transaction that began is the one that is open and
  is not in doubt, it holds exactly what the attempt has sent and nothing of the
  attempt is committed. Everything that loses track of the transaction is seen by
  the boundary check before the next statement.

### Credentials

* `BrokerSpendsOnce`, `BrokerNeverReusesSpent`, `BrokerDeliversDurable` and
  `BrokerPayloadsSucceed` (`AuthBrokerProofs`), for every number of processes,
  callers, credentials, rotations and failures. The parts of `BrokerInv`: a
  reservation belongs to one process; a swap that can still take place replaces
  what its job has read; a credential that nobody installed yet is known to its
  owner alone; whoever may call the adapter is the only one who may send its
  credential; the reservation under which a credential was sent stays canonical
  until another credential replaces it; and what a power loss leaves is no newer
  than what the directory shows. The last two are what a restart needs: a spent
  credential cannot come back as ready.
* `RefreshSentAtMostOnce` and `RefreshRefreshedIsKept` (`LocalLifecycleProofs`),
  for every number of processes, refreshes and failures. The argument of
  `RefreshInv` is about artifacts: the lock, which a call checks when it starts the
  app-server, and the scan, which finds what is live, make the live attempt unique;
  an attempt that has sent a token is an anchor from then on, which nobody removes
  before its result is promoted and durable, and while it stands no other call
  passes the scan.

### The writer's launcher and supervisor

`OverIsAlwaysDead`, `EffectsAreAlwaysRecorded` and `SnapshotIsOfStopped`
(`WriterLaunchProofs`) state `OverIsDead`, `EffectsAreRecorded` and
`SnapshotOfStopped`, for every number of processes, attempts, failures and stop
attempts and every choice of calls. They follow from `LauncherInv`
(`LauncherInvariant`), an invariant of the composition of the authority's operations,
the advisory locks, the launcher's calls, the supervisor's runs, its records and the
containers:

* the authority (`AuthorityInv`): one launch is under way at a time, a stop, a fence
  or a pointer excludes any launch or capture, and what is collected was stopped;
* calls and locks (`CallsHold`, `RunsForCall`): a call holds its lock until one is
  lost anywhere (`exposed`), and the supervisor runs for the call that asked it;
* records (`FilesAt`): revisions are published in order, each durable before the next
  is visible, and collected from below, so that what a power loss leaves is again a
  prefix, or is still ended by the terminal record;
* containers and runs (`BoxAt`, `StrayAt`, `RunAt`): where each launch, inquiry and
  stop is, what records it has found or made by then, and which commands of dead
  processes may still land;
* what calls remember (`CallAt`, `OverAt`, `HandleAt`): evidence found by the
  supervisor (`Ran`, `Dead`, `StoppedDown`) is stable under every step of every other
  actor, so it is still true when the authority is asked to record it.

The last is the heart of the argument: `OverIsDead` is not inductive, since a call may
finalize long after it looked. `Dead` says that the launch was claimed, does not run,
has no start command on its way and no run that could still start it; one lemma for
each action shows that it stays so. Only `Dead` depends on the locks: a launch that
goes on beside an inquiry needs a call that lost its lock. `starts[a] <= 1` holds
without them, because the claim, made once, is the only thing that lets a supervisor
begin. `SnapshotOfStopped` needs the catalogue as well (`CatalogueInv`): one capture
holds an attempt's row between its claim and its `lvcreate`, and rows only go
forward. `StoppedWriterCapability` is not constrained by the invariant: none of these
properties relies on what a process remembers of its capability.

### The detached restore

`WorkIsBegunOnce` and `CommittedWorkIsReal` (`DetachedRestoreProofs`) state `BegunOnce`
and `CommittedIsReal`, `RestoreTypes` states the type invariant, for every set of
processes, every deployment and every number of faults. `RestoreInv` has three parts
beside the types:

* a token for each stage (`MayBegin`): only a claim that finds the row prepared, and is
  answered, hands a worker the right to begin; the row is past `prepared` from then on,
  nobody else holds the token, and nothing was begun while it is held. The advisory
  guards are not part of the argument: they may be lost at any time, and the claim alone
  keeps the work single. A caller that remembers a grant (`granted`) does so only at a
  few places (`GrantedPlaces`), none of which a second claim is reached from;
* what a worker knows where it stands (`Knows`): a stage is finalised only from places
  that are reached with its work done (`Finalizes`), and the next stage is reserved only
  from places that are reached behind its commit (`Follows`);
* the chain of the stages (`Chain`): a row exists only behind the commit of the stage
  before it, so a complete launch has every stage committed behind it.

Every step of a worker is a change of rows that `Succeeds` the old ones and a call that
`Fits` them; `MovesKeep` shows once that such steps keep the invariant, and one lemma
for each procedure (a transaction, a query, a guard, a beginning, a finish) and each
action shows that it is such a step.

### The checkpoints

`CheckpointsAreStill` and `CaptureIsTold` (`StorageBackendProofs`) state
`CapturedIsStill` and `CaptureToldTrue`, for every set of processes, captures and
restores and every number of failures, writers and changes of the directory. They
follow from `CaptureInv` (`CaptureInvariant`):

* the directory (`Still`, `Quiet`): a writer that has stopped is never the writer of
  its epoch again, so what the directory held at that moment is a fact of the epoch;
* rows and publications (`RowOk`): a row under way is the session's active operation
  and of its epoch, whatever was published for a capture is what its epoch left, and a
  committed row has the content of a committed publication;
* the calls (`Fits`): what each place where a call waits has established. A first
  capture holds consuming evidence of a writer that has stopped, which keeps every
  stop, revocation and attach of that process out until it is settled.

`CapturedIsStill` alone is not inductive: the content is decided when the source is
published, and the row is committed several answers later, perhaps by another process.
`Grows` names what every step of every process keeps (revisions and epochs go forward,
decided rows and publications stay, stopped writers stay stopped); `FitsPersists` shows
once that a call's knowledge survives it, and one lemma for each place shows that the
step from there establishes what the next place claims. The lease and the advisory
locks are not part of the argument: both may be lost at any time.

### The ext4 backend

`RecordedIsAlwaysReal` and `OpensUnlessCutOff` (`StorageBackendProofs`) state
`RecordedIsReal` and `OpensUnlessCut`, for every set of storages and overlapping calls,
every number of epochs, operations and faults, and any interleaving of invocations,
crashes and losses of power. They assume that `"none"` names no storage
(`BackendAssumption`). `BackendInv` (`BackendInvariant`) relates

* the host and the record (`Hosted`): what must be durable depends on the life that is
  recorded, on whether an operation is prepared and on whether it destroys; a mounted
  image always has one loop and a durable directory;
* a call and the host (`CallFits`): the tail that is left of the program of a driver
  call tells how far it has come (`OnCourse`, `Built`), and one that is over has
  `Achieved` what its commit will record;
* two calls (`Apart`): the image's lock keeps two driver calls on one storage from
  overlapping, a detach or a destroy has one call ever, and a first provision cannot be
  building while another call is past it;
* the opening (`Remounts`): what is left of a remount fits the host, so an opening of a
  storage at rest cannot be refused, which is `OpensUnlessCut`.

Each helper has a lemma about the host it leaves, also when it fails half-way or is not
synced (`Sides`). A helper that only observes, makes a root or syncs is `Gentle`: it
takes nothing from anybody, and every other call on that host keeps its obligations.
The rest (formatting, removal) belong to operations that exclude all others
(`OthersEndure`). `DriverAdvances` is one step along a program, `DriverKeeps` what any
interruption of it leaves, and `GoneHosted` and `PowerLossHosted` are the end of a mount
namespace and the loss of power on any such host.

### The deployment

* `PoolsOutlive`, `StoppedQuiet` and `ReservationEnds` (`LocalLifecycleProofs`)
  state `PoolsOutliveWork`, `StoppedIsQuiet` and `ReservationEndsForGood`, for
  every set of works and groups and every deployment. A step computes its next
  state as a record, so the parts of `LifeInv` are predicates of such a record
  (`Fits`) and each helper (`beginStop`, `startFails`, `AfterFatal`, ...) has a
  lemma saying that what it returns fits.
  * The groups (`Settled`): a provider that still runs belongs to an active
    invocation or was given up by a group that is broken and not quiescent; a
    group that was asked to stop starts nothing, and has stopped well only
    unbroken. A step of a slot is one of `Moves` or `Starts`, whatever causes it.
  * The processes: the deployment and its controller stop together and no stop is
    refused (`DeploymentFits`: every stop runs outside the admitted calls, which
    is what `fatalScope` is for), a controller that may still start its scheduler
    was not stopped, and one that has settled its stop has nothing in flight
    (`ControllerFits`).
  * The reservation: one use at a time is at its inspection, and one that was
    interrupted finds the reservation revoked (`ReservationFits`).

### Only model-checked

* Liveness: `PreparedLaunchEnds`, `CallsReturn`, `DoneIsSettled`, `StopSettles`
  (fairness is out of the prover's reach).
* `RejectedTokenReplaced`.
* The properties of the publication (`OutcomeHonest`) and of the provider ledger
  (`HeadReadable`, `DispatchedOnce`, `ToldIsDurable`), and the two refinements.

## Plan

What the proofs should cover next, in this order:

1. `OutcomeHonest` of the publication.
2. `DispatchedOnce`, `ToldIsDurable` and `HeadReadable` of the provider ledger.
3. The refinements `PublishesAtomically` and `ImplementsOperations`.

Models that could follow: `migrate` of the store and the registry of stable plans.

## Not modelled

Parts that only refuse or only do input and output have no state a model would
add to: encryption and ACL checks, mount and image inspection, JSON
canonicalisation and digests (a digest is the value it digests), the hardening of
every module against a tampered runtime (pinned intrinsics, exact data objects,
promise adoption), the SQL text, and the compatibility probes. These, with the
integration programs and the setup scripts, are the larger part of the lines no
definition is mapped to.
