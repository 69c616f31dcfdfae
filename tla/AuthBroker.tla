----------------------------- MODULE AuthBroker -----------------------------
(***************************************************************************)
(* The auth broker: one refresh token that may be spent once, refreshed by *)
(* whichever process proves its reservation in the store first.            *)
(*                                                                         *)
(* A credential (access and refresh token, issued together) is a number.   *)
(* Each process has at most one shared refresh (SINGLEFLIGHT), its callers *)
(* join it; an administrator installs and recovers credentials with the    *)
(* same compare-and-read procedure.  `job' holds that procedure's state    *)
(* for every actor, with pc naming the await it is suspended at:           *)
(*   before      the read that starts the operation                        *)
(*   cas         a compareAndSwap of the store                             *)
(*   verify      the read after it                                         *)
(*   latest      the read that decides what to do about a conflict         *)
(*   adapter     the refresh adapter was called                            *)
(*   dispatched  the adapter sent the refresh token to the provider        *)
(***************************************************************************)
EXTENDS AuthStateStore

CONSTANTS
    Procs,          \* broker processes
    Admin,          \* the administrator's process
    Callers,        \* broker facades, one per worker connection
    Home,           \* the process of a caller
    Requests,       \* the kinds of request a caller makes
    MaxRebases,     \* MAX_STORAGE_ONLY_REBASES
    MaxRechecks,    \* MAX_SHARED_REFRESH_RECHECKS
    MaxTokens,      \* bound: credentials ever issued
    MaxAttempts,    \* bound: refresh reservations
    MaxRotations,   \* bound: key rotations
    MaxAdminCalls,  \* bound: calls of the administrator
    MaxFaults       \* bound: failures, crashes and power losses

ASSUME AuthBrokerAssumption ==
    /\ Admin \notin Procs
    /\ Home \in [Callers -> Procs]
    /\ Requests \in [Callers -> SUBSET {"login", "refresh", "worker"}]
    /\ {MaxRebases, MaxRechecks} \subseteq Nat \ {0}
    /\ {MaxTokens, MaxAttempts, MaxRotations, MaxAdminCalls, MaxFaults} \subseteq Nat

VARIABLES
    disk,       \* the canonical store
    job,        \* per actor: the operation in progress
    call,       \* per caller: the grant request in progress
    held,       \* per caller: the grant its worker was given
    spends,     \* per credential: how often its refresh token was sent
    origin,     \* per credential: the reservation it replaces, 0 for none
    nextToken, nextAttempt, rotations, adminCalls, faults

vars == <<disk, job, call, held, spends, origin,
          nextToken, nextAttempt, rotations, adminCalls, faults>>

Actors == Procs \cup {Admin}
Tokens == 1 .. MaxTokens

-----------------------------------------------------------------------------
(* Payloads.  A blocked payload keeps the fence of its reservation: the    *)
(* owner's attempt id and the digest of the source credential.             *)

Payload(status, token, reservation) ==
    [status |-> status, token |-> token, reservation |-> reservation]

Uninitialized == Payload("none", 0, 0)

ReadyPayload(token) == Payload("ready", token, 0)

RefreshReservationPayload(token, attempt) ==
    Payload("in_progress", token, attempt)

BlockedPayload(status, fence) == Payload(status, fence.token, fence.reservation)

BlockedStatuses == {"in_progress", "recovery", "reauth"}

Payloads ==
    {Uninitialized} \cup {ReadyPayload(t) : t \in Tokens}
    \cup {Payload(s, t, a) :
            s \in BlockedStatuses, t \in Tokens, a \in 1 .. MaxAttempts}

Grant(record) ==
    [token |-> record.payload.token, generation |-> record.generation]

NoGrant == [token |-> 0, generation |-> 0]

-----------------------------------------------------------------------------
IdleJob ==
    [pc |-> "idle", mode |-> "none", expected |-> NoGrant,
     before |-> Uninitialized, want |-> Uninitialized, generation |-> 0,
     try |-> 0, may |-> FALSE, acked |-> FALSE, rebases |-> 0]

IdleCall ==
    [pc |-> "idle", kind |-> "none", expected |-> NoGrant,
     source |-> 0, tries |-> 0, answered |-> FALSE]

(* A call that ended with a grant or, with NoGrant, an error; `answered' is *)
(* there for the properties, until the caller's next call.                 *)
Answered(grant) == [IdleCall EXCEPT !.answered = grant # NoGrant]

(* #refreshOnce as a fresh task of the single flight. *)
RefreshOnce(expected) ==
    [IdleJob EXCEPT !.pc = "before", !.mode = "reserve", !.expected = expected]

(* #compareAndRead begins: a new commit id, two attempts at most. *)
CompareAndRead(j, generation, want) ==
    [j EXCEPT !.pc = "cas", !.expected = NoGrant,
              !.generation = generation, !.want = want,
              !.try = 0, !.may = FALSE, !.acked = FALSE]

Init ==
    /\ disk = LET empty == [generation |-> 0, commitId |-> <<>>,
                            payload |-> Uninitialized]
              IN  [live |-> empty, durable |-> empty, candidate |-> FALSE]
    /\ job = [a \in Actors |-> IdleJob]
    /\ call = [c \in Callers |-> IdleCall]
    /\ held = [c \in Callers |-> NoGrant]
    /\ spends = [t \in Tokens |-> 0]
    /\ origin = [t \in Tokens |-> 0]
    /\ nextToken = 1
    /\ nextAttempt = 1
    /\ rotations = 0
    /\ adminCalls = 0
    /\ faults = 0

(* A store method takes place with outcome o. *)
Happens(o) ==
    /\ disk' = o.disk
    /\ faults' = IF o.fault THEN faults + 1 ELSE faults
    /\ faults' <= MaxFaults

-----------------------------------------------------------------------------
(* The end of an operation.                                                *)

Waiting(p) == {c \in Callers : Home[c] = p /\ call[c].pc \in {"join", "shared"}}

\* Mutant: the token a joined task returns is not compared.
AgainNever(p, grant) == {}

(* A caller that is given back the very token it rejected goes round again.*)
Again(p, grant) ==
    {c \in Waiting(p) : /\ grant # NoGrant
                        /\ call[c].pc = "shared"
                        /\ grant.token = call[c].expected.token}

(* The task settles: its single-flight entry is deleted first, then every  *)
(* caller that awaits it goes on.  `short' are the callers whose own TTL   *)
(* requirement the token does not meet; `again' may start the next task.   *)
(* workerLoginParams and handleWorkerRefresh remember what they return.    *)
Settle(p, grant) ==
    \E short \in IF grant = NoGrant THEN {{}} ELSE SUBSET (Waiting(p) \ Again(p, grant)) :
        LET again == {c \in Again(p, grant) : call[c].tries + 1 < MaxRechecks}
            given == IF grant = NoGrant THEN {}
                     ELSE Waiting(p) \ (Again(p, grant) \cup short)
        IN  /\ call' = [c \in Callers |->
                          IF c \in again
                          THEN [call[c] EXCEPT !.tries = @ + 1]
                          ELSE IF c \in given THEN Answered(grant)
                          ELSE IF c \in Waiting(p) THEN IdleCall ELSE call[c]]
            /\ held' = [c \in Callers |->
                          IF c \in given /\ call[c].kind # "refresh"
                          THEN grant ELSE held[c]]
            /\ \/ again = {} /\ job' = [job EXCEPT ![p] = IdleJob]
               \/ \E c \in again :
                    job' = [job EXCEPT ![p] = RefreshOnce(call[c].expected)]

End(a, grant) ==
    IF a \in Procs
    THEN Settle(a, grant)
    ELSE job' = [job EXCEPT ![a] = IdleJob] /\ UNCHANGED <<call, held>>

Goto(a, j) == job' = [job EXCEPT ![a] = j] /\ UNCHANGED <<call, held>>

(* The operation's payload is durably the canonical one.  A reservation    *)
(* lets its owner call the adapter; only a new credential is a grant, a    *)
(* block or a restored credential ends the refresh with an error.          *)
Succeed(a, record) ==
    LET j == job[a] IN
    IF j.mode = "reserve"
    THEN Goto(a, [IdleJob EXCEPT !.pc = "adapter", !.mode = "commit",
                                 !.before = j.want,
                                 !.generation = record.generation])
    ELSE End(a, IF /\ j.mode = "commit"
                   /\ j.want.status = "ready"
                   /\ j.want.token # j.before.token
                THEN Grant(record) ELSE NoGrant)

(* What a failed #compareAndRead leads to: a conflict or an uncertain      *)
(* outcome is reconciled by a read where the operation has a catch for it. *)
Reconcile(a, j, code) ==
    IF \/ j.mode \in {"reserve", "commit"}
       \/ j.mode = "recover" /\ code = "refresh_outcome_uncertain"
    THEN Goto(a, [j EXCEPT !.pc = "latest"])
    ELSE End(a, NoGrant)

-----------------------------------------------------------------------------
(* The read that starts an operation.                                      *)

(* #refreshOnce: a token that changed meanwhile is the answer; otherwise   *)
(* the ready credential is reserved under a new attempt id.                *)
BeginRefresh(a, record) ==
    LET j == job[a]
        sameToken == record.payload.token = j.expected.token
        sameGeneration == record.generation = j.expected.generation
    IN  IF record.payload.status # "ready" \/ (sameGeneration /\ ~sameToken)
        THEN End(a, NoGrant) /\ UNCHANGED nextAttempt
        ELSE IF ~sameToken
        THEN End(a, Grant(record)) /\ UNCHANGED nextAttempt
        ELSE IF nextAttempt > MaxAttempts
        THEN End(a, NoGrant) /\ UNCHANGED nextAttempt
        ELSE /\ nextAttempt' = nextAttempt + 1
             /\ Goto(a, CompareAndRead([j EXCEPT !.before = record.payload],
                          record.generation,
                          RefreshReservationPayload(record.payload.token, nextAttempt)))

(* recoverRefreshReservation: the request names the generation and the     *)
(* reservation it replaces (job.generation, job.before, from a snapshot).  *)
BeginRecovery(a, record) ==
    LET j == job[a] IN
    IF \/ record.generation # j.generation
       \/ record.payload.status \notin BlockedStatuses
       \/ record.payload.reservation # j.before.reservation
       \/ nextToken > MaxTokens
    THEN End(a, NoGrant) /\ UNCHANGED <<nextToken, origin>>
    ELSE /\ nextToken' = nextToken + 1
         /\ origin' = [origin EXCEPT ![nextToken] = record.payload.reservation]
         /\ Goto(a, CompareAndRead(j, record.generation, ReadyPayload(nextToken)))

ReadBefore(a) ==
    /\ job[a].pc = "before"
    /\ \E o \in ReadOutcomes(disk) :
        /\ Happens(o)
        /\ IF o.reply # "ok"
           THEN End(a, NoGrant) /\ UNCHANGED <<nextToken, nextAttempt, origin>>
           ELSE \/ /\ job[a].mode = "reserve"
                   /\ BeginRefresh(a, o.record)
                   /\ UNCHANGED <<nextToken, origin>>
                \/ /\ job[a].mode = "recover"
                   /\ BeginRecovery(a, o.record)
                   /\ UNCHANGED nextAttempt
    /\ UNCHANGED <<spends, rotations, adminCalls>>

-----------------------------------------------------------------------------
(* #compareAndRead.  An actor's commit ids differ from one expected        *)
(* generation to the next, which is all the store compares them for.       *)

CommitId(a, generation) == <<a, generation>>

CompareAndSwap(a) ==
    LET j == job[a] IN
    /\ j.pc = "cas"
    /\ \E o \in CompareAndSwapOutcomes(disk, j.generation,
                                       CommitId(a, j.generation), j.want) :
        LET may == j.may \/ o.reply = "uncertain" IN
        /\ Happens(o)
        /\ \/ /\ o.reply = "ok"
              /\ Goto(a, [j EXCEPT !.pc = "verify", !.acked = TRUE])
           \/ /\ o.reply = "generation_conflict"
              /\ IF may THEN Goto(a, [j EXCEPT !.pc = "verify"])
                        ELSE Reconcile(a, j, "cas_conflict")
           \/ /\ o.reply \in {"failed", "uncertain"}
              /\ IF j.try = 0
                 THEN Goto(a, [j EXCEPT !.try = 1, !.may = may])
                 ELSE IF may
                 THEN Goto(a, [j EXCEPT !.pc = "verify", !.may = TRUE])
                 ELSE IF j.mode = "commit"
                 THEN Reconcile(a, j, "refresh_outcome_uncertain")
                 ELSE End(a, NoGrant)
           \/ /\ o.reply \in {"recovery_required", "invalid"}
              /\ End(a, NoGrant)
    /\ UNCHANGED <<spends, origin, nextToken, nextAttempt, rotations, adminCalls>>

(* The read that proves the commit: this very commit, or, when the swap    *)
(* was acknowledged, a later generation with the same payload.             *)
Proven(a, record) ==
    LET j == job[a] IN
    /\ record.payload = j.want
    /\ \/ j.acked /\ record.generation > j.generation + 1
       \/ /\ record.generation = j.generation + 1
          /\ record.commitId = CommitId(a, j.generation)

Verify(a) ==
    LET j == job[a] IN
    /\ j.pc = "verify"
    /\ \E o \in ReadOutcomes(disk) :
        /\ Happens(o)
        /\ IF o.reply # "ok"
           THEN Reconcile(a, j, "refresh_outcome_uncertain")
           ELSE IF Proven(a, o.record)
           THEN Succeed(a, o.record)
           ELSE Reconcile(a, j, IF j.may THEN "refresh_outcome_uncertain"
                                ELSE "cas_conflict")
    /\ UNCHANGED <<spends, origin, nextToken, nextAttempt, rotations, adminCalls>>

\* Mutant: anybody's reservation passes for one's own.
ArrivedAnyOwner(j, record) ==
    /\ record.payload.status = j.want.status
    /\ j.mode = "commit" \/ record.generation > j.generation

(* The reconciling read of #reserveRefresh, #commitAfterDispatch and       *)
(* #recoverReservationCommit: the payload is there after all, or nothing   *)
(* but the generation changed (a rotation) and the swap is tried again, or *)
(* somebody else's payload is there and the operation gives up.            *)
Arrived(j, record) ==
    /\ record.payload = j.want
    /\ j.mode = "commit" \/ record.generation > j.generation

\* Mutant: payloads of one status are taken for the same.
SupersededStatus(j, record) == record.payload.status # j.before.status

(* Another payload than the one the operation started from is canonical.   *)
Superseded(j, record) == record.payload # j.before

ReadLatest(a) ==
    LET j == job[a] IN
    /\ j.pc = "latest"
    /\ \E o \in ReadOutcomes(disk) :
        /\ Happens(o)
        /\ IF o.reply # "ok"
           THEN End(a, NoGrant)
           ELSE IF Arrived(j, o.record)
           THEN Succeed(a, o.record)
           ELSE IF \/ j.mode = "recover"
                   \/ Superseded(j, o.record)
                   \/ j.rebases + 1 = MaxRebases
           THEN End(a, NoGrant)
           ELSE Goto(a, CompareAndRead([j EXCEPT !.rebases = @ + 1],
                                       o.record.generation, j.want))
    /\ UNCHANGED <<spends, origin, nextToken, nextAttempt, rotations, adminCalls>>

-----------------------------------------------------------------------------
(* The refresh adapter (an external process).                              *)

CommitAfterDispatch(p, want) ==
    Goto(p, CompareAndRead(job[p], job[p].generation, want))

(* The adapter failed and vouches that nothing was sent: the credential    *)
(* goes back.                                                              *)
AdapterFailsBeforeDispatch(p) ==
    /\ job[p].pc = "adapter"
    /\ CommitAfterDispatch(p, ReadyPayload(job[p].before.token))
    /\ UNCHANGED <<disk, spends, origin, nextToken, nextAttempt, rotations, adminCalls, faults>>

AdapterDispatches(p) ==
    /\ job[p].pc = "adapter"
    /\ Goto(p, [job[p] EXCEPT !.pc = "dispatched"])
    /\ spends' = [spends EXCEPT ![job[p].before.token] = @ + 1]
    /\ UNCHANGED <<disk, origin, nextToken, nextAttempt, rotations, adminCalls, faults>>

\* Mutant: an unclassified failure counts as one before dispatch.
AdapterReturnsRestoring(p) ==
    /\ job[p].pc = "dispatched"
    /\ \/ /\ nextToken <= MaxTokens
          /\ nextToken' = nextToken + 1
          /\ origin' = [origin EXCEPT ![nextToken] = job[p].before.reservation]
          /\ CommitAfterDispatch(p, ReadyPayload(nextToken))
       \/ /\ \/ CommitAfterDispatch(p, ReadyPayload(job[p].before.token))
             \/ CommitAfterDispatch(p, BlockedPayload("reauth", job[p].before))
          /\ UNCHANGED <<nextToken, origin>>
    /\ UNCHANGED <<disk, spends, nextAttempt, rotations, adminCalls, faults>>

(* A valid candidate is committed; a refused one, a lost account and every *)
(* unclassified failure block the authority under the reservation's fence. *)
AdapterReturns(p) ==
    /\ job[p].pc = "dispatched"
    /\ \/ /\ nextToken <= MaxTokens
          /\ nextToken' = nextToken + 1
          /\ origin' = [origin EXCEPT ![nextToken] = job[p].before.reservation]
          /\ CommitAfterDispatch(p, ReadyPayload(nextToken))
       \/ /\ \E status \in {"recovery", "reauth"} :
                CommitAfterDispatch(p, BlockedPayload(status, job[p].before))
          /\ UNCHANGED <<nextToken, origin>>
    /\ UNCHANGED <<disk, spends, nextAttempt, rotations, adminCalls, faults>>

-----------------------------------------------------------------------------
(* Callers: workerLoginParams (and getGrant), refreshGrant and             *)
(* handleWorkerRefresh.                                                    *)

Return(c, kind, grant) ==
    /\ call' = [call EXCEPT ![c] = Answered(grant)]
    /\ held' = IF grant = NoGrant \/ kind = "refresh" THEN held
               ELSE [held EXCEPT ![c] = grant]
    /\ UNCHANGED job

(* #refreshShared: join the refresh of this process or start one. *)
RefreshShared(c, kind, expected) ==
    /\ call' = [call EXCEPT ![c] = [IdleCall EXCEPT !.pc = "shared", !.kind = kind,
                                                    !.expected = expected]]
    /\ job' = IF job[Home[c]].pc # "idle" THEN job
              ELSE [job EXCEPT ![Home[c]] = RefreshOnce(expected)]
    /\ UNCHANGED held

\* Mutant: a caller waits for the reservation's owner in another process.
JoinAnyRefresh(c, kind, record) ==
    /\ call' = [call EXCEPT ![c] = [IdleCall EXCEPT !.pc = "join", !.kind = kind]]
    /\ UNCHANGED <<job, held>>

(* A reservation in progress: join the refresh of this process if there is *)
(* one, and read once more if not.                                         *)
JoinActiveRefresh(c, kind, record) ==
    /\ call' = [call EXCEPT ![c] =
                  IF job[Home[c]].pc # "idle"
                  THEN [IdleCall EXCEPT !.pc = "join", !.kind = kind]
                  ELSE [IdleCall EXCEPT !.pc = "reread", !.kind = kind,
                                        !.source = record.payload.token]]
    /\ UNCHANGED <<job, held>>

(* With a ready credential: its TTL decides for a login; a forced refresh  *)
(* is content with a credential that replaced the reserved one.            *)
UseReady(c, kind, record) ==
    LET grant == Grant(record) IN
    \/ /\ kind = "login"
       /\ Return(c, kind, grant) \/ RefreshShared(c, kind, grant)
    \/ /\ kind = "refresh"
       /\ IF call[c].pc = "reread" /\ grant.token # call[c].source
          THEN Return(c, kind, grant)
          ELSE RefreshShared(c, kind, grant)
    \/ /\ kind = "worker"
       /\ RefreshShared(c, kind, held[c])

ReadCanonical(c, kind) ==
    /\ \E o \in ReadOutcomes(disk) :
        /\ Happens(o)
        /\ IF o.reply # "ok"
           THEN Return(c, kind, NoGrant)
           ELSE IF o.record.payload.status = "ready"
           THEN UseReady(c, kind, o.record)
           ELSE IF o.record.payload.status = "in_progress" /\ call[c].pc = "idle"
           THEN JoinActiveRefresh(c, kind, o.record)
           ELSE Return(c, kind, NoGrant)
    /\ UNCHANGED <<spends, origin, nextToken, nextAttempt, rotations, adminCalls>>

(* A request begins with a read of the store. *)
Call(c, kind) ==
    /\ call[c].pc = "idle"
    /\ kind = "worker" => held[c] # NoGrant
    /\ ReadCanonical(c, kind)

Reread(c) ==
    /\ call[c].pc = "reread"
    /\ ReadCanonical(c, call[c].kind)

-----------------------------------------------------------------------------
(* The administrator, key rotation, and what can go wrong.                 *)

(* installCredential of a new credential, or of the current one once more; *)
(* a blocked state refuses it.                                             *)
BeginInstall(record) ==
    LET install(payload) ==
            Goto(Admin, CompareAndRead([IdleJob EXCEPT !.mode = "install"],
                                       record.generation, payload))
    IN  /\ record.payload.status \notin BlockedStatuses
        /\ \/ /\ nextToken <= MaxTokens
              /\ nextToken' = nextToken + 1
              /\ install(ReadyPayload(nextToken))
           \/ /\ record.payload.status = "ready"
              /\ install(record.payload)
              /\ UNCHANGED nextToken

(* The administrator's next call. *)
AdminCalls ==
    /\ job[Admin].pc = "idle"
    /\ adminCalls < MaxAdminCalls
    /\ adminCalls' = adminCalls + 1

InstallCredential ==
    /\ AdminCalls
    /\ \E o \in ReadOutcomes(disk) :
        /\ o.reply = "ok"
        /\ Happens(o)
        /\ BeginInstall(o.record)
    /\ UNCHANGED <<spends, origin, nextAttempt, rotations>>

(* snapshot() shows a reservation, and recoverRefreshReservation is called *)
(* with what it showed; by then it may be late.  The owner may be alive.   *)
RecoverRefreshReservation ==
    /\ AdminCalls
    /\ \E o \in ReadOutcomes(disk) :
        /\ o.reply = "ok"
        /\ Happens(o)
        /\ o.record.payload.status \in BlockedStatuses
        /\ Goto(Admin, [IdleJob EXCEPT !.pc = "before", !.mode = "recover",
                                       !.before = o.record.payload,
                                       !.generation = o.record.generation])
    /\ UNCHANGED <<spends, origin, nextToken, nextAttempt, rotations>>

RotateEncryption ==
    /\ rotations < MaxRotations
    /\ rotations' = rotations + 1
    /\ \E o \in RotateEncryptionOutcomes(disk, <<"rotation", disk.live.generation>>) :
        Happens(o)
    /\ UNCHANGED <<job, call, held, spends, origin, nextToken, nextAttempt, adminCalls>>

RemoveCandidate ==
    /\ disk.candidate
    /\ disk' = [disk EXCEPT !.candidate = FALSE]
    /\ UNCHANGED <<job, call, held, spends, origin,
                   nextToken, nextAttempt, rotations, adminCalls, faults>>

(* Everything the processes A had in memory is gone. *)
Forget(A) ==
    /\ job' = [a \in Actors |-> IF a \in A THEN IdleJob ELSE job[a]]
    /\ call' = [c \in Callers |-> IF Home[c] \in A THEN IdleCall ELSE call[c]]
    /\ held' = [c \in Callers |-> IF Home[c] \in A THEN NoGrant ELSE held[c]]

(* A process dies, perhaps inside a swap: any of its effects may be there. *)
(* An adapter that outlives it and sends the token later is the same as    *)
(* one that sent it just before.                                           *)
Crash(a) ==
    /\ faults < MaxFaults
    /\ faults' = faults + 1
    /\ disk' \in {disk} \cup
         (IF job[a].pc # "cas" THEN {}
          ELSE {o.disk : o \in CompareAndSwapOutcomes(disk, job[a].generation,
                                  CommitId(a, job[a].generation), job[a].want)})
    /\ Forget({a})
    /\ <<job', call', held'>> # <<job, call, held>>   \* something was lost
    /\ UNCHANGED <<spends, origin, nextToken, nextAttempt, rotations, adminCalls>>

PowerLoss ==
    /\ faults < MaxFaults
    /\ faults' = faults + 1
    /\ disk' \in PowerLossOutcomes(disk)
    /\ Forget(Actors)
    /\ UNCHANGED <<spends, origin, nextToken, nextAttempt, rotations, adminCalls>>

-----------------------------------------------------------------------------
JobStep(a) ==
    ReadBefore(a) \/ CompareAndSwap(a) \/ Verify(a) \/ ReadLatest(a)

AdapterStep(p) ==
    AdapterFailsBeforeDispatch(p) \/ AdapterDispatches(p) \/ AdapterReturns(p)

Next ==
    \/ \E a \in Actors : JobStep(a) \/ Crash(a)
    \/ \E p \in Procs : AdapterStep(p)
    \/ \E c \in Callers : Reread(c)
    \/ \E c \in Callers : \E kind \in Requests[c] : Call(c, kind)
    \/ InstallCredential
    \/ RecoverRefreshReservation
    \/ RotateEncryption
    \/ RemoveCandidate
    \/ PowerLoss

Spec == Init /\ [][Next]_vars

(* Store methods return, the adapter answers (it is bounded by timeouts)   *)
(* and the event loop runs every continuation.  Nothing is assumed of      *)
(* callers, the administrator, rotations or failures.                      *)
Fairness ==
    /\ \A p \in Procs : WF_vars(JobStep(p)) /\ WF_vars(AdapterStep(p))
    /\ \A c \in Callers : WF_vars(Reread(c))

FairSpec == Spec /\ Fairness

-----------------------------------------------------------------------------
(* A refresh token is sent to the provider at most once, whatever          *)
(* processes race, crash, lose acknowledgements or the power: the          *)
(* reservation is durable before the adapter is called                     *)
(* (auth-broker.mjs #refreshOnce, #reserveRefresh).                        *)
SpentOnce == \A t \in Tokens : spends[t] <= 1

(* A credential whose refresh token was sent is never canonical again, not *)
(* even after a power loss undoes what was not synced                      *)
(* (auth-broker.mjs #commitAfterDispatch, #proveDirectoryDurable).         *)
SpentNeverReady ==
    \A r \in {disk.live, disk.durable} :
        r.payload.status = "ready" => spends[r.payload.token] = 0

(* No worker holds a grant of a generation that a power loss could take    *)
(* back: what a caller is given was synced before                          *)
(* (encrypted-auth-state-store.mjs read).                                  *)
DeliveredIsDurable ==
    \A c \in Callers : held[c].generation <= disk.durable.generation

(* What may replace what: a ready credential is replaced by an installed   *)
(* one or by its own reservation; a blocked state keeps its fence until a  *)
(* credential replaces it that was refreshed or recovered for that very    *)
(* reservation, or the source credential that was never sent.  A late      *)
(* outcome of another attempt never lands (auth-broker.mjs                 *)
(* #commitAfterDispatch, #recoverReservationCommit, installCredential).    *)
Succession(old, new) ==
    \/ new = old
    \/ /\ old.status = "none"
       /\ new.status = "ready"
    \/ /\ old.status = "ready"
       /\ \/ new.status = "in_progress" /\ new.token = old.token
          \/ new.status = "ready" /\ origin[new.token] = 0
    \/ /\ old.status \in BlockedStatuses
       /\ \/ /\ new.status \in BlockedStatuses
             /\ new.token = old.token
             /\ new.reservation = old.reservation
          \/ /\ new.status = "ready"
             /\ \/ origin[new.token] = old.reservation
                \/ new.token = old.token /\ spends[old.token] = 0

PayloadsSucceed ==
    [][\/ Succession(disk.live.payload, disk'.live.payload)
       \/ disk'.live = disk.durable]_vars

(* A worker that reports its token as unauthorized is not handed that very *)
(* token again, by a refresh it started or one that another caller of its  *)
(* process did.  One case is left, and it takes two processes: the worker  *)
(* joined a refresh of its own process that an older token had started,    *)
(* when the reservation it saw was another process's, and that process     *)
(* gave the credential back unsent, two generations after the worker's     *)
(* grant (auth-broker.mjs #refreshShared, which compares the token, and    *)
(* #joinActiveRefresh, which does not).                                    *)
RejectedTokenReplaced ==
    [][\A c \in Callers :
          call[c].kind = "worker" /\ call'[c].answered
             => \/ held'[c].token # held[c].token
                \/ /\ call[c].pc = "join"
                   /\ disk.live.commitId[1] # Home[c]
                   /\ held'[c].generation >= held[c].generation + 2]_vars

(* Every grant request is answered, with a grant or an error: joined       *)
(* refreshes settle, rechecks and rebases are bounded                      *)
(* (auth-broker.mjs #refreshShared, sharedRefresh).                        *)
CallsReturn ==
    \A c \in Callers : call[c].pc # "idle" ~> call[c].pc = "idle"
=============================================================================
