------------------------- MODULE SerializableStore --------------------------
(***************************************************************************)
(* runSerializable of the PostgreSQL store: a callback runs inside a       *)
(* serializable transaction on a connection of a dedicated pool, is run    *)
(* again after a rollback the server vouches for, and the caller is told   *)
(* whether the work was committed, was not, or may have been.              *)
(*                                                                         *)
(* A call's pc names the statement or promise it awaits:                   *)
(*   acquire, clean, begin, stamp    a connection, its reset, the begin    *)
(*   callback, settled, draining     the callback, then close()            *)
(*   sync, boundary, commit          enforceDurableCommit, then COMMIT     *)
(*   rollback, reset, abandon        ROLLBACK, DISCARD ALL, or a ROLLBACK  *)
(*                                   whose answer no longer matters        *)
(*   release                         the connection goes back or is closed *)
(* The queries of the callback run on a queue of their own, beside pc.     *)
(***************************************************************************)
EXTENDS PostgresConnection, Sequences, FiniteSets

CONSTANTS
    Calls,          \* calls of runSerializable
    Slots,          \* connections of the pool
    Kinds,          \* the statements callbacks send
    MaxAttempts,    \* maxTransactionAttempts
    MaxQueries,     \* bound: queries of one attempt, per call
    MaxFaults       \* bound: failures other than conflicts

ASSUME StoreAssumption ==
    /\ Kinds \subseteq {"write", "COMMIT", "ROLLBACK", "chain", "unsync",
                        "session", "stream"}
    /\ MaxAttempts \in Nat \ {0}
    /\ MaxQueries \in [Calls -> Nat]
    /\ MaxFaults \in Nat
    /\ Calls \cap {"free", "idle", "closed"} = {}

VARIABLES
    call,       \* per call of runSerializable: its state
    pool,       \* per connection: "free", "idle", "closed" or the call it serves
    backend,    \* per connection: its server side
    durable,    \* writes that are committed for good
    volatile,   \* writes committed without waiting for the log
    faults

vars == <<call, pool, backend, durable, volatile, faults>>

(* A write is named by its call, the attempt and its number there. *)
Of(c) == {c} \X (1 .. MaxAttempts) \X (1 .. MaxQueries[c])

Writes == UNION {Of(c) : c \in Calls}

-----------------------------------------------------------------------------
(* createTransactionCapability: a new one for every attempt.  `first' is   *)
(* firstQueryFailure by its source, with the retryable SQLSTATEs apart;    *)
(* `issued' are the statements admitted so far, `queue' the numbers of     *)
(* those that have not settled, `ran' that the first of them awaits the    *)
(* proof of the boundary; `callback' is how the callback itself settled.   *)
NewCapability ==
    [active |-> TRUE, lost |-> FALSE, unsafe |-> FALSE, rolledBack |-> FALSE,
     terminal |-> FALSE, first |-> "none", issued |-> <<>>, queue |-> <<>>,
     ran |-> FALSE, pending |-> FALSE, callback |-> "running"]

Closed == [NewCapability EXCEPT !.active = FALSE]

NewCall ==
    [pc |-> "new", attempt |-> 0, slot |-> "none", cap |-> Closed,
     destroy |-> FALSE, retry |-> FALSE, outcome |-> "none"]

Init ==
    /\ call = [c \in Calls |-> NewCall]
    /\ pool = [s \in Slots |-> "free"]
    /\ backend = [s \in Slots |-> FreshBackend]
    /\ durable = {}
    /\ volatile = {}
    /\ faults = 0

Goto(c, pc) == [call[c] EXCEPT !.pc = pc]

Set(c, record) == call' = [call EXCEPT ![c] = record]

SetCapability(c, cap) == call' = [call EXCEPT ![c].cap = cap]

(* clientQuery: the outcome r of a statement on the call's connection. *)
Query(c, r) ==
    /\ backend' = [backend EXCEPT ![call[c].slot] = r.b]
    /\ durable' = IF r.sync THEN durable \cup r.stored ELSE durable
    /\ volatile' = IF r.sync THEN volatile ELSE volatile \cup r.stored
    /\ faults' = faults + r.faults
    /\ faults' <= MaxFaults

OutcomesOf(c, statement) == Outcomes(backend[call[c].slot], statement, <<>>)

-----------------------------------------------------------------------------
(* The ways out of an attempt.                                             *)

(* release, then report `outcome'. *)
Finish(c, destroy, outcome) ==
    [Goto(c, "release") EXCEPT !.destroy = destroy, !.retry = FALSE,
                               !.outcome = outcome]

(* ROLLBACK, DISCARD ALL and release; `retry' if the attempt may follow.   *)
RollbackAndRelease(c, retry) ==
    [Goto(c, "rollback") EXCEPT !.retry = retry, !.outcome = "not-committed"]

ResetAndRelease(c, outcome) == [Goto(c, "reset") EXCEPT !.outcome = outcome]

(* The SQLSTATE proves the rollback: the connection is destroyed and the   *)
(* callback tried again.                                                   *)
AfterServerRollback(c) ==
    [Finish(c, TRUE, "not-committed") EXCEPT !.retry = TRUE]

(* failBoundaryUncertain and failCommitUncertain. *)
FailUncertain(c) == [Goto(c, "abandon") EXCEPT !.retry = FALSE, !.outcome = "uncertain"]

-----------------------------------------------------------------------------
(* The beginning of an attempt.                                            *)

Run(c) ==
    /\ call[c].pc = "new"
    /\ Set(c, [Goto(c, "acquire") EXCEPT !.attempt = 1])
    /\ UNCHANGED <<pool, backend, durable, volatile, faults>>

(* The pool hands out an idle connection or opens one; a call waits while  *)
(* all of them serve others.                                               *)
AcquireClient(c) ==
    /\ call[c].pc = "acquire"
    /\ \/ \E s \in Slots :
            /\ pool[s] \in {"free", "idle"}
            /\ pool' = [pool EXCEPT ![s] = c]
            /\ Set(c, [Goto(c, "clean") EXCEPT !.slot = s])
            /\ UNCHANGED faults
       \/ /\ faults < MaxFaults
          /\ faults' = faults + 1
          /\ Set(c, [Goto(c, "done") EXCEPT !.outcome = "not-committed"])
          /\ UNCHANGED pool
    /\ UNCHANGED <<backend, durable, volatile>>

(* acquireCleanClient: DISCARD ALL before the first use. *)
CleanClient(c) ==
    /\ call[c].pc = "clean"
    /\ \E r \in OutcomesOf(c, "DISCARD") :
        /\ Query(c, r)
        /\ Set(c, IF r.reply = "ok" THEN Goto(c, "begin")
                  ELSE Finish(c, TRUE, "not-committed"))
    /\ UNCHANGED pool

Begin(c) ==
    /\ call[c].pc = "begin"
    /\ \E r \in OutcomesOf(c, "BEGIN") :
        /\ Query(c, r)
        /\ Set(c, IF r.reply = "ok" THEN Goto(c, "stamp")
                  ELSE Finish(c, TRUE, "not-committed"))
    /\ UNCHANGED pool

(* The database time and the identifier of the transaction; then the       *)
(* callback is called.                                                     *)
Stamp(c) ==
    /\ call[c].pc = "stamp"
    /\ \E r \in OutcomesOf(c, "XID") :
        /\ Query(c, r)
        /\ Set(c, IF r.reply = "ok"
                  THEN [Goto(c, "callback") EXCEPT !.cap = NewCapability]
                  ELSE RollbackAndRelease(c, FALSE))
    /\ UNCHANGED pool

-----------------------------------------------------------------------------
(* The callback and its queries.  It may leave queries unawaited, swallow  *)
(* their errors, and go on querying after its promise has settled.         *)

(* query and consumeRows: admitted while the capability is active. *)
Enqueue(c) ==
    LET cap == call[c].cap IN
    /\ cap.active
    /\ ~cap.terminal
    /\ Len(cap.issued) < MaxQueries[c]
    /\ \E kind \in Kinds :
        SetCapability(c, [cap EXCEPT !.issued = Append(@, kind),
                                     !.queue = Append(@, Len(cap.issued) + 1)])
    /\ UNCHANGED <<pool, backend, durable, volatile, faults>>

MarkLocalQueryError(cap) ==
    [cap EXCEPT !.terminal = TRUE, !.first = IF @ = "none" THEN "local" ELSE @]

(* A query refused before it is sent: no text, PREPARE TRANSACTION, or     *)
(* values that cannot be copied.                                           *)
RefuseLocally(c) ==
    LET cap == call[c].cap IN
    /\ cap.active
    /\ ~cap.terminal
    /\ SetCapability(c, MarkLocalQueryError(cap))
    /\ UNCHANGED <<pool, backend, durable, volatile, faults>>

(* markQueryError: an SQLSTATE that vouches for the refusal is a failure   *)
(* of the query; after anything else the transaction may be anywhere.      *)
MarkQueryError(cap, reply) ==
    IF reply = "unknown"
    THEN [cap EXCEPT !.terminal = TRUE, !.lost = TRUE]
    ELSE [cap EXCEPT !.terminal = TRUE,
                     !.first = IF @ \in {"none", "local"} THEN reply ELSE @]

Blocked(cap) == cap.terminal \/ cap.lost \/ cap.rolledBack

(* The first query settles: the next one of the queue follows. *)
Settled(cap) == [cap EXCEPT !.queue = Tail(@), !.ran = FALSE]

(* The first query of the queue is sent, or rejected because one before it *)
(* ended the transaction or its row stream cannot be built.  A row stream  *)
(* that the driver timed out or could not resynchronise forbids even the   *)
(* ROLLBACK.                                                               *)
SendQuery(c) ==
    LET cap == call[c].cap
        n == Head(cap.queue)
        kind == cap.issued[n]
    IN  /\ cap.queue # <<>>
        /\ ~cap.ran
        /\ \/ /\ Blocked(cap)
              /\ SetCapability(c, Settled(cap))
              /\ UNCHANGED <<backend, durable, volatile, faults>>
           \/ /\ ~Blocked(cap)
              /\ kind = "stream"
              /\ SetCapability(c, Settled(MarkLocalQueryError(cap)))
              /\ UNCHANGED <<backend, durable, volatile, faults>>
           \/ /\ ~Blocked(cap)
              /\ \E r \in Outcomes(backend[call[c].slot], kind, <<c, call[c].attempt, n>>) :
                    /\ Query(c, r)
                    /\ IF r.reply \in {"rejected", "retryable", "unknown"}
                       THEN \E unsafe \in IF kind = "stream" THEN BOOLEAN ELSE {FALSE} :
                              SetCapability(c, Settled(
                                [MarkQueryError(cap, r.reply) EXCEPT
                                   !.unsafe = unsafe, !.lost = @ \/ unsafe]))
                       ELSE SetCapability(c, [cap EXCEPT !.ran = TRUE])
        /\ UNCHANGED pool

(* recheckBoundary after every query that succeeded.  A row callback that  *)
(* threw is reported once the boundary is proved.                          *)
RecheckBoundary(c) ==
    LET cap == call[c].cap IN
    /\ cap.ran
    /\ \E r \in OutcomesOf(c, "XID") :
        /\ Query(c, r)
        /\ \/ /\ r.reply = "ok"
              /\ \/ SetCapability(c, Settled(cap))
                 \/ /\ cap.issued[Head(cap.queue)] = "stream"
                    /\ SetCapability(c, Settled(
                         [cap EXCEPT !.first = IF @ = "none" THEN "local" ELSE @]))
           \/ /\ r.reply = "retryable"
              /\ SetCapability(c, Settled([cap EXCEPT !.rolledBack = TRUE]))
           \/ /\ r.reply \notin {"ok", "retryable"}
              /\ SetCapability(c, Settled([cap EXCEPT !.lost = TRUE]))
    /\ UNCHANGED pool

(* The callback returns, throws an error of its own, or lets through the   *)
(* error of a query of its own.                                            *)
CallbackSettles(c) ==
    /\ call[c].pc = "callback"
    /\ \E how \in {"returned", "threw"}
                  \cup IF call[c].cap.first \in {"rejected", "retryable"}
                       THEN {"rethrew"} ELSE {} :
        Set(c, [Goto(c, "settled") EXCEPT !.cap.callback = how])
    /\ UNCHANGED <<pool, backend, durable, volatile, faults>>

(* close: no query is admitted from here on; those pending are awaited. *)
Close(c) ==
    /\ call[c].pc = "settled"
    /\ Set(c, [Goto(c, "draining") EXCEPT !.cap.active = FALSE,
                  !.cap.pending = call[c].cap.queue # <<>>])
    /\ UNCHANGED <<pool, backend, durable, volatile, faults>>

CallbackFailed(cap) ==
    cap.callback # "returned" \/ cap.pending \/ cap.first # "none"

(* Whether the error is the retryable one of a query: the callback's own   *)
(* error and that of a query left pending come before it.                  *)
RetryableFailure(cap) ==
    /\ cap.first = "retryable"
    /\ \/ cap.callback = "rethrew"
       \/ cap.callback = "returned" /\ ~cap.pending

Drained(c) ==
    LET cap == call[c].cap IN
    /\ call[c].pc = "draining"
    /\ cap.queue = <<>>
    /\ Set(c, IF cap.rolledBack THEN AfterServerRollback(c)
              ELSE IF cap.lost THEN FailUncertain(c)
              ELSE IF CallbackFailed(cap) THEN RollbackAndRelease(c, RetryableFailure(cap))
              ELSE Goto(c, "sync"))
    /\ UNCHANGED <<pool, backend, durable, volatile, faults>>

-----------------------------------------------------------------------------
(* The end of an attempt.                                                  *)

(* enforceDurableCommit, its first statement. *)
EnforceSync(c) ==
    /\ call[c].pc = "sync"
    /\ \E r \in OutcomesOf(c, "SYNC") :
        /\ Query(c, r)
        /\ Set(c, IF r.reply = "ok" THEN Goto(c, "boundary")
                  ELSE IF r.reply = "retryable" THEN AfterServerRollback(c)
                  ELSE FailUncertain(c))
    /\ UNCHANGED pool

(* enforceDurableCommit, its second: still the same transaction. *)
EnforceBoundary(c) ==
    /\ call[c].pc = "boundary"
    /\ \E r \in OutcomesOf(c, "XID") :
        /\ Query(c, r)
        /\ Set(c, IF r.reply = "ok" THEN Goto(c, "commit")
                  ELSE IF r.reply = "retryable" THEN AfterServerRollback(c)
                  ELSE FailUncertain(c))
    /\ UNCHANGED pool

Commit(c) ==
    /\ call[c].pc = "commit"
    /\ \E r \in OutcomesOf(c, "COMMIT") :
        /\ Query(c, r)
        /\ Set(c, CASE r.reply = "COMMIT" -> ResetAndRelease(c, "committed")
                    [] r.reply = "ROLLBACK" -> ResetAndRelease(c, "not-committed")
                    [] r.reply = "retryable" -> AfterServerRollback(c)
                    [] OTHER -> FailUncertain(c))
    /\ UNCHANGED pool

Rollback(c) ==
    /\ call[c].pc = "rollback"
    /\ \E r \in OutcomesOf(c, "ROLLBACK") :
        /\ Query(c, r)
        /\ Set(c, IF r.reply = "ROLLBACK" THEN Goto(c, "reset")
                  ELSE Finish(c, TRUE, "uncertain"))
    /\ UNCHANGED pool

(* A connection that cannot be reset is destroyed and the call fails, also *)
(* when it would have tried again.                                         *)
Reset(c) ==
    /\ call[c].pc = "reset"
    /\ \E r \in OutcomesOf(c, "DISCARD") :
        /\ Query(c, r)
        /\ Set(c, IF r.reply = "ok"
                  THEN [Goto(c, "release") EXCEPT !.destroy = FALSE]
                  ELSE Finish(c, TRUE, call[c].outcome))
    /\ UNCHANGED pool

\* Mutant: the callback is run again though its commit is in doubt.
AbandonAndRetry(c) ==
    /\ call[c].pc = "abandon"
    /\ \E r \in OutcomesOf(c, "ROLLBACK") : Query(c, r)
    /\ Set(c, [Finish(c, TRUE, "uncertain") EXCEPT !.retry = TRUE])
    /\ UNCHANGED pool

(* The ROLLBACK of failBoundaryUncertain and failCommitUncertain: whatever *)
(* its answer, the connection is destroyed.                                *)
Abandon(c) ==
    /\ call[c].pc = "abandon"
    /\ \/ /\ call[c].cap.unsafe
          /\ UNCHANGED <<backend, durable, volatile, faults>>
       \/ /\ ~call[c].cap.unsafe
          /\ \E r \in OutcomesOf(c, "ROLLBACK") : Query(c, r)
    /\ Set(c, Finish(c, TRUE, "uncertain"))
    /\ UNCHANGED pool

MayRetry(c) == call[c].retry /\ call[c].attempt < MaxAttempts

(* releaseOnce, then the next attempt or the report.  A connection that is *)
(* destroyed ends its transaction unless its COMMIT is under way; a        *)
(* release that fails gives up the connection and the retry.               *)
Release(c) ==
    LET s == call[c].slot
        committing == backend[s].tx = "committing"
    IN  /\ call[c].pc = "release"
        /\ \E fails \in IF faults < MaxFaults THEN BOOLEAN ELSE {FALSE} :
            LET close == call[c].destroy \/ fails IN
            /\ pool' = [pool EXCEPT ![s] = IF ~close THEN "idle"
                                           ELSE IF committing THEN "closed" ELSE "free"]
            /\ backend' = IF close /\ ~committing
                          THEN [backend EXCEPT ![s] = FreshBackend] ELSE backend
            /\ faults' = IF fails THEN faults + 1 ELSE faults
            /\ Set(c, IF MayRetry(c) /\ ~fails
                      THEN [NewCall EXCEPT !.pc = "acquire",
                                           !.attempt = call[c].attempt + 1]
                      ELSE [Goto(c, "done") EXCEPT !.slot = "none",
                              !.cap = [Closed EXCEPT !.issued = call[c].cap.issued]])
        /\ UNCHANGED <<durable, volatile>>

-----------------------------------------------------------------------------
(* The server on its own.                                                  *)

(* A COMMIT that nobody waits for takes effect or does not. *)
LateCommit(s) ==
    /\ backend[s].tx = "committing"
    /\ \/ LET r == CommitWith(backend[s], FreshBackend) IN
          /\ durable' = IF r.sync THEN durable \cup r.stored ELSE durable
          /\ volatile' = IF r.sync THEN volatile ELSE volatile \cup r.stored
       \/ UNCHANGED <<durable, volatile>>
    /\ backend' = [backend EXCEPT ![s] = IF pool[s] = "closed" THEN FreshBackend
                                         ELSE Ended(@)]
    /\ pool' = [pool EXCEPT ![s] = IF @ = "closed" THEN "free" ELSE @]
    /\ UNCHANGED <<call, faults>>

(* The server crashes and recovers: connections break, transactions end,   *)
(* and what was committed without waiting for the log is gone.             *)
ServerCrash ==
    /\ faults < MaxFaults
    /\ faults' = faults + 1
    /\ backend' = [s \in Slots |-> IF pool[s] \in {"free", "closed"} THEN FreshBackend
                                   ELSE Broken(backend[s])]
    /\ pool' = [s \in Slots |-> IF pool[s] = "closed" THEN "free" ELSE pool[s]]
    /\ volatile' = {}
    /\ UNCHANGED <<call, durable>>

-----------------------------------------------------------------------------
Step(c) ==
    \/ AcquireClient(c) \/ CleanClient(c) \/ Begin(c) \/ Stamp(c)
    \/ SendQuery(c) \/ RecheckBoundary(c)
    \/ CallbackSettles(c) \/ Close(c) \/ Drained(c)
    \/ EnforceSync(c) \/ EnforceBoundary(c) \/ Commit(c)
    \/ Rollback(c) \/ Reset(c) \/ Abandon(c) \/ Release(c)

AllReturned == \A c \in Calls : call[c].pc = "done"

Next ==
    \/ \E c \in Calls : Run(c) \/ Enqueue(c) \/ RefuseLocally(c) \/ Step(c)
    \/ \E s \in Slots : LateCommit(s)
    \/ ServerCrash
    \/ AllReturned /\ UNCHANGED vars

Spec == Init /\ [][Next]_vars

-----------------------------------------------------------------------------
(* Properties.                                                             *)

(* The writes that a COMMIT nobody waits for may still make visible. *)
Late == UNION {backend[s].writes : s \in {t \in Slots : backend[t].tx = "committing"}}

Written(c) ==
    LET cap == call[c].cap IN
    {<<c, call[c].attempt, n>> : n \in {m \in DOMAIN cap.issued : cap.issued[m] = "write"}}

(* What runSerializable reports is the truth, for good.  If it reports     *)
(* "not-committed" nothing the callback ever wrote is visible or can still *)
(* become so; if it returns, or fails with "committed", every write of the *)
(* last run of the callback, and no other, is committed and would survive  *)
(* a crash of the server.  Only "uncertain" leaves it open.  And however   *)
(* often the callback is run again, the writes of at most one of its runs  *)
(* are ever committed, even before anything is reported.                   *)
OutcomeIsTrue ==
    /\ \A v, w \in durable \cup volatile \cup Late : v[1] = w[1] => v[2] = w[2]
    /\ \A c \in Calls : call[c].pc \in {"release", "done"} =>
          /\ call[c].outcome # "none"
          /\ call[c].outcome = "not-committed" =>
               (durable \cup volatile \cup Late) \cap Of(c) = {}
          /\ call[c].outcome = "committed" =>
               durable \cap Of(c) = Written(c) /\ (volatile \cup Late) \cap Of(c) = {}
=============================================================================
