------------------------ MODULE SerializableStoreProofs ------------------------
(***************************************************************************)
(* What runSerializable reports is the truth, for every number of calls,   *)
(* connections, attempts, queries and faults.                              *)
(*                                                                         *)
(* The invariant follows an attempt through its connection: as long as the *)
(* transaction that began is the one that is open nothing of the attempt   *)
(* is committed, and the transaction holds exactly what was sent; every    *)
(* way to lose track of it is noticed by the recheck of the boundary       *)
(* before the next statement.                                              *)
(***************************************************************************)
EXTENDS SerializableStore, TLAPS

-----------------------------------------------------------------------------
(* Types.                                                                  *)

Pcs == {"new", "acquire", "clean", "begin", "stamp", "callback", "settled", "draining",
        "sync", "boundary", "commit", "rollback", "reset", "abandon", "release", "done"}
CapType ==
    [active : BOOLEAN, lost : BOOLEAN, unsafe : BOOLEAN, rolledBack : BOOLEAN,
     terminal : BOOLEAN, first : {"none", "local", "rejected", "retryable"},
     issued : Seq(Kinds), queue : Seq(Nat), ran : BOOLEAN, pending : BOOLEAN,
     callback : {"running", "returned", "threw", "rethrew"}]
CallType ==
    [pc : Pcs, attempt : Nat, slot : Slots \cup {"none"}, cap : CapType,
     destroy : BOOLEAN, retry : BOOLEAN,
     outcome : {"none", "not-committed", "committed", "uncertain"}]
WriteType == Calls \X Nat \X Nat
BackendType ==
    [up : BOOLEAN, tx : {"none", "open", "aborted", "committing"}, own : BOOLEAN,
     writes : SUBSET WriteType, sync : BOOLEAN, dirty : BOOLEAN]

StoreTypeOK ==
    /\ call \in [Calls -> CallType]
    /\ pool \in [Slots -> Calls \cup {"free", "idle", "closed"}]
    /\ backend \in [Slots -> BackendType]
    /\ durable \in SUBSET WriteType /\ volatile \in SUBSET WriteType

-----------------------------------------------------------------------------
(* The inductive invariant.                                                *)

\* A transaction that is not open has no writes; a broken connection has none.
Sane(b) ==
    /\ b.tx \in {"none", "aborted"} => b.writes = {}
    /\ ~b.up => b.tx = "none"

\* The transaction that began is the one that is open.
Intact(b) == b.tx = "open" /\ b.own

Holding(r) == r.pc \notin {"new", "acquire", "done"}
Running(r) == r.pc \in {"callback", "settled", "draining"}

\* Nothing of call c was committed.
Unseen(c, D, V) == \A w \in D \cup V : w[1] # c

\* How many queries of the attempt were sent, if none was rejected.
SentSoFar(cap) == Len(cap.issued) - Len(cap.queue) + (IF cap.ran THEN 1 ELSE 0)

\* The writes among the first k queries of attempt n.
WrittenWith(c, n, cap, k) ==
    {<<c, n, m>> : m \in {i \in 1 .. k : cap.issued[i] = "write"}}

WrittenBy(c, r) == WrittenWith(c, r.attempt, r.cap, Len(r.cap.issued))

\* The queue holds the numbers of the last queries; after a failure that leaves
\* the transaction in doubt none is sent.
Orderly(c, cap) ==
    /\ Len(cap.queue) <= Len(cap.issued) /\ Len(cap.issued) <= MaxQueries[c]
    /\ \A i \in 1 .. Len(cap.queue) :
          cap.queue[i] = Len(cap.issued) - Len(cap.queue) + i
    /\ cap.ran => cap.queue # <<>>
    /\ cap.lost \/ cap.rolledBack => ~cap.ran
    /\ cap.first = "none" /\ ~cap.lost => ~cap.terminal

\* The capability of an attempt that runs no callback.
Idle(cap) == ~cap.active /\ cap.queue = <<>> /\ ~cap.ran

Queued(c, r) ==
    /\ Orderly(c, r.cap)
    /\ ~Running(r) => Idle(r.cap)
    /\ r.pc = "draining" => ~r.cap.active

\* Before the callback.
Beginning(c, r, b, D, V) ==
    /\ r.pc \in {"new", "acquire", "clean", "begin", "stamp"} => Unseen(c, D, V)
    /\ r.pc \in {"clean", "begin"} => b.tx = "none"
    /\ r.pc = "stamp" => ~b.up \/ (Intact(b) /\ b.writes = {})

\* While the callback and its queries run: a transaction that is intact and not
\* in doubt holds what was sent, and nothing of it was committed.
Serves(c, n, cap, b, D, V) ==
    /\ ~cap.lost => b.tx # "committing"
    /\ ~cap.lost /\ ~cap.ran => Unseen(c, D, V)
    /\ ~cap.lost /\ Intact(b) => Unseen(c, D, V)
    /\ cap.rolledBack => Unseen(c, D, V) /\ b.tx # "committing"
    /\ ~Blocked(cap) /\ ~cap.ran => ~b.up \/ Intact(b)
    /\ ~Blocked(cap) /\ Intact(b) => b.writes = WrittenWith(c, n, cap, SentSoFar(cap))

InCallback(c, r, b, D, V) == Running(r) => Serves(c, r.attempt, r.cap, b, D, V)

\* The boundary is proved once more, then the commit.
Committing(c, r, b, D, V) ==
    r.pc \in {"sync", "boundary", "commit"} =>
        /\ Unseen(c, D, V)
        /\ ~b.up \/ (Intact(b) /\ b.writes = WrittenBy(c, r))
        /\ r.pc # "sync" /\ b.up => b.sync

\* The way out of an attempt.
Ending(c, r, b, D, V) ==
    /\ r.pc = "rollback" =>
          r.outcome = "not-committed" /\ Unseen(c, D, V) /\ b.tx # "committing"
    /\ r.pc = "reset" => b.tx = "none" /\ r.outcome # "uncertain"
    /\ r.pc = "abandon" => r.outcome = "uncertain"
    /\ r.pc = "release" /\ ~r.destroy => b.tx = "none"
    /\ r.pc = "release" /\ r.outcome # "uncertain" => b.tx # "committing"
    /\ r.pc \in {"reset", "release", "done"} =>
          /\ r.outcome # "none"
          /\ r.outcome = "not-committed" => Unseen(c, D, V)
          /\ r.outcome = "committed" =>
               /\ {w \in D : w[1] = c} = WrittenBy(c, r)
               /\ \A w \in V : w[1] # c
    /\ r.retry => /\ r.pc \in {"rollback", "reset", "release", "done"}
                  /\ r.outcome = "not-committed"

Fits(c, r, b, D, V) ==
    /\ Queued(c, r) /\ Beginning(c, r, b, D, V) /\ InCallback(c, r, b, D, V)
    /\ Committing(c, r, b, D, V) /\ Ending(c, r, b, D, V)
    /\ r.pc # "new" => r.attempt \in 1 .. MaxAttempts

\* A call and its connection belong to one another.
Paired ==
    /\ \A c \in Calls : Holding(call[c]) =>
          call[c].slot \in Slots /\ pool[call[c].slot] = c
    /\ \A s \in Slots : pool[s] \in Calls =>
          Holding(call[pool[s]]) /\ call[pool[s]].slot = s
    /\ \A s \in Slots : pool[s] \in {"free", "idle"} => backend[s].tx = "none"

\* The writes of a connection are those of the attempt it serves, or of one
\* that was given up with its COMMIT under way.
Owned ==
    \A s \in Slots : \A w \in backend[s].writes :
        /\ w[2] = call[w[1]].attempt
        /\ \/ pool[s] = w[1]
           \/ /\ pool[s] = "closed" /\ call[w[1]].pc = "done"
              /\ call[w[1]].outcome = "uncertain"

\* What was committed was written by the last attempt.
LastAttempt == \A w \in durable \cup volatile : w[2] = call[w[1]].attempt

StoreInv ==
    /\ StoreTypeOK
    /\ \A s \in Slots : Sane(backend[s])
    /\ Paired /\ Owned /\ LastAttempt
    /\ \A c \in Calls : Fits(c, call[c], backend[call[c].slot], durable, volatile)

-----------------------------------------------------------------------------
(* What a statement may do to a connection.                                *)

\* A backend as it may be.
Proper(b) == b \in BackendType /\ Sane(b)

LEMMA Shapes ==
    ASSUME NEW b, Proper(b)
    PROVE  /\ Proper(Ended(b)) /\ Ended(b).tx = "none" /\ ~Ended(b).own
           /\ Ended(b).writes = {}
           /\ Proper(Broken(b)) /\ Broken(b).tx = "none" /\ ~Broken(b).up
           /\ Broken(b).writes = {}
           /\ Proper(Aborted(b)) /\ Aborted(b).writes \subseteq b.writes
           /\ Aborted(b).tx = IF b.tx = "open" THEN "aborted" ELSE b.tx
           /\ b.tx # "open" => Aborted(b) = b
           /\ b.up => Proper(Unanswered(b)) /\ Unanswered(b).writes = b.writes
BY DEF Proper, Sane, BackendType, Ended, Broken, Aborted, Unanswered

LEMMA FreshIsProper ==
    Proper(FreshBackend) /\ FreshBackend.tx = "none" /\ FreshBackend.writes = {}
BY DEF Proper, Sane, BackendType, FreshBackend

\* An outcome: the statement was executed and answered, or not; the answer was
\* lost, or it was a COMMIT and may still come.
Answered(b, st, w, q) == b.up /\ b.tx # "committing" /\ q = Executed(b, st, w)
Refusal(b, st, q) ==
    /\ b.up /\ b.tx # "committing" /\ q.b = Refused(b, st) /\ q.stored = {}
    /\ \/ q.reply \in {"rejected", "unknown"}
       \/ q.reply = "retryable" /\ Intact(b)
LostAnswer(b, st, w, q) ==
    LET done == Executed(b, st, w) IN
    /\ b.up /\ b.tx # "committing"
    /\ \/ q = Fault([done EXCEPT !.b = Broken(@), !.reply = "unknown"])
       \/ q.b = Broken(b) /\ q.stored = {} /\ q.reply = "unknown"
       \/ /\ b.tx = "open" /\ st = "COMMIT" /\ q.b = Unanswered(b)
          /\ q.stored = {} /\ q.reply = "unknown"
NoAnswer(b, q) ==
    (~b.up \/ b.tx = "committing") /\ q.b = b /\ q.stored = {} /\ q.reply = "unknown"

LEMMA OutcomeKinds ==
    ASSUME NEW b, NEW st, NEW w, NEW q \in Outcomes(b, st, w)
    PROVE  \/ Answered(b, st, w, q) \/ Refusal(b, st, q)
           \/ LostAnswer(b, st, w, q) \/ NoAnswer(b, q)
<1> DEFINE done == Executed(b, st, w)
<1>1. CASE ~b.up \/ b.tx = "committing" BY <1>1 DEF Outcomes, NoAnswer, Quiet, Result
<1>2. CASE b.up /\ b.tx # "committing"
  <2>1. \/ q = done
        \/ \E reply \in {"rejected", "unknown"} : q = Fault(Quiet(Refused(b, st), reply))
        \/ q = Fault([done EXCEPT !.b = Broken(@), !.reply = "unknown"])
        \/ q = Fault(Quiet(Broken(b), "unknown"))
        \/ Intact(b) /\ q = Quiet(Refused(b, st), "retryable")
        \/ b.tx = "open" /\ st = "COMMIT" /\ q = Fault(Quiet(Unanswered(b), "unknown"))
    BY <1>2 DEF Outcomes, Intact
  <2>2. CASE q = done BY <1>2, <2>2 DEF Answered
  <2>3. CASE \E reply \in {"rejected", "unknown"} : q = Fault(Quiet(Refused(b, st), reply))
    BY <1>2, <2>3 DEF Refusal, Quiet, Result, Fault
  <2>4. CASE q = Fault([done EXCEPT !.b = Broken(@), !.reply = "unknown"])
    BY <1>2, <2>4 DEF LostAnswer
  <2>5. CASE q = Fault(Quiet(Broken(b), "unknown"))
    BY <1>2, <2>5 DEF LostAnswer, Quiet, Result, Fault
  <2>6. CASE Intact(b) /\ q = Quiet(Refused(b, st), "retryable")
    BY <1>2, <2>6 DEF Refusal, Quiet, Result, Fault
  <2>7. CASE b.tx = "open" /\ st = "COMMIT" /\ q = Fault(Quiet(Unanswered(b), "unknown"))
    BY <1>2, <2>7 DEF LostAnswer, Quiet, Result, Fault
  <2> QED BY <2>1, <2>2, <2>3, <2>4, <2>5, <2>6, <2>7
<1> QED BY <1>1, <1>2

\* A statement that commits nothing and turns connection b into n.
Turns(b, n, reply, q) ==
    /\ q.stored = {} /\ Proper(q.b)
    /\ \/ b.up /\ b.tx # "committing" /\ q.b = n /\ q.reply = reply
       \/ /\ q.b = Aborted(b)
          /\ q.reply \in {"rejected", "unknown"} \/ (q.reply = "retryable" /\ Intact(b))
       \/ q.reply = "unknown" /\ q.b.tx = "none" /\ q.b.writes = {}
       \/ q.reply = "unknown" /\ q.b = b

LEMMA QuietOutcome ==
    ASSUME NEW b, Proper(b), NEW st, st \notin {"COMMIT", "chain"},
           NEW q \in Outcomes(b, st, <<>>), NEW n, NEW reply,
           b.up /\ b.tx # "committing" =>
              Executed(b, st, <<>>) = Quiet(n, reply) /\ Proper(n)
    PROVE  Turns(b, n, reply, q)
<1>1. CASE Answered(b, st, <<>>, q) BY <1>1 DEF Answered, Quiet, Result, Turns
<1>2. CASE Refusal(b, st, q) BY <1>2, Shapes DEF Refusal, Refused, Turns
<1>3. CASE LostAnswer(b, st, <<>>, q)
  <2>1. CASE q = Fault([Quiet(n, reply) EXCEPT !.b = Broken(@), !.reply = "unknown"]) /\ Proper(n)
    <3>1. q.b = Broken(n) /\ q.stored = {} /\ q.reply = "unknown"
      BY <2>1 DEF Fault, Quiet, Result
    <3>2. Proper(Broken(n)) /\ Broken(n).tx = "none" /\ Broken(n).writes = {}
      BY <2>1, Shapes
    <3> QED BY <3>1, <3>2 DEF Turns
  <2>2. CASE q.b = Broken(b) /\ q.stored = {} /\ q.reply = "unknown"
    BY <2>2, Shapes DEF Turns
  <2> QED BY <1>3, <2>1, <2>2 DEF LostAnswer
<1>4. CASE NoAnswer(b, q) BY <1>4 DEF NoAnswer, Turns
<1> QED BY <1>1, <1>2, <1>3, <1>4, OutcomeKinds

\* The store's own statements.
LEMMA DiscardOutcome ==
    ASSUME NEW b, Proper(b), b.tx = "none", NEW q \in Outcomes(b, "DISCARD", <<>>)
    PROVE  Proper(q.b) /\ q.b.writes \subseteq b.writes /\ q.stored = {} /\ q.b.tx = "none"
<1> DEFINE n == [b EXCEPT !.dirty = FALSE]
<1>1. Executed(b, "DISCARD", <<>>) = Quiet(n, "ok") BY DEF Executed
<1>2. Proper(n) /\ n.tx = "none" /\ n.writes = b.writes BY DEF Proper, Sane, BackendType
<1> HIDE DEF n
<1>3. Turns(b, n, "ok", q) BY <1>1, <1>2, QuietOutcome
<1> QED BY <1>2, <1>3, Shapes DEF Turns

LEMMA BeginOutcome ==
    ASSUME NEW b, Proper(b), b.tx = "none", NEW q \in Outcomes(b, "BEGIN", <<>>)
    PROVE  /\ Proper(q.b) /\ q.b.writes \subseteq b.writes /\ q.stored = {}
           /\ q.b.tx # "committing"
           /\ q.reply = "ok" => Intact(q.b) /\ q.b.writes = {}
<1> DEFINE n == [b EXCEPT !.tx = "open", !.own = TRUE]
<1>1. Executed(b, "BEGIN", <<>>) = Quiet(n, "ok") BY DEF Executed
<1>2. b.writes = {} /\ n.tx = "open" /\ n.own = TRUE /\ n.writes = {} /\ (b.up => Proper(n))
  BY DEF Proper, Sane, BackendType
<1> HIDE DEF n
<1>3. Turns(b, n, "ok", q) BY <1>1, <1>2, QuietOutcome
<1> QED BY <1>2, <1>3, Shapes DEF Turns, Intact

LEMMA XidOutcome ==
    ASSUME NEW b, Proper(b), NEW q \in Outcomes(b, "XID", <<>>)
    PROVE  /\ Proper(q.b) /\ q.b.writes \subseteq b.writes /\ q.stored = {}
           /\ q.b.tx = "committing" => b.tx = "committing"
           /\ q.reply = "ok" => q.b = b /\ Intact(b)
           /\ q.reply = "retryable" => Intact(b) /\ q.b.tx = "aborted"
<1>1. PICK reply \in {"rejected", "ok", "changed"} :
         /\ Executed(b, "XID", <<>>) = Quiet(b, reply)
         /\ reply = "ok" => Intact(b)
  BY DEF Executed, Intact
<1>2. Turns(b, b, reply, q) BY <1>1, QuietOutcome
<1> QED BY <1>1, <1>2, Shapes DEF Turns, Intact

LEMMA SyncOutcome ==
    ASSUME NEW b, Proper(b), ~b.up \/ Intact(b), NEW q \in Outcomes(b, "SYNC", <<>>)
    PROVE  /\ Proper(q.b) /\ q.b.writes \subseteq b.writes /\ q.stored = {}
           /\ q.reply = "ok" => Intact(q.b) /\ q.b.writes = b.writes /\ q.b.sync /\ b.up
           /\ q.reply = "retryable" => Intact(b) /\ q.b.tx = "aborted"
<1> DEFINE n == [b EXCEPT !.sync = TRUE]
<1>1. /\ n.sync = TRUE /\ n.tx = b.tx /\ n.own = b.own /\ n.writes = b.writes /\ Proper(n)
  BY DEF Proper, Sane, BackendType
<1>2. Intact(b) => Executed(b, "SYNC", <<>>) = Quiet(n, "ok") BY DEF Executed, Intact
<1> HIDE DEF n
<1>3. Turns(b, n, "ok", q) BY <1>1, <1>2, QuietOutcome
<1> QED BY <1>1, <1>3, Shapes DEF Turns, Intact

LEMMA RollbackOutcome ==
    ASSUME NEW b, Proper(b), NEW q \in Outcomes(b, "ROLLBACK", <<>>)
    PROVE  /\ Proper(q.b) /\ q.b.writes \subseteq b.writes /\ q.stored = {}
           /\ q.b.tx = "committing" => b.tx = "committing"
           /\ q.reply = "ROLLBACK" => q.b.tx = "none"
<1>1. Executed(b, "ROLLBACK", <<>>) = Quiet(Ended(b), "ROLLBACK") BY DEF Executed
<1>2. Turns(b, Ended(b), "ROLLBACK", q) BY <1>1, QuietOutcome, Shapes
<1> QED BY <1>2, Shapes DEF Turns, Intact

\* A COMMIT of the transaction that began stores all of it or is in doubt.
LEMMA CommitOutcome ==
    ASSUME NEW b, Proper(b), ~b.up \/ Intact(b), b.up => b.sync,
           NEW q \in Outcomes(b, "COMMIT", <<>>)
    PROVE  /\ Proper(q.b) /\ q.b.writes \subseteq b.writes /\ q.stored \subseteq b.writes
           /\ q.reply = "COMMIT" =>
                 q.stored = b.writes /\ Intact(b) /\ q.sync /\ q.b.tx = "none" /\ b.up
           /\ q.reply # "ROLLBACK"
           /\ q.reply = "retryable" => q.stored = {} /\ q.b.tx = "none"
<1> USE Shapes DEF Refused
<1>1. b.up => Executed(b, "COMMIT", <<>>) = CommitWith(b, Ended(b)) BY DEF Executed, Intact
<1>2. CASE Answered(b, "COMMIT", <<>>, q) BY <1>1, <1>2 DEF Answered, CommitWith, Result
<1>3. CASE Refusal(b, "COMMIT", q) BY <1>3 DEF Refusal
<1>4. CASE LostAnswer(b, "COMMIT", <<>>, q)
  <2>1. CASE q.b = Broken(Ended(b)) /\ q.stored = b.writes /\ q.reply = "unknown"
    <3>1. Proper(Ended(b))
      OBVIOUS
    <3>2. Proper(Broken(Ended(b))) /\ Broken(Ended(b)).writes = {} BY <3>1
    <3> QED BY <2>1, <3>2
  <2>2. CASE q.b \in {Broken(b), Unanswered(b)} /\ b.up /\ q.stored = {} /\ q.reply = "unknown"
    BY <2>2
  <2>3. CASE q = Fault([CommitWith(b, Ended(b)) EXCEPT !.b = Broken(@), !.reply = "unknown"])
    <3>1. q.b = Broken(Ended(b)) /\ q.stored = b.writes /\ q.reply = "unknown"
      BY <2>3 DEF Fault, CommitWith, Result
    <3> QED BY <2>1, <3>1
  <2> QED BY <1>1, <1>4, <2>2, <2>3 DEF LostAnswer
<1>5. CASE NoAnswer(b, q) BY <1>5 DEF NoAnswer
<1> QED BY <1>2, <1>3, <1>4, <1>5, OutcomeKinds

\* An answer to a query w of the callback.
Harmless(b, kind, w, x) ==
    /\ Proper(x.b) /\ x.b.writes \subseteq b.writes \cup {w}
    /\ x.stored \subseteq b.writes \cup {w}
    /\ x.b.tx # "committing" /\ x.reply \notin {"rejected", "retryable", "unknown"}
    /\ Intact(x.b) =>
          /\ x.stored = {}
          /\ x.b.writes = IF kind = "write" THEN b.writes \cup {w} ELSE b.writes
    /\ LET f == Fault([x EXCEPT !.b = Broken(@), !.reply = "unknown"]) IN
       f.b = Broken(x.b) /\ f.stored = x.stored /\ f.reply = "unknown"

\* A query of the callback: what it stores, it stores by ending the transaction.
Queries(b, kind, w, q) ==
    /\ Proper(q.b) /\ q.b.writes \subseteq b.writes \cup {w}
    /\ q.stored \subseteq b.writes \cup {w}
    /\ q.reply \in {"rejected", "retryable"} => q.stored = {} /\ q.b.tx # "committing"
    /\ q.reply \notin {"rejected", "retryable", "unknown"} =>
          /\ b.up /\ q.b.tx # "committing"
          /\ Intact(q.b) =>
               /\ q.stored = {}
               /\ q.b.writes = IF kind = "write" THEN b.writes \cup {w} ELSE b.writes

LEMMA QueryOutcome ==
    ASSUME NEW b, Proper(b), ~b.up \/ Intact(b), NEW kind \in Kinds, NEW w \in WriteType,
           NEW q \in Outcomes(b, kind, w)
    PROVE  Queries(b, kind, w, q)
<1> SUFFICES Queries(b, kind, w, q)
  OBVIOUS
<1> USE Shapes DEF Refused, Queries
<1> DEFINE x == Executed(b, kind, w)
<1>1. b.up => Harmless(b, kind, w, x)
  <2> SUFFICES ASSUME b.up, Intact(b) PROVE Harmless(b, kind, w, x)
    OBVIOUS
  <2> USE DEF Harmless
  <2>1. CASE kind = "ROLLBACK" BY <2>1 DEF Executed, Quiet, Result, Fault, Intact
  <2>2. CASE kind = "COMMIT" BY <2>2 DEF Executed, CommitWith, Result, Fault, Intact
  <2>3. CASE kind = "unsync"
    BY ZenonT(40), <2>3 DEF Executed, Quiet, Result, Fault, Intact, Proper, Sane,
       BackendType
  <2>4. CASE kind = "session"
    BY ZenonT(40), <2>4 DEF Executed, Quiet, Result, Fault, Intact, Proper, Sane,
       BackendType
  <2>5. CASE kind = "chain"
    <3> DEFINE n == [Ended(b) EXCEPT !.tx = "open"]
    <3>1. Proper(n) /\ n.tx = "open" /\ ~n.own /\ n.writes = {}
      <4>1. Proper(Ended(b)) /\ Ended(b).up = b.up /\ ~Ended(b).own /\ Ended(b).writes = {}
        BY DEF Ended, Proper, BackendType
      <4> HIDE DEF Harmless
      <4> QED BY <4>1 DEF Proper, Sane, BackendType
    <3>2. x = CommitWith(b, n) BY <2>5, Zenon DEF Executed, Intact
    <3> HIDE DEF n, x
    <3> QED BY <2>5, <3>1, <3>2 DEF CommitWith, Result, Fault, Intact
  <2>6. CASE kind = "write"
    BY <2>6 DEF Executed, Quiet, Result, Fault, Intact, Proper, Sane, BackendType
  <2>7. CASE kind = "stream" BY <2>7 DEF Executed, Quiet, Result, Fault, Intact
  <2> QED BY <2>1, <2>2, <2>3, <2>4, <2>5, <2>6, <2>7, StoreAssumption
<1>2. CASE Answered(b, kind, w, q) BY <1>1, <1>2 DEF Answered, Harmless
<1>3. CASE Refusal(b, kind, q) BY <1>3 DEF Refusal, Intact
<1>4. CASE LostAnswer(b, kind, w, q)
  <2>1. CASE b.up /\ q = Fault([x EXCEPT !.b = Broken(@), !.reply = "unknown"])
    <3>1. Proper(Broken(x.b)) /\ Broken(x.b).writes = {} BY <1>1, <2>1 DEF Harmless
    <3> QED BY <1>1, <2>1, <3>1 DEF Harmless
  <2>2. CASE q.b \in {Broken(b), Unanswered(b)} /\ b.up /\ q.stored = {} /\ q.reply = "unknown"
    BY <2>2
  <2> QED BY <1>4, <2>1, <2>2 DEF LostAnswer
<1>5. CASE NoAnswer(b, q) BY <1>5 DEF NoAnswer
<1> QED BY <1>2, <1>3, <1>4, <1>5, OutcomeKinds


-----------------------------------------------------------------------------
(* What one call does leaves the others alone.                             *)

\* The same writes of call d are committed.
SameOf(d, D, E) == \A w : w[1] = d => (w \in D <=> w \in E)

LEMMA SameSeen ==
    ASSUME NEW d, NEW D, NEW V, NEW E, NEW W, SameOf(d, D, E), SameOf(d, V, W)
    PROVE  /\ Unseen(d, D, V) <=> Unseen(d, E, W)
           /\ {w \in D : w[1] = d} = {w \in E : w[1] = d}
           /\ (\A w \in V : w[1] # d) <=> (\A w \in W : w[1] # d)
BY DEF SameOf, Unseen

LEMMA FitsKept ==
    ASSUME NEW d, NEW r, NEW b, NEW e, NEW D, NEW V, NEW E, NEW W,
           Fits(d, r, b, D, V), Holding(r) => e = b,
           SameOf(d, D, E), SameOf(d, V, W)
    PROVE  Fits(d, r, e, E, W)
<1>1. /\ Unseen(d, D, V) <=> Unseen(d, E, W)
      /\ {w \in D : w[1] = d} = {w \in E : w[1] = d}
      /\ (\A w \in V : w[1] # d) <=> (\A w \in W : w[1] # d)
  BY SameSeen
<1>2. Beginning(d, r, e, E, W) BY <1>1 DEF Fits, Beginning, Holding
<1>3. InCallback(d, r, e, E, W) BY <1>1 DEF Fits, InCallback, Serves, Holding, Running
<1>4. Committing(d, r, e, E, W) BY <1>1 DEF Fits, Committing, Holding
<1>5. Ending(d, r, e, E, W) BY <1>1 DEF Fits, Ending, Holding
<1> QED BY <1>2, <1>3, <1>4, <1>5 DEF Fits

\* Writes of attempt n of call c.
Own(c, n, W) == \A w \in W : w \in WriteType /\ w[1] = c /\ w[2] = n
Grows(c, n, D, E) == D \subseteq E /\ \A w \in E : w \in D \/ (w \in WriteType /\ w[1] = c /\ w[2] = n)

\* A step of call c on its connection s.
Advances(c, s, r, nb) ==
    /\ s \in Slots /\ call[c].slot = s /\ r.slot = s
    /\ r \in CallType /\ r.attempt = call[c].attempt
    /\ Holding(call[c]) /\ Holding(r)
    /\ call' = [call EXCEPT ![c] = r] /\ pool' = pool
    /\ backend' = [backend EXCEPT ![s] = nb]
    /\ Proper(nb) /\ Own(c, r.attempt, nb.writes)
    /\ Grows(c, r.attempt, durable, durable') /\ Grows(c, r.attempt, volatile, volatile')
    /\ Fits(c, r, nb, durable', volatile')

LEMMA Advance ==
    ASSUME StoreInv, NEW c \in Calls, NEW s, NEW r, NEW nb, Advances(c, s, r, nb)
    PROVE  StoreInv'
<1> USE DEF Advances
<1> SUFFICES StoreInv' OBVIOUS
<1>1. /\ call' \in [Calls -> CallType] /\ call'[c] = r
      /\ \A d \in Calls : d # c => call'[d] = call[d]
      /\ \A d \in Calls : call'[d].attempt = call[d].attempt
      /\ \A d \in Calls : call'[d].slot = call[d].slot
      /\ \A d \in Calls : Holding(call'[d]) <=> Holding(call[d])
  BY DEF StoreInv, StoreTypeOK
<1>2. /\ backend' \in [Slots -> BackendType] /\ backend'[s] = nb
      /\ \A t \in Slots : t # s => backend'[t] = backend[t]
      /\ \A t : t # s => backend'[t] = backend[t] \/ t \notin Slots
  BY DEF StoreInv, StoreTypeOK, Proper
<1>3. durable' \in SUBSET WriteType /\ volatile' \in SUBSET WriteType
  BY DEF StoreInv, StoreTypeOK, Grows
<1>4. StoreTypeOK' BY <1>1, <1>2, <1>3 DEF StoreInv, StoreTypeOK
<1>5. \A t \in Slots : Sane(backend'[t]) BY <1>2 DEF StoreInv, Proper
<1>6. pool[s] = c BY DEF StoreInv, Paired
<1>7. Paired'
  <2>1. \A t \in Slots : pool[t] \in {"free", "idle"} => t # s BY <1>6, StoreAssumption
  <2> QED BY <1>1, <1>2, <1>6, <2>1 DEF StoreInv, Paired
<1>8. Owned'
  <2> SUFFICES ASSUME NEW t \in Slots, NEW w \in backend'[t].writes
               PROVE  /\ w[2] = call'[w[1]].attempt
                      /\ \/ pool[t] = w[1]
                         \/ /\ pool[t] = "closed" /\ call'[w[1]].pc = "done"
                            /\ call'[w[1]].outcome = "uncertain"
    BY DEF Owned
  <2>1. CASE t = s BY <1>1, <1>2, <1>6, <2>1 DEF Own
  <2>2. CASE t # s
    <3>1. w \in backend[t].writes /\ w[1] \in Calls
      BY <1>2, <2>2 DEF StoreInv, StoreTypeOK, BackendType, WriteType
    <3>2. /\ w[2] = call[w[1]].attempt
          /\ \/ pool[t] = w[1]
             \/ /\ pool[t] = "closed" /\ call[w[1]].pc = "done"
                /\ call[w[1]].outcome = "uncertain"
      BY <3>1 DEF StoreInv, Owned
    <3>3. call[w[1]].pc = "done" => w[1] # c BY DEF Holding
    <3> QED BY <1>1, <3>1, <3>2, <3>3
  <2> QED BY <2>1, <2>2
<1>9. LastAttempt'
  <2> SUFFICES ASSUME NEW w \in durable' \cup volatile'
               PROVE  w[2] = call'[w[1]].attempt
    BY DEF LastAttempt
  <2>1. CASE w \in durable \cup volatile
    BY <1>1, <2>1 DEF StoreInv, LastAttempt, StoreTypeOK, WriteType
  <2>2. CASE w[1] = c /\ w[2] = r.attempt BY <1>1, <2>2
  <2> QED BY <2>1, <2>2 DEF Grows
<1>10. \A d \in Calls : Fits(d, call'[d], backend'[call'[d].slot], durable', volatile')
  <2> SUFFICES ASSUME NEW d \in Calls
               PROVE  Fits(d, call'[d], backend'[call'[d].slot], durable', volatile')
    OBVIOUS
  <2>1. CASE d = c BY <1>1, <1>2, <2>1
  <2>2. CASE d # c
    <3>1. SameOf(d, durable, durable') /\ SameOf(d, volatile, volatile')
      BY <2>2 DEF SameOf, Grows
    <3>2. Holding(call[d]) => backend'[call[d].slot] = backend[call[d].slot]
      BY <1>2, <1>6, <2>2 DEF StoreInv, Paired
    <3>3. Fits(d, call[d], backend[call[d].slot], durable, volatile) BY DEF StoreInv
    <3>4. Fits(d, call[d], backend'[call[d].slot], durable', volatile')
      BY <3>1, <3>2, <3>3, FitsKept
    <3> QED BY <1>1, <2>2, <3>4
  <2> QED BY <2>1, <2>2
<1> QED BY <1>4, <1>5, <1>7, <1>8, <1>9, <1>10 DEF StoreInv

-----------------------------------------------------------------------------
(* Steps on the call's connection.                                         *)

LEMMA Connected ==
    ASSUME StoreInv, NEW c \in Calls, Holding(call[c])
    PROVE  /\ call[c] \in CallType /\ call[c].slot \in Slots
           /\ call[c].attempt \in 1 .. MaxAttempts
           /\ Proper(backend[call[c].slot])
           /\ Own(c, call[c].attempt, backend[call[c].slot].writes)
           /\ Fits(c, call[c], backend[call[c].slot], durable, volatile)
<1>1. call[c] \in CallType /\ call[c].slot \in Slots /\ pool[call[c].slot] = c
  BY DEF StoreInv, StoreTypeOK, Paired
<1>2. Fits(c, call[c], backend[call[c].slot], durable, volatile) BY DEF StoreInv
<1>3. call[c].attempt \in 1 .. MaxAttempts BY <1>2 DEF Fits, Holding
<1>4. Proper(backend[call[c].slot]) BY <1>1 DEF StoreInv, StoreTypeOK, Proper
<1>5. ASSUME NEW w \in backend[call[c].slot].writes
      PROVE  w \in WriteType /\ w[1] = c /\ w[2] = call[c].attempt
  <2>1. w \in WriteType BY <1>4 DEF Proper, BackendType
  <2>2. c # "closed" BY StoreAssumption
  <2> QED BY <1>1, <2>1, <2>2 DEF StoreInv, Owned
<1> QED BY <1>1, <1>2, <1>3, <1>4, <1>5 DEF Own

\* The record of the call after a step that keeps its attempt and connection.
Follows(c, r) ==
    /\ r \in CallType /\ Holding(r)
    /\ r.slot = call[c].slot /\ r.attempt = call[c].attempt

\* A step that is no statement.
LEMMA Silent ==
    ASSUME StoreInv, NEW c \in Calls, Holding(call[c]), NEW r, Follows(c, r),
           call' = [call EXCEPT ![c] = r],
           UNCHANGED <<pool, backend, durable, volatile>>,
           Fits(c, r, backend[call[c].slot], durable, volatile)
    PROVE  StoreInv'
<1> DEFINE s == call[c].slot
           b == backend[call[c].slot]
<1>1. s \in Slots /\ Proper(b) /\ Own(c, call[c].attempt, b.writes) BY Connected
<1>2. backend' = [backend EXCEPT ![s] = b] BY <1>1 DEF StoreInv, StoreTypeOK
<1>3. /\ Grows(c, r.attempt, durable, durable') /\ Grows(c, r.attempt, volatile, volatile')
  BY DEF Grows
<1>4. Fits(c, r, b, durable', volatile') BY Zenon
<1>5. Own(c, r.attempt, b.writes) BY <1>1 DEF Follows
<1> HIDE DEF b
<1>6. Advances(c, s, r, b) BY <1>1, <1>2, <1>3, <1>4, <1>5 DEF Advances, Follows
<1> QED BY <1>6, Advance

\* A statement with its outcome q.
LEMMA Asks ==
    ASSUME StoreInv, NEW c \in Calls, Holding(call[c]), NEW r, Follows(c, r),
           call' = [call EXCEPT ![c] = r], pool' = pool,
           NEW q, Query(c, q), Proper(q.b),
           Own(c, call[c].attempt, q.b.writes), Own(c, call[c].attempt, q.stored),
           Fits(c, r, q.b, durable', volatile')
    PROVE  StoreInv'
<1> DEFINE s == call[c].slot
<1>1. s \in Slots BY Connected
<1>2. backend' = [backend EXCEPT ![s] = q.b] BY DEF Query
<1>3. Grows(c, r.attempt, durable, durable') /\ Grows(c, r.attempt, volatile, volatile')
  BY DEF Grows, Own, Query, Follows
<1>4. Own(c, r.attempt, q.b.writes) BY DEF Follows
<1>5. Advances(c, s, r, q.b) BY <1>1, <1>2, <1>3, <1>4 DEF Advances, Follows
<1> QED BY <1>5, Advance

\* A statement that stores nothing.
LEMMA AsksOnly ==
    ASSUME StoreInv, NEW c \in Calls, Holding(call[c]), NEW r, Follows(c, r),
           call' = [call EXCEPT ![c] = r], pool' = pool,
           NEW q, Query(c, q), Proper(q.b),
           q.b.writes \subseteq backend[call[c].slot].writes, q.stored = {},
           Fits(c, r, q.b, durable, volatile)
    PROVE  StoreInv'
<1>1. durable' = durable /\ volatile' = volatile BY DEF Query
<1>2. Own(c, call[c].attempt, backend[call[c].slot].writes) BY Connected
<1>3. Own(c, call[c].attempt, q.b.writes) /\ Own(c, call[c].attempt, q.stored)
  BY <1>2 DEF Own
<1>4. Fits(c, r, q.b, durable', volatile') BY <1>1
<1> QED BY <1>3, <1>4, Asks

LEMMA EndingFits ==
    ASSUME NEW c, NEW x, NEW r, NEW b, NEW D, NEW V, Queued(c, x), Idle(x.cap),
           r.cap = x.cap, r.attempt \in 1 .. MaxAttempts,
           r.pc \in {"rollback", "reset", "abandon", "release"}, Ending(c, r, b, D, V)
    PROVE  Fits(c, r, b, D, V)
<1>1. ~Running(r) BY DEF Running
<1>2. Queued(c, r) BY <1>1 DEF Queued, Idle
<1>3. Beginning(c, r, b, D, V) /\ InCallback(c, r, b, D, V) /\ Committing(c, r, b, D, V)
  BY <1>1 DEF Beginning, InCallback, Committing
<1> QED BY <1>2, <1>3 DEF Fits

\* The record of call c after it has gone to pc.
Leads(c, r, pc, retry, outcome) ==
    /\ r \in CallType /\ r.pc = pc
    /\ r.slot = call[c].slot /\ r.attempt = call[c].attempt /\ r.cap = call[c].cap
    /\ r.retry = retry /\ r.outcome = outcome

\* The exits of an attempt.
LEMMA Exits ==
    ASSUME NEW c \in Calls, call[c] \in CallType
    PROVE  /\ \A pc \in Pcs : Leads(c, Goto(c, pc), pc, call[c].retry, call[c].outcome)
           /\ \A o \in {"not-committed", "committed", "uncertain"} :
                 /\ Leads(c, Finish(c, TRUE, o), "release", FALSE, o)
                 /\ Finish(c, TRUE, o).destroy = TRUE
           /\ \A y \in BOOLEAN :
                 Leads(c, RollbackAndRelease(c, y), "rollback", y, "not-committed")
           /\ \A o \in {"not-committed", "committed"} :
                 Leads(c, ResetAndRelease(c, o), "reset", call[c].retry, o)
           /\ Leads(c, AfterServerRollback(c), "release", TRUE, "not-committed")
           /\ AfterServerRollback(c).destroy = TRUE
           /\ Leads(c, FailUncertain(c), "abandon", FALSE, "uncertain")
<1> USE DEF Leads
<1>1. \A pc \in Pcs : Leads(c, Goto(c, pc), pc, call[c].retry, call[c].outcome)
  BY DEF Goto, CallType
<1>2. \A o \in {"not-committed", "committed", "uncertain"} :
          /\ Leads(c, Finish(c, TRUE, o), "release", FALSE, o)
          /\ Finish(c, TRUE, o).destroy = TRUE
  BY DEF Finish, Goto, CallType, Pcs
<1>3. \A y \in BOOLEAN :
          Leads(c, RollbackAndRelease(c, y), "rollback", y, "not-committed")
  BY DEF RollbackAndRelease, Goto, CallType, Pcs
<1>4. \A o \in {"not-committed", "committed"} :
          Leads(c, ResetAndRelease(c, o), "reset", call[c].retry, o)
  BY DEF ResetAndRelease, Goto, CallType, Pcs
<1>5. /\ Leads(c, AfterServerRollback(c), "release", TRUE, "not-committed")
      /\ AfterServerRollback(c).destroy = TRUE
  <2> DEFINE f == Finish(c, TRUE, "not-committed")
  <2>1. Leads(c, f, "release", FALSE, "not-committed") /\ f.destroy = TRUE BY <1>2
  <2> HIDE DEF f
  <2>2. AfterServerRollback(c) = [f EXCEPT !.retry = TRUE] BY DEF AfterServerRollback, f
  <2> QED BY <2>1, <2>2 DEF CallType
<1>6. Leads(c, FailUncertain(c), "abandon", FALSE, "uncertain")
  BY DEF FailUncertain, Goto, CallType, Pcs
<1> QED BY <1>1, <1>2, <1>3, <1>4, <1>5, <1>6

LEMMA LeadsOn ==
    ASSUME NEW c, NEW r, NEW pc, NEW y, NEW o, Leads(c, r, pc, y, o),
           pc \notin {"new", "acquire", "done"}
    PROVE  Follows(c, r)
BY DEF Leads, Follows, Holding

-----------------------------------------------------------------------------
(* The store's own statements.                                             *)

LEMMA CleanClientKeeps ==
    ASSUME StoreInv, NEW c \in Calls, CleanClient(c)
    PROVE  StoreInv'
<1> DEFINE x == call[c]
           b == backend[call[c].slot]
<1>1. Holding(x) /\ ~Running(x) /\ x.pc = "clean" BY DEF CleanClient, Holding, Running
<1>2. /\ x \in CallType /\ x.attempt \in 1 .. MaxAttempts /\ Proper(b)
      /\ Fits(c, x, b, durable, volatile)
  BY <1>1, Connected
<1>3. /\ Queued(c, x) /\ Idle(x.cap)
      /\ b.tx = "none" /\ Unseen(c, durable, volatile) /\ ~x.retry
  BY <1>1, <1>2 DEF Fits, Queued, Idle, Beginning, Ending
<1>4. PICK q \in Outcomes(b, "DISCARD", <<>>) :
         /\ Query(c, q)
         /\ call' = [call EXCEPT ![c] = IF q.reply = "ok" THEN Goto(c, "begin")
                                        ELSE Finish(c, TRUE, "not-committed")]
         /\ pool' = pool
  BY DEF CleanClient, OutcomesOf, Set
<1>5. Proper(q.b) /\ q.b.writes \subseteq b.writes /\ q.stored = {} /\ q.b.tx = "none"
  BY <1>2, <1>3, DiscardOutcome
<1>6. CASE q.reply = "ok"
  <2> DEFINE r == Goto(c, "begin")
  <2>1. Leads(c, r, "begin", x.retry, x.outcome) BY <1>2, Exits DEF Pcs
  <2>2. call' = [call EXCEPT ![c] = r] BY <1>4, <1>6
  <2> HIDE DEF r
  <2>3. Follows(c, r) BY <2>1, LeadsOn
  <2>4. Fits(c, r, q.b, durable, volatile)
    BY <1>2, <1>3, <1>5, <2>1 DEF Leads, Fits, Queued, Idle, Running, Beginning, InCallback,
       Committing, Ending
  <2> QED BY <1>1, <1>4, <1>5, <2>2, <2>3, <2>4, AsksOnly
<1>7. CASE q.reply # "ok"
  <2> DEFINE r == Finish(c, TRUE, "not-committed")
  <2>1. Leads(c, r, "release", FALSE, "not-committed") /\ r.destroy BY <1>2, Exits
  <2>2. call' = [call EXCEPT ![c] = r] BY <1>4, <1>7
  <2> HIDE DEF r
  <2>3. Follows(c, r) BY <2>1, LeadsOn
  <2>5. Ending(c, r, q.b, durable, volatile) BY <1>3, <1>5, <2>1 DEF Leads, Ending
  <2>4. Fits(c, r, q.b, durable, volatile) BY <1>2, <1>3, <2>1, <2>5, EndingFits DEF Leads
  <2> QED BY <1>1, <1>4, <1>5, <2>2, <2>3, <2>4, AsksOnly
<1> QED BY <1>6, <1>7

LEMMA BeginKeeps ==
    ASSUME StoreInv, NEW c \in Calls, Begin(c)
    PROVE  StoreInv'
<1> DEFINE x == call[c]
           b == backend[call[c].slot]
<1>1. Holding(x) /\ ~Running(x) /\ x.pc = "begin" BY DEF Begin, Holding, Running
<1>2. /\ x \in CallType /\ x.attempt \in 1 .. MaxAttempts /\ Proper(b)
      /\ Fits(c, x, b, durable, volatile)
  BY <1>1, Connected
<1>3. /\ Queued(c, x) /\ Idle(x.cap)
      /\ b.tx = "none" /\ Unseen(c, durable, volatile) /\ ~x.retry
  BY <1>1, <1>2 DEF Fits, Queued, Idle, Beginning, Ending
<1>4. PICK q \in Outcomes(b, "BEGIN", <<>>) :
         /\ Query(c, q)
         /\ call' = [call EXCEPT ![c] = IF q.reply = "ok" THEN Goto(c, "stamp")
                                        ELSE Finish(c, TRUE, "not-committed")]
         /\ pool' = pool
  BY DEF Begin, OutcomesOf, Set
<1>5. /\ Proper(q.b) /\ q.b.writes \subseteq b.writes /\ q.stored = {}
      /\ q.b.tx # "committing"
      /\ q.reply = "ok" => Intact(q.b) /\ q.b.writes = {}
  BY <1>2, <1>3, BeginOutcome
<1>6. CASE q.reply = "ok"
  <2> DEFINE r == Goto(c, "stamp")
  <2>1. Leads(c, r, "stamp", x.retry, x.outcome) BY <1>2, Exits DEF Pcs
  <2>2. call' = [call EXCEPT ![c] = r] BY <1>4, <1>6
  <2> HIDE DEF r
  <2>3. Follows(c, r) BY <2>1, LeadsOn
  <2>4. Fits(c, r, q.b, durable, volatile)
    BY <1>2, <1>3, <1>5, <1>6, <2>1 DEF Leads, Fits, Queued, Idle, Running, Beginning,
       InCallback, Committing, Ending
  <2> QED BY <1>1, <1>4, <1>5, <2>2, <2>3, <2>4, AsksOnly
<1>7. CASE q.reply # "ok"
  <2> DEFINE r == Finish(c, TRUE, "not-committed")
  <2>1. Leads(c, r, "release", FALSE, "not-committed") /\ r.destroy BY <1>2, Exits
  <2>2. call' = [call EXCEPT ![c] = r] BY <1>4, <1>7
  <2> HIDE DEF r
  <2>3. Follows(c, r) BY <2>1, LeadsOn
  <2>5. Ending(c, r, q.b, durable, volatile) BY <1>3, <1>5, <2>1 DEF Leads, Ending
  <2>4. Fits(c, r, q.b, durable, volatile) BY <1>2, <1>3, <2>1, <2>5, EndingFits DEF Leads
  <2> QED BY <1>1, <1>4, <1>5, <2>2, <2>3, <2>4, AsksOnly
<1> QED BY <1>6, <1>7

LEMMA EnforceSyncKeeps ==
    ASSUME StoreInv, NEW c \in Calls, EnforceSync(c)
    PROVE  StoreInv'
<1> DEFINE x == call[c]
           b == backend[call[c].slot]
<1>1. Holding(x) /\ ~Running(x) /\ x.pc = "sync" BY DEF EnforceSync, Holding, Running
<1>2. /\ x \in CallType /\ x.attempt \in 1 .. MaxAttempts /\ Proper(b)
      /\ Fits(c, x, b, durable, volatile)
  BY <1>1, Connected
<1>3. /\ Queued(c, x) /\ Idle(x.cap)
      /\ Unseen(c, durable, volatile) /\ ~x.retry
      /\ ~b.up \/ (Intact(b) /\ b.writes = WrittenBy(c, x))
  BY <1>1, <1>2 DEF Fits, Queued, Idle, Committing, Ending
<1>4. PICK q \in Outcomes(b, "SYNC", <<>>) :
         /\ Query(c, q)
         /\ call' = [call EXCEPT ![c] = IF q.reply = "ok" THEN Goto(c, "boundary")
                                        ELSE IF q.reply = "retryable" THEN AfterServerRollback(c)
                                        ELSE FailUncertain(c)]
         /\ pool' = pool
  BY DEF EnforceSync, OutcomesOf, Set
<1>5. /\ Proper(q.b) /\ q.b.writes \subseteq b.writes /\ q.stored = {}
      /\ q.reply = "ok" => Intact(q.b) /\ q.b.writes = b.writes /\ q.b.sync /\ b.up
      /\ q.reply = "retryable" => Intact(b) /\ q.b.tx = "aborted"
  BY <1>2, <1>3, SyncOutcome
<1>6. CASE q.reply = "ok"
  <2> DEFINE r == Goto(c, "boundary")
  <2>1. Leads(c, r, "boundary", x.retry, x.outcome) BY <1>2, Exits DEF Pcs
  <2>2. call' = [call EXCEPT ![c] = r] BY <1>4, <1>6
  <2> HIDE DEF r
  <2>3. Follows(c, r) BY <2>1, LeadsOn
  <2>6. WrittenBy(c, r) = WrittenBy(c, x) BY <2>1 DEF Leads, WrittenBy
  <2>4. Fits(c, r, q.b, durable, volatile)
    BY <1>2, <1>3, <1>5, <1>6, <2>1, <2>6 DEF Leads, Fits, Queued, Idle, Running, Beginning,
       InCallback, Committing, Ending
  <2> QED BY <1>1, <1>4, <1>5, <2>2, <2>3, <2>4, AsksOnly
<1>7. CASE q.reply = "retryable"
  <2> DEFINE r == AfterServerRollback(c)
  <2>1. Leads(c, r, "release", TRUE, "not-committed") /\ r.destroy BY <1>2, Exits
  <2>2. call' = [call EXCEPT ![c] = r] BY <1>4, <1>7
  <2> HIDE DEF r
  <2>3. Follows(c, r) BY <2>1, LeadsOn
  <2>5. Ending(c, r, q.b, durable, volatile) BY <1>3, <1>5, <1>7, <2>1 DEF Leads, Ending
  <2>4. Fits(c, r, q.b, durable, volatile) BY <1>2, <1>3, <2>1, <2>5, EndingFits DEF Leads
  <2> QED BY <1>1, <1>4, <1>5, <2>2, <2>3, <2>4, AsksOnly
<1>8. CASE q.reply \notin {"ok", "retryable"}
  <2> DEFINE r == FailUncertain(c)
  <2>1. Leads(c, r, "abandon", FALSE, "uncertain") BY <1>2, Exits
  <2>2. call' = [call EXCEPT ![c] = r] BY <1>4, <1>8
  <2> HIDE DEF r
  <2>3. Follows(c, r) BY <2>1, LeadsOn
  <2>5. Ending(c, r, q.b, durable, volatile) BY <1>3, <1>5, <2>1 DEF Leads, Ending
  <2>4. Fits(c, r, q.b, durable, volatile) BY <1>2, <1>3, <2>1, <2>5, EndingFits DEF Leads
  <2> QED BY <1>1, <1>4, <1>5, <2>2, <2>3, <2>4, AsksOnly
<1> QED BY <1>6, <1>7, <1>8

LEMMA EnforceBoundaryKeeps ==
    ASSUME StoreInv, NEW c \in Calls, EnforceBoundary(c)
    PROVE  StoreInv'
<1> DEFINE x == call[c]
           b == backend[call[c].slot]
<1>1. Holding(x) /\ ~Running(x) /\ x.pc = "boundary"
  BY DEF EnforceBoundary, Holding, Running
<1>2. /\ x \in CallType /\ x.attempt \in 1 .. MaxAttempts /\ Proper(b)
      /\ Fits(c, x, b, durable, volatile)
  BY <1>1, Connected
<1>3. /\ Queued(c, x) /\ Idle(x.cap)
      /\ Unseen(c, durable, volatile) /\ ~x.retry /\ (b.up => b.sync)
      /\ ~b.up \/ (Intact(b) /\ b.writes = WrittenBy(c, x))
  BY <1>1, <1>2 DEF Fits, Queued, Idle, Committing, Ending
<1>4. PICK q \in Outcomes(b, "XID", <<>>) :
         /\ Query(c, q)
         /\ call' = [call EXCEPT ![c] = IF q.reply = "ok" THEN Goto(c, "commit")
                                        ELSE IF q.reply = "retryable" THEN AfterServerRollback(c)
                                        ELSE FailUncertain(c)]
         /\ pool' = pool
  BY DEF EnforceBoundary, OutcomesOf, Set
<1>5. /\ Proper(q.b) /\ q.b.writes \subseteq b.writes /\ q.stored = {}
      /\ q.reply = "ok" => q.b = b /\ Intact(b)
      /\ q.reply = "retryable" => Intact(b) /\ q.b.tx = "aborted"
  BY <1>2, <1>3, XidOutcome
<1>6. CASE q.reply = "ok"
  <2> DEFINE r == Goto(c, "commit")
  <2>1. Leads(c, r, "commit", x.retry, x.outcome) BY <1>2, Exits DEF Pcs
  <2>2. call' = [call EXCEPT ![c] = r] BY <1>4, <1>6
  <2> HIDE DEF r
  <2>3. Follows(c, r) BY <2>1, LeadsOn
  <2>6. WrittenBy(c, r) = WrittenBy(c, x) BY <2>1 DEF Leads, WrittenBy
  <2>4. Fits(c, r, q.b, durable, volatile)
    BY <1>2, <1>3, <1>5, <1>6, <2>1, <2>6 DEF Leads, Fits, Queued, Idle, Running, Beginning,
       InCallback, Committing, Ending
  <2> QED BY <1>1, <1>4, <1>5, <2>2, <2>3, <2>4, AsksOnly
<1>7. CASE q.reply = "retryable"
  <2> DEFINE r == AfterServerRollback(c)
  <2>1. Leads(c, r, "release", TRUE, "not-committed") /\ r.destroy BY <1>2, Exits
  <2>2. call' = [call EXCEPT ![c] = r] BY <1>4, <1>7
  <2> HIDE DEF r
  <2>3. Follows(c, r) BY <2>1, LeadsOn
  <2>5. Ending(c, r, q.b, durable, volatile) BY <1>3, <1>5, <1>7, <2>1 DEF Leads, Ending
  <2>4. Fits(c, r, q.b, durable, volatile) BY <1>2, <1>3, <2>1, <2>5, EndingFits DEF Leads
  <2> QED BY <1>1, <1>4, <1>5, <2>2, <2>3, <2>4, AsksOnly
<1>8. CASE q.reply \notin {"ok", "retryable"}
  <2> DEFINE r == FailUncertain(c)
  <2>1. Leads(c, r, "abandon", FALSE, "uncertain") BY <1>2, Exits
  <2>2. call' = [call EXCEPT ![c] = r] BY <1>4, <1>8
  <2> HIDE DEF r
  <2>3. Follows(c, r) BY <2>1, LeadsOn
  <2>5. Ending(c, r, q.b, durable, volatile) BY <1>3, <1>5, <2>1 DEF Leads, Ending
  <2>4. Fits(c, r, q.b, durable, volatile) BY <1>2, <1>3, <2>1, <2>5, EndingFits DEF Leads
  <2> QED BY <1>1, <1>4, <1>5, <2>2, <2>3, <2>4, AsksOnly
<1> QED BY <1>6, <1>7, <1>8

LEMMA RollbackKeeps ==
    ASSUME StoreInv, NEW c \in Calls, Rollback(c)
    PROVE  StoreInv'
<1> DEFINE x == call[c]
           b == backend[call[c].slot]
<1>1. Holding(x) /\ ~Running(x) /\ x.pc = "rollback" BY DEF Rollback, Holding, Running
<1>2. /\ x \in CallType /\ x.attempt \in 1 .. MaxAttempts /\ Proper(b)
      /\ Fits(c, x, b, durable, volatile)
  BY <1>1, Connected
<1>3. /\ Queued(c, x) /\ Idle(x.cap)
      /\ Unseen(c, durable, volatile) /\ x.outcome = "not-committed" /\ b.tx # "committing"
  BY <1>1, <1>2 DEF Fits, Queued, Idle, Ending
<1>4. PICK q \in Outcomes(b, "ROLLBACK", <<>>) :
         /\ Query(c, q)
         /\ call' = [call EXCEPT ![c] = IF q.reply = "ROLLBACK" THEN Goto(c, "reset")
                                        ELSE Finish(c, TRUE, "uncertain")]
         /\ pool' = pool
  BY DEF Rollback, OutcomesOf, Set
<1>5. /\ Proper(q.b) /\ q.b.writes \subseteq b.writes /\ q.stored = {}
      /\ q.b.tx = "committing" => b.tx = "committing"
      /\ q.reply = "ROLLBACK" => q.b.tx = "none"
  BY <1>2, <1>3, RollbackOutcome
<1>6. CASE q.reply = "ROLLBACK"
  <2> DEFINE r == Goto(c, "reset")
  <2>1. Leads(c, r, "reset", x.retry, x.outcome) BY <1>2, Exits DEF Pcs
  <2>2. call' = [call EXCEPT ![c] = r] BY <1>4, <1>6
  <2> HIDE DEF r
  <2>3. Follows(c, r) BY <2>1, LeadsOn
  <2>5. Ending(c, r, q.b, durable, volatile) BY <1>3, <1>5, <1>6, <2>1 DEF Leads, Ending
  <2>4. Fits(c, r, q.b, durable, volatile) BY <1>2, <1>3, <2>1, <2>5, EndingFits DEF Leads
  <2> QED BY <1>1, <1>4, <1>5, <2>2, <2>3, <2>4, AsksOnly
<1>7. CASE q.reply # "ROLLBACK"
  <2> DEFINE r == Finish(c, TRUE, "uncertain")
  <2>1. Leads(c, r, "release", FALSE, "uncertain") /\ r.destroy BY <1>2, Exits
  <2>2. call' = [call EXCEPT ![c] = r] BY <1>4, <1>7
  <2> HIDE DEF r
  <2>3. Follows(c, r) BY <2>1, LeadsOn
  <2>5. Ending(c, r, q.b, durable, volatile) BY <1>3, <1>5, <2>1 DEF Leads, Ending
  <2>4. Fits(c, r, q.b, durable, volatile) BY <1>2, <1>3, <2>1, <2>5, EndingFits DEF Leads
  <2> QED BY <1>1, <1>4, <1>5, <2>2, <2>3, <2>4, AsksOnly
<1> QED BY <1>6, <1>7

LEMMA ResetKeeps ==
    ASSUME StoreInv, NEW c \in Calls, Reset(c)
    PROVE  StoreInv'
<1> DEFINE x == call[c]
           b == backend[call[c].slot]
<1>1. Holding(x) /\ ~Running(x) /\ x.pc = "reset" BY DEF Reset, Holding, Running
<1>2. /\ x \in CallType /\ x.attempt \in 1 .. MaxAttempts /\ Proper(b)
      /\ Fits(c, x, b, durable, volatile)
  BY <1>1, Connected
<1>3. /\ Queued(c, x) /\ Idle(x.cap)
      /\ b.tx = "none" /\ x.outcome \in {"not-committed", "committed"}
      /\ (x.retry => x.outcome = "not-committed")
      /\ (x.outcome = "not-committed" => Unseen(c, durable, volatile))
      /\ x.outcome = "committed" =>
            /\ {w \in durable : w[1] = c} = WrittenBy(c, x)
            /\ \A w \in volatile : w[1] # c
  BY <1>1, <1>2 DEF Fits, Queued, Idle, Ending, CallType
<1>4. PICK q \in Outcomes(b, "DISCARD", <<>>) :
         /\ Query(c, q)
         /\ call' = [call EXCEPT ![c] = IF q.reply = "ok" THEN [Goto(c, "release") EXCEPT !.destroy = FALSE]
                                        ELSE Finish(c, TRUE, x.outcome)]
         /\ pool' = pool
  BY DEF Reset, OutcomesOf, Set
<1>5. Proper(q.b) /\ q.b.writes \subseteq b.writes /\ q.stored = {} /\ q.b.tx = "none"
  BY <1>2, <1>3, DiscardOutcome
<1>6. CASE q.reply = "ok"
  <2> DEFINE r == [Goto(c, "release") EXCEPT !.destroy = FALSE]
  <2> DEFINE g == Goto(c, "release")
  <2>8. Leads(c, g, "release", x.retry, x.outcome) BY <1>2, Exits DEF Pcs
  <2> HIDE DEF g
  <2>9. r = [g EXCEPT !.destroy = FALSE] BY DEF g
  <2>1. Leads(c, r, "release", x.retry, x.outcome) BY <2>8, <2>9 DEF Leads, CallType
  <2>2. call' = [call EXCEPT ![c] = r] BY <1>4, <1>6
  <2> HIDE DEF r
  <2>3. Follows(c, r) BY <2>1 DEF Leads, Follows, Holding
  <2>6. WrittenBy(c, r) = WrittenBy(c, x) BY <2>1 DEF Leads, WrittenBy
  <2>5. Ending(c, r, q.b, durable, volatile) BY <1>3, <1>5, <2>1, <2>6 DEF Leads, Ending
  <2>4. Fits(c, r, q.b, durable, volatile) BY <1>2, <1>3, <2>1, <2>5, EndingFits DEF Leads
  <2> QED BY <1>1, <1>4, <1>5, <2>2, <2>3, <2>4, AsksOnly
<1>7. CASE q.reply # "ok"
  <2> DEFINE r == Finish(c, TRUE, x.outcome)
  <2>1. Leads(c, r, "release", FALSE, x.outcome) /\ r.destroy BY <1>2, <1>3, Exits
  <2>2. call' = [call EXCEPT ![c] = r] BY <1>4, <1>7
  <2> HIDE DEF r
  <2>3. Follows(c, r) BY <2>1 DEF Leads, Follows, Holding
  <2>6. WrittenBy(c, r) = WrittenBy(c, x) BY <2>1 DEF Leads, WrittenBy
  <2>5. Ending(c, r, q.b, durable, volatile) BY <1>3, <1>5, <2>1, <2>6 DEF Leads, Ending
  <2>4. Fits(c, r, q.b, durable, volatile) BY <1>2, <1>3, <2>1, <2>5, EndingFits DEF Leads
  <2> QED BY <1>1, <1>4, <1>5, <2>2, <2>3, <2>4, AsksOnly
<1> QED BY <1>6, <1>7

LEMMA CommitKeeps ==
    ASSUME StoreInv, NEW c \in Calls, Commit(c)
    PROVE  StoreInv'
<1> DEFINE x == call[c]
           b == backend[call[c].slot]
<1>1. Holding(x) /\ ~Running(x) /\ x.pc = "commit" BY DEF Commit, Holding, Running
<1>2. /\ x \in CallType /\ x.attempt \in 1 .. MaxAttempts /\ Proper(b)
      /\ Fits(c, x, b, durable, volatile)
  BY <1>1, Connected
<1>3. /\ Queued(c, x) /\ Idle(x.cap)
      /\ Unseen(c, durable, volatile) /\ ~x.retry /\ (b.up => b.sync)
      /\ ~b.up \/ (Intact(b) /\ b.writes = WrittenBy(c, x))
  BY <1>1, <1>2 DEF Fits, Queued, Idle, Committing, Ending
<1>4. PICK q \in Outcomes(b, "COMMIT", <<>>) :
         /\ Query(c, q)
         /\ call' = [call EXCEPT ![c] = CASE q.reply = "COMMIT" -> ResetAndRelease(c, "committed")
                                 [] q.reply = "ROLLBACK" -> ResetAndRelease(c, "not-committed")
                                 [] q.reply = "retryable" -> AfterServerRollback(c)
                                 [] OTHER -> FailUncertain(c)]
         /\ pool' = pool
  BY DEF Commit, OutcomesOf, Set
<1>5. /\ Proper(q.b) /\ q.b.writes \subseteq b.writes /\ q.stored \subseteq b.writes
      /\ q.reply = "COMMIT" =>
            q.stored = b.writes /\ Intact(b) /\ q.sync /\ q.b.tx = "none" /\ b.up
      /\ q.reply # "ROLLBACK"
      /\ q.reply = "retryable" => q.stored = {} /\ q.b.tx = "none"
  BY <1>2, <1>3, CommitOutcome
<1>9. /\ Own(c, call[c].attempt, b.writes)
      /\ Own(c, call[c].attempt, q.b.writes) /\ Own(c, call[c].attempt, q.stored)
  BY <1>1, <1>5, Connected DEF Own
<1>6. CASE q.reply = "COMMIT"
  <2> DEFINE r == ResetAndRelease(c, "committed")
  <2>1. Leads(c, r, "reset", x.retry, "committed") BY <1>2, Exits
  <2>2. call' = [call EXCEPT ![c] = r] BY <1>4, <1>6
  <2> HIDE DEF r
  <2>3. Follows(c, r) BY <2>1 DEF Leads, Follows, Holding
  <2>6. WrittenBy(c, r) = b.writes BY <1>3, <1>5, <1>6, <2>1 DEF Leads, WrittenBy
  <2>7. durable' = durable \cup b.writes /\ volatile' = volatile
    BY <1>4, <1>5, <1>6 DEF Query
  <2>8. {w \in durable' : w[1] = c} = b.writes /\ \A w \in volatile' : w[1] # c
    BY <1>3, <1>9, <2>7 DEF Own, Unseen
  <2>5. Ending(c, r, q.b, durable', volatile')
    BY <1>3, <1>5, <1>6, <2>1, <2>6, <2>8 DEF Leads, Ending
  <2>4. Fits(c, r, q.b, durable', volatile') BY <1>2, <1>3, <2>1, <2>5, EndingFits DEF Leads
  <2> QED BY <1>1, <1>4, <1>5, <1>9, <2>2, <2>3, <2>4, Asks
<1>7. CASE q.reply = "retryable"
  <2> DEFINE r == AfterServerRollback(c)
  <2>1. Leads(c, r, "release", TRUE, "not-committed") /\ r.destroy BY <1>2, Exits
  <2>2. call' = [call EXCEPT ![c] = r] BY <1>4, <1>7
  <2> HIDE DEF r
  <2>3. Follows(c, r) BY <2>1 DEF Leads, Follows, Holding
  <2>7. durable' = durable /\ volatile' = volatile BY <1>4, <1>5, <1>7 DEF Query
  <2>5. Ending(c, r, q.b, durable', volatile')
    BY <1>3, <1>5, <1>7, <2>1, <2>7 DEF Leads, Ending
  <2>4. Fits(c, r, q.b, durable', volatile') BY <1>2, <1>3, <2>1, <2>5, EndingFits DEF Leads
  <2> QED BY <1>1, <1>4, <1>5, <1>9, <2>2, <2>3, <2>4, Asks
<1>8. CASE q.reply \notin {"COMMIT", "ROLLBACK", "retryable"}
  <2> DEFINE r == FailUncertain(c)
  <2>1. Leads(c, r, "abandon", FALSE, "uncertain") BY <1>2, Exits
  <2>2. call' = [call EXCEPT ![c] = r] BY <1>4, <1>8
  <2> HIDE DEF r
  <2>3. Follows(c, r) BY <2>1 DEF Leads, Follows, Holding
  <2>5. Ending(c, r, q.b, durable', volatile') BY <2>1 DEF Leads, Ending
  <2>4. Fits(c, r, q.b, durable', volatile') BY <1>2, <1>3, <2>1, <2>5, EndingFits DEF Leads
  <2> QED BY <1>1, <1>4, <1>5, <1>9, <2>2, <2>3, <2>4, Asks
<1> QED BY <1>5, <1>6, <1>7, <1>8

LEMMA FreshCapability == NewCapability \in CapType /\ Closed \in CapType
<1>1. <<>> \in Seq(Kinds) /\ <<>> \in Seq(Nat)
  OBVIOUS
<1>2. NewCapability \in CapType BY <1>1 DEF NewCapability, CapType
<1> QED BY <1>2 DEF Closed, CapType

LEMMA StampKeeps ==
    ASSUME StoreInv, NEW c \in Calls, Stamp(c)
    PROVE  StoreInv'
<1> DEFINE x == call[c]
           b == backend[call[c].slot]
<1>1. Holding(x) /\ ~Running(x) /\ x.pc = "stamp" BY DEF Stamp, Holding, Running
<1>2. /\ x \in CallType /\ x.attempt \in 1 .. MaxAttempts /\ Proper(b)
      /\ Fits(c, x, b, durable, volatile)
  BY <1>1, Connected
<1>3. /\ Queued(c, x) /\ Idle(x.cap)
      /\ Unseen(c, durable, volatile) /\ ~x.retry
      /\ ~b.up \/ (Intact(b) /\ b.writes = {})
  BY <1>1, <1>2 DEF Fits, Queued, Idle, Beginning, Ending
<1>4. PICK q \in Outcomes(b, "XID", <<>>) :
         /\ Query(c, q)
         /\ call' = [call EXCEPT ![c] = IF q.reply = "ok"
                                        THEN [Goto(c, "callback") EXCEPT !.cap = NewCapability]
                                        ELSE RollbackAndRelease(c, FALSE)]
         /\ pool' = pool
  BY DEF Stamp, OutcomesOf, Set
<1>5. /\ Proper(q.b) /\ q.b.writes \subseteq b.writes /\ q.stored = {}
      /\ q.b.tx = "committing" => b.tx = "committing"
      /\ q.reply = "ok" => q.b = b /\ Intact(b)
      /\ q.reply = "retryable" => Intact(b) /\ q.b.tx = "aborted"
  BY <1>2, <1>3, XidOutcome
<1>6. CASE q.reply = "ok"
  <2> DEFINE r == [Goto(c, "callback") EXCEPT !.cap = NewCapability]
  <2>1. /\ r \in CallType /\ r.pc = "callback" /\ r.cap = NewCapability /\ ~r.retry
        /\ r.slot = x.slot /\ r.attempt = x.attempt
    <3> DEFINE g == Goto(c, "callback")
    <3>1. Leads(c, g, "callback", x.retry, x.outcome) BY <1>2, Exits DEF Pcs
    <3> HIDE DEF g
    <3>2. r = [g EXCEPT !.cap = NewCapability] BY DEF g
    <3> HIDE DEF r
    <3> QED BY <1>3, <3>1, <3>2, FreshCapability DEF Leads, CallType
  <2>2. call' = [call EXCEPT ![c] = r] BY <1>4, <1>6
  <2> HIDE DEF r
  <2>3. Follows(c, r) BY <2>1 DEF Follows, Holding
  <2>4. Fits(c, r, q.b, durable, volatile)
    <3>1. Queued(c, r) /\ WrittenWith(c, r.attempt, r.cap, SentSoFar(r.cap)) = {}
      BY <2>1, StoreAssumption DEF Queued, Orderly, Running, NewCapability, WrittenWith,
         SentSoFar
    <3>2. q.b.tx = "open" /\ q.b.own /\ q.b.writes = {}
      BY <1>2, <1>3, <1>5, <1>6 DEF Intact, Proper, Sane
    <3>3. InCallback(c, r, q.b, durable, volatile)
      BY <1>3, <2>1, <3>1, <3>2 DEF InCallback, Serves, NewCapability, Intact
    <3> QED BY <1>2, <2>1, <3>1, <3>3 DEF Fits, Beginning, Committing, Ending
  <2> QED BY <1>1, <1>4, <1>5, <2>2, <2>3, <2>4, AsksOnly
<1>7. CASE q.reply # "ok"
  <2> DEFINE r == RollbackAndRelease(c, FALSE)
  <2>1. Leads(c, r, "rollback", FALSE, "not-committed") BY <1>2, Exits
  <2>2. call' = [call EXCEPT ![c] = r] BY <1>4, <1>7
  <2> HIDE DEF r
  <2>3. Follows(c, r) BY <2>1 DEF Leads, Follows, Holding
  <2>6. q.b.tx # "committing" BY <1>2, <1>3, <1>5 DEF Intact, Proper, Sane
  <2>5. Ending(c, r, q.b, durable, volatile) BY <1>3, <2>1, <2>6 DEF Leads, Ending
  <2>4. Fits(c, r, q.b, durable, volatile) BY <1>2, <1>3, <2>1, <2>5, EndingFits DEF Leads
  <2> QED BY <1>1, <1>4, <1>5, <2>2, <2>3, <2>4, AsksOnly
<1> QED BY <1>6, <1>7

LEMMA AbandonKeeps ==
    ASSUME StoreInv, NEW c \in Calls, Abandon(c)
    PROVE  StoreInv'
<1> DEFINE x == call[c]
           b == backend[call[c].slot]
           r == Finish(c, TRUE, "uncertain")
<1>1. Holding(x) /\ ~Running(x) /\ x.pc = "abandon" BY DEF Abandon, Holding, Running
<1>2. /\ x \in CallType /\ x.attempt \in 1 .. MaxAttempts /\ Proper(b)
      /\ Fits(c, x, b, durable, volatile)
  BY <1>1, Connected
<1>3. Queued(c, x) /\ Idle(x.cap) BY <1>1, <1>2 DEF Fits, Queued, Idle
<1>4. Leads(c, r, "release", FALSE, "uncertain") /\ r.destroy BY <1>2, Exits
<1>5. call' = [call EXCEPT ![c] = r] /\ pool' = pool BY DEF Abandon, Set
<1> HIDE DEF r
<1>6. Follows(c, r) BY <1>4, LeadsOn
<1>7. ASSUME NEW e PROVE Fits(c, r, e, durable, volatile)
  <2>1. Ending(c, r, e, durable, volatile) BY <1>4 DEF Leads, Ending
  <2> QED BY <1>2, <1>3, <1>4, <2>1, EndingFits DEF Leads
<1>8. CASE x.cap.unsafe
  <2>1. UNCHANGED <<pool, backend, durable, volatile>> BY <1>8 DEF Abandon
  <2>2. Fits(c, r, b, durable, volatile) BY <1>7
  <2> QED BY <1>1, <1>5, <1>6, <2>1, <2>2, Silent
<1>9. CASE ~x.cap.unsafe
  <2>1. PICK q \in Outcomes(b, "ROLLBACK", <<>>) : Query(c, q)
    BY <1>9 DEF Abandon, OutcomesOf
  <2>2. Proper(q.b) /\ q.b.writes \subseteq b.writes /\ q.stored = {}
    BY <1>2, RollbackOutcome
  <2>3. Fits(c, r, q.b, durable, volatile) BY <1>7
  <2> QED BY <1>1, <1>5, <1>6, <2>1, <2>2, <2>3, AsksOnly
<1> QED BY <1>8, <1>9

-----------------------------------------------------------------------------
(* The callback and its queries.                                           *)

LEMMA RunningIs ==
    ASSUME StoreInv, NEW c \in Calls,
           Running(call[c]) \/ call[c].cap.active \/ call[c].cap.queue # <<>> \/ call[c].cap.ran
    PROVE  /\ Running(call[c]) /\ Holding(call[c]) /\ ~call[c].retry
           /\ call[c] \in CallType /\ call[c].slot \in Slots /\ call[c].cap \in CapType
           /\ call[c].attempt \in 1 .. MaxAttempts
           /\ Proper(backend[call[c].slot])
           /\ Own(c, call[c].attempt, backend[call[c].slot].writes)
           /\ Queued(c, call[c])
           /\ InCallback(c, call[c], backend[call[c].slot], durable, volatile)
<1>1. Fits(c, call[c], backend[call[c].slot], durable, volatile) BY DEF StoreInv
<1>2. Running(call[c]) BY <1>1 DEF Fits, Queued, Idle
<1>3. Holding(call[c]) BY <1>2 DEF Holding, Running
<1>4. ~call[c].retry BY <1>1, <1>2 DEF Fits, Ending, Running
<1>5. /\ call[c] \in CallType /\ call[c].slot \in Slots
      /\ call[c].attempt \in 1 .. MaxAttempts
      /\ Proper(backend[call[c].slot])
      /\ Own(c, call[c].attempt, backend[call[c].slot].writes)
  BY <1>3, Connected
<1>6. call[c].cap \in CapType BY <1>5 DEF CallType
<1> QED BY <1>1, <1>2, <1>3, <1>4, <1>5, <1>6 DEF Fits

LEMMA RunningFits ==
    ASSUME NEW c, NEW r, NEW b, NEW D, NEW V, Running(r), ~r.retry,
           r.attempt \in 1 .. MaxAttempts, Queued(c, r), InCallback(c, r, b, D, V)
    PROVE  Fits(c, r, b, D, V)
BY DEF Fits, Running, Beginning, Committing, Ending

\* SetCapability
LEMMA WithCapability ==
    ASSUME StoreInv, NEW c \in Calls, Running(call[c]), NEW cap \in CapType,
           SetCapability(c, cap)
    PROVE  LET r == [call[c] EXCEPT !.cap = cap] IN
           /\ call' = [call EXCEPT ![c] = r]
           /\ Follows(c, r) /\ Running(r) /\ r.cap = cap /\ r.pc = call[c].pc
           /\ r.retry = call[c].retry
<1>1. call[c] \in CallType BY DEF StoreInv, StoreTypeOK
<1>2. call' = [call EXCEPT ![c] = [call[c] EXCEPT !.cap = cap]] BY DEF SetCapability
<1> DEFINE r == [call[c] EXCEPT !.cap = cap]
<1>3. /\ r \in CallType /\ r.cap = cap /\ r.pc = call[c].pc /\ r.retry = call[c].retry
      /\ r.slot = call[c].slot /\ r.attempt = call[c].attempt
  BY <1>1 DEF CallType
<1> HIDE DEF r
<1>4. Follows(c, r) /\ Running(r) BY <1>3 DEF Follows, Holding, Running
<1> QED BY <1>2, <1>3, <1>4 DEF r

\* A step that changes the capability and sends no statement.
LEMMA CapabilitySilent ==
    ASSUME StoreInv, NEW c \in Calls, Running(call[c]), NEW cap \in CapType,
           SetCapability(c, cap), UNCHANGED <<pool, backend, durable, volatile>>,
           Orderly(c, cap), call[c].pc = "draining" => ~cap.active,
           Serves(c, call[c].attempt, cap, backend[call[c].slot], durable, volatile)
    PROVE  StoreInv'
<1> DEFINE r == [call[c] EXCEPT !.cap = cap]
<1>1. /\ call' = [call EXCEPT ![c] = r]
      /\ Follows(c, r) /\ Running(r) /\ r.cap = cap /\ r.pc = call[c].pc
      /\ r.retry = call[c].retry
  BY WithCapability
<1> HIDE DEF r
<1>2. r.attempt \in 1 .. MaxAttempts /\ ~r.retry /\ r.attempt = call[c].attempt
      /\ Holding(call[c])
  BY <1>1, RunningIs DEF Follows
<1>3. Queued(c, r) /\ InCallback(c, r, backend[call[c].slot], durable, volatile)
  BY <1>1, <1>2 DEF Queued, InCallback
<1>4. Fits(c, r, backend[call[c].slot], durable, volatile) BY <1>1, <1>2, <1>3, RunningFits
<1> QED BY <1>1, <1>2, <1>4, Silent

\* A step that sends one.
LEMMA CapabilityAsks ==
    ASSUME StoreInv, NEW c \in Calls, Running(call[c]), NEW cap \in CapType,
           SetCapability(c, cap), pool' = pool, NEW q, Query(c, q), Proper(q.b),
           Own(c, call[c].attempt, q.b.writes), Own(c, call[c].attempt, q.stored),
           Orderly(c, cap), call[c].pc = "draining" => ~cap.active,
           Serves(c, call[c].attempt, cap, q.b, durable', volatile')
    PROVE  StoreInv'
<1> DEFINE r == [call[c] EXCEPT !.cap = cap]
<1>1. /\ call' = [call EXCEPT ![c] = r]
      /\ Follows(c, r) /\ Running(r) /\ r.cap = cap /\ r.pc = call[c].pc
      /\ r.retry = call[c].retry
  BY WithCapability
<1> HIDE DEF r
<1>2. r.attempt \in 1 .. MaxAttempts /\ ~r.retry /\ r.attempt = call[c].attempt
      /\ Holding(call[c])
  BY <1>1, RunningIs DEF Follows
<1>3. Queued(c, r) /\ InCallback(c, r, q.b, durable', volatile')
  BY <1>1, <1>2 DEF Queued, InCallback
<1>4. Fits(c, r, q.b, durable', volatile') BY <1>1, <1>2, <1>3, RunningFits
<1> QED BY <1>1, <1>2, <1>4, Asks

LEMMA AppendIs ==
    ASSUME NEW S, NEW s \in Seq(S), NEW e \in S
    PROVE  /\ Append(s, e) \in Seq(S) /\ Len(s) \in Nat
           /\ Len(Append(s, e)) = Len(s) + 1 /\ Append(s, e)[Len(s) + 1] = e
           /\ \A i \in 1 .. Len(s) : Append(s, e)[i] = s[i]
OBVIOUS

LEMMA TailIs ==
    ASSUME NEW S, NEW s \in Seq(S), s # <<>>
    PROVE  /\ Tail(s) \in Seq(S) /\ Len(s) \in Nat /\ Len(s) > 0
           /\ Head(s) = s[1] /\ Len(Tail(s)) = Len(s) - 1
           /\ \A i \in 1 .. Len(Tail(s)) : Tail(s)[i] = s[i + 1]
OBVIOUS

\* The numbers in a queue of q queries out of i.
Numbered(queue, q, i) == \A k \in 1 .. q : queue[k] = i - q + k

LEMMA NumberedFirst ==
    ASSUME NEW queue, NEW q \in Nat, q > 0, NEW i \in Nat, Numbered(queue, q, i)
    PROVE  queue[1] = i - q + 1
BY DEF Numbered

LEMMA FirstBounds ==
    ASSUME NEW q \in Nat, q > 0, NEW i \in Nat, NEW m \in Nat, q <= i, i <= m
    PROVE  i - q + 1 \in 1 .. i /\ i - q + 1 \in 1 .. m
OBVIOUS

LEMMA NumberedGrows ==
    ASSUME NEW old, NEW new, NEW q \in Nat, NEW i \in Nat, Numbered(old, q, i),
           \A k \in 1 .. q : new[k] = old[k], new[q + 1] = i + 1
    PROVE  Numbered(new, q + 1, i + 1)
BY DEF Numbered

LEMMA NumberedShrinks ==
    ASSUME NEW old, NEW new, NEW q \in Nat, q > 0, NEW i \in Nat, Numbered(old, q, i),
           \A k \in 1 .. q - 1 : new[k] = old[k + 1]
    PROVE  Numbered(new, q - 1, i)
BY DEF Numbered

LEMMA EnqueueKeeps ==
    ASSUME StoreInv, NEW c \in Calls, Enqueue(c)
    PROVE  StoreInv'
<1> DEFINE cap == call[c].cap
           b == backend[call[c].slot]
<1>1. cap.active BY DEF Enqueue
<1>2. /\ Running(call[c]) /\ cap \in CapType /\ Queued(c, call[c])
      /\ InCallback(c, call[c], b, durable, volatile)
  BY <1>1, RunningIs
<1>3. Orderly(c, cap) /\ Serves(c, call[c].attempt, cap, b, durable, volatile)
  BY <1>2 DEF Queued, InCallback
<1>4. call[c].pc # "draining" BY <1>1, <1>2 DEF Queued
<1>5. PICK kind \in Kinds :
         SetCapability(c, [cap EXCEPT !.issued = Append(@, kind),
                                      !.queue = Append(@, Len(cap.issued) + 1)])
  BY DEF Enqueue
<1> DEFINE n == [cap EXCEPT !.issued = Append(@, kind),
                            !.queue = Append(@, Len(cap.issued) + 1)]
<1>6. Len(cap.issued) < MaxQueries[c] /\ MaxQueries[c] \in Nat
  BY StoreAssumption DEF Enqueue
<1>7. UNCHANGED <<pool, backend, durable, volatile>> BY DEF Enqueue
<1> HIDE DEF cap, b
<1>8. /\ n \in CapType
      /\ n.issued = Append(cap.issued, kind) /\ n.queue = Append(cap.queue, Len(cap.issued) + 1)
      /\ n.ran = cap.ran /\ n.lost = cap.lost /\ n.rolledBack = cap.rolledBack
      /\ n.terminal = cap.terminal /\ n.first = cap.first
  <2>1. cap.issued \in Seq(Kinds) /\ cap.queue \in Seq(Nat) BY <1>2 DEF CapType
  <2>2. /\ Append(cap.issued, kind) \in Seq(Kinds)
        /\ Append(cap.queue, Len(cap.issued) + 1) \in Seq(Nat)
    BY <2>1
  <2> QED BY <1>2, <2>2 DEF CapType
<1>9. SetCapability(c, n) BY <1>5
<1> HIDE DEF n
<1>10. cap.issued \in Seq(Kinds) /\ cap.queue \in Seq(Nat) BY <1>2 DEF CapType
<1>11. /\ Len(cap.issued) \in Nat /\ Len(cap.queue) \in Nat
       /\ Len(n.issued) = Len(cap.issued) + 1 /\ Len(n.queue) = Len(cap.queue) + 1
  BY <1>8, <1>10, AppendIs
<1>14. \A i \in 1 .. Len(cap.issued) : n.issued[i] = cap.issued[i] BY <1>8, <1>10, AppendIs
<1>15. /\ \A i \in 1 .. Len(cap.queue) : n.queue[i] = cap.queue[i]
       /\ n.queue[Len(cap.queue) + 1] = Len(cap.issued) + 1
  BY <1>8, <1>10, <1>11, AppendIs
<1>12. Orderly(c, n)
  <2>1. Numbered(n.queue, Len(n.queue), Len(n.issued))
    <3>1. Numbered(cap.queue, Len(cap.queue), Len(cap.issued)) BY <1>3 DEF Orderly, Numbered
    <3>2. Numbered(n.queue, Len(cap.queue) + 1, Len(cap.issued) + 1)
      BY <1>11, <1>15, <3>1, NumberedGrows
    <3> QED BY <1>11, <3>2
  <2>2. n.queue # <<>> BY <1>11
  <2>3. Len(n.queue) <= Len(n.issued) /\ Len(n.issued) <= MaxQueries[c]
    BY <1>3, <1>6, <1>11 DEF Orderly
  <2> QED BY <1>3, <1>8, <2>1, <2>2, <2>3 DEF Orderly, Numbered
<1>13. Serves(c, call[c].attempt, n, b, durable, volatile)
  <2>1. SentSoFar(n) = SentSoFar(cap) /\ SentSoFar(cap) \in 0 .. Len(cap.issued)
    <3>1. cap.ran => Len(cap.queue) > 0 BY <1>3, <1>10 DEF Orderly
    <3>2. Len(cap.queue) <= Len(cap.issued) BY <1>3 DEF Orderly
    <3>3. n.ran = cap.ran BY <1>8
    <3>4. PICK i \in Nat, q \in Nat : i = Len(cap.issued) /\ q = Len(cap.queue) BY <1>11
    <3>5. /\ SentSoFar(cap) = i - q + (IF cap.ran THEN 1 ELSE 0)
          /\ SentSoFar(n) = (i + 1) - (q + 1) + (IF cap.ran THEN 1 ELSE 0)
      BY <1>11, <3>3, <3>4 DEF SentSoFar
    <3>6. q <= i /\ (cap.ran => q > 0) BY <3>1, <3>2, <3>4
    <3>7. SentSoFar(n) = SentSoFar(cap) /\ SentSoFar(cap) \in 0 .. i BY <3>5, <3>6
    <3> QED BY <3>4, <3>7
  <2>2. \A k \in 0 .. Len(cap.issued) :
           WrittenWith(c, call[c].attempt, n, k) = WrittenWith(c, call[c].attempt, cap, k)
    BY <1>14 DEF WrittenWith
  <2> QED BY <1>3, <1>8, <2>1, <2>2 DEF Serves, Blocked
<1> QED BY <1>2, <1>4, <1>7, <1>8, <1>9, <1>12, <1>13, CapabilitySilent DEF b

\* The facts about the first query of the queue.
LEMMA FirstQuery ==
    ASSUME NEW c \in Calls, NEW cap \in CapType, Orderly(c, cap), cap.queue # <<>>
    PROVE  LET n == Head(cap.queue) IN
           /\ n = Len(cap.issued) - Len(cap.queue) + 1 /\ n \in 1 .. Len(cap.issued)
           /\ cap.issued[n] \in Kinds /\ n \in 1 .. MaxQueries[c]
           /\ Len(cap.queue) \in Nat \ {0} /\ Len(cap.issued) \in Nat
<1>1. cap.queue \in Seq(Nat) /\ cap.issued \in Seq(Kinds) BY DEF CapType
<1>2. /\ Len(cap.queue) \in Nat \ {0} /\ Len(cap.issued) \in Nat
      /\ Head(cap.queue) = cap.queue[1]
  BY <1>1
<1>3. MaxQueries[c] \in Nat BY StoreAssumption
<1>4. /\ cap.queue[1] = Len(cap.issued) - Len(cap.queue) + 1
      /\ Len(cap.queue) <= Len(cap.issued) /\ Len(cap.issued) <= MaxQueries[c]
  <2>1. Numbered(cap.queue, Len(cap.queue), Len(cap.issued)) BY DEF Orderly, Numbered
  <2>2. PICK i \in Nat, q \in Nat : i = Len(cap.issued) /\ q = Len(cap.queue) /\ q > 0
    BY <1>2
  <2>3. cap.queue[1] = i - q + 1 BY <2>1, <2>2, NumberedFirst
  <2> QED BY <2>2, <2>3 DEF Orderly
<1>5. \A i \in 1 .. Len(cap.issued) : cap.issued[i] \in Kinds BY <1>1
<1> DEFINE n == Len(cap.issued) - Len(cap.queue) + 1
<1>6. n \in 1 .. Len(cap.issued) /\ n \in 1 .. MaxQueries[c]
  <2>1. PICK i \in Nat, q \in Nat : i = Len(cap.issued) /\ q = Len(cap.queue) /\ q > 0
    BY <1>2
  <2>2. n = i - q + 1 /\ q <= i /\ i <= MaxQueries[c] BY <1>4, <2>1
  <2>3. n \in 1 .. i /\ n \in 1 .. MaxQueries[c] BY <1>3, <2>1, <2>2, FirstBounds
  <2> QED BY <2>1, <2>3
<1> HIDE DEF n
<1>7. Head(cap.queue) = n BY <1>2, <1>4 DEF n
<1> QED BY <1>2, <1>5, <1>6, <1>7 DEF n

\* Settled, with its own and the other fields of the capability.
LEMMA SettledShape ==
    ASSUME NEW cap \in CapType, cap.queue # <<>>
    PROVE  /\ Settled(cap) \in CapType
           /\ Settled(cap).queue = Tail(cap.queue) /\ ~Settled(cap).ran
           /\ Settled(cap).issued = cap.issued /\ Settled(cap).active = cap.active
           /\ Settled(cap).lost = cap.lost /\ Settled(cap).rolledBack = cap.rolledBack
           /\ Settled(cap).terminal = cap.terminal /\ Settled(cap).first = cap.first
<1>1. cap.queue \in Seq(Nat) BY DEF CapType
<1>2. Tail(cap.queue) \in Seq(Nat) BY <1>1
<1> QED BY <1>2 DEF Settled, CapType

\* The first query settles; t is the capability with what its answer marked.
LEMMA SettledOrderly ==
    ASSUME NEW c \in Calls, NEW cap \in CapType, Orderly(c, cap), cap.queue # <<>>,
           NEW t \in CapType, t.queue = cap.queue, t.issued = cap.issued,
           t.first = "none" /\ ~t.lost => ~t.terminal
    PROVE  /\ Orderly(c, Settled(t))
           /\ SentSoFar(Settled(t)) = Len(cap.issued) - Len(cap.queue) + 1
<1> DEFINE s == Settled(t)
<1>1. /\ s \in CapType /\ s.queue = Tail(cap.queue) /\ ~s.ran
      /\ s.issued = cap.issued /\ s.lost = t.lost /\ s.rolledBack = t.rolledBack
      /\ s.terminal = t.terminal /\ s.first = t.first
  BY SettledShape
<1> HIDE DEF s
<1>2. cap.queue \in Seq(Nat) /\ cap.issued \in Seq(Kinds) BY DEF CapType
<1>3. /\ Len(cap.queue) \in Nat /\ Len(cap.queue) > 0 /\ Len(cap.issued) \in Nat
      /\ Len(s.queue) = Len(cap.queue) - 1 /\ Len(s.issued) = Len(cap.issued)
  BY <1>1, <1>2, TailIs
<1>7. \A i \in 1 .. Len(cap.queue) - 1 : s.queue[i] = cap.queue[i + 1] BY <1>1, <1>2, TailIs
<1>4. Numbered(s.queue, Len(s.queue), Len(s.issued))
  <2>1. Numbered(cap.queue, Len(cap.queue), Len(cap.issued)) BY DEF Orderly, Numbered
  <2>2. Numbered(s.queue, Len(cap.queue) - 1, Len(cap.issued))
    BY <1>3, <1>7, <2>1, NumberedShrinks
  <2> QED BY <1>3, <2>2
<1>8. Len(s.queue) <= Len(s.issued) /\ Len(s.issued) <= MaxQueries[c] BY <1>3 DEF Orderly
<1>5. Orderly(c, s) BY <1>1, <1>4, <1>8 DEF Orderly, Numbered
<1>9. ~s.ran BY <1>1
<1>6. SentSoFar(s) = Len(cap.issued) - Len(cap.queue) + 1 BY <1>3, <1>9 DEF SentSoFar
<1> QED BY <1>5, <1>6 DEF s

\* What marking an error does to a capability.
Marked(cap, t) ==
    /\ t \in CapType /\ t.terminal /\ t.queue = cap.queue /\ t.issued = cap.issued
    /\ t.ran = cap.ran /\ t.active = cap.active /\ t.rolledBack = cap.rolledBack

LEMMA MarkLocalShape ==
    ASSUME NEW cap \in CapType
    PROVE  LET t == MarkLocalQueryError(cap) IN
           Marked(cap, t) /\ t.first # "none" /\ t.lost = cap.lost
<1>1. cap.first \in {"none", "local", "rejected", "retryable"} BY DEF CapType
<1> QED BY <1>1 DEF MarkLocalQueryError, Marked, CapType

LEMMA MarkQueryShape ==
    ASSUME NEW cap \in CapType, NEW reply \in {"rejected", "retryable", "unknown"},
           NEW unsafe \in BOOLEAN
    PROVE  LET t == [MarkQueryError(cap, reply) EXCEPT !.unsafe = unsafe,
                                                       !.lost = @ \/ unsafe] IN
           /\ Marked(cap, t)
           /\ reply = "unknown" => t.lost
           /\ reply # "unknown" => t.first # "none"
<1>1. cap.first \in {"none", "local", "rejected", "retryable"} BY DEF CapType
<1> DEFINE m == MarkQueryError(cap, reply)
<1>2. /\ Marked(cap, m) /\ (reply = "unknown" => m.lost = TRUE)
      /\ reply # "unknown" => m.first # "none"
  BY <1>1 DEF MarkQueryError, Marked, CapType
<1> HIDE DEF m
<1> DEFINE t == [m EXCEPT !.unsafe = unsafe, !.lost = @ \/ unsafe]
<1>3. m.lost \in BOOLEAN BY <1>2 DEF Marked, CapType
<1>4. m.lost \/ unsafe \in BOOLEAN BY <1>3
<1>5. t \in CapType BY <1>2, <1>4 DEF Marked, CapType
<1>6. /\ t.terminal = m.terminal /\ t.queue = m.queue /\ t.issued = m.issued
      /\ t.ran = m.ran /\ t.active = m.active /\ t.rolledBack = m.rolledBack
      /\ t.first = m.first
  BY <1>2 DEF Marked, CapType
<1>7. reply = "unknown" => t.lost BY <1>2 DEF Marked, CapType
<1>8. Marked(cap, t) BY <1>2, <1>5, <1>6 DEF Marked
<1> QED BY <1>2, <1>6, <1>7, <1>8 DEF m

LEMMA RefuseLocallyKeeps ==
    ASSUME StoreInv, NEW c \in Calls, RefuseLocally(c)
    PROVE  StoreInv'
<1> DEFINE cap == call[c].cap
           b == backend[call[c].slot]
           t == MarkLocalQueryError(cap)
<1>1. cap.active /\ SetCapability(c, t) /\ UNCHANGED <<pool, backend, durable, volatile>>
  BY DEF RefuseLocally
<1>2. /\ Running(call[c]) /\ cap \in CapType /\ Queued(c, call[c])
      /\ InCallback(c, call[c], b, durable, volatile)
  BY <1>1, RunningIs
<1>3. Marked(cap, t) /\ t.first # "none" /\ t.lost = cap.lost BY <1>2, MarkLocalShape
<1>4. /\ Orderly(c, cap) /\ Serves(c, call[c].attempt, cap, b, durable, volatile)
      /\ call[c].pc = "draining" => ~cap.active
  BY <1>2 DEF Queued, InCallback
<1> HIDE DEF t, cap
<1>5. Orderly(c, t) BY <1>3, <1>4 DEF Marked, Orderly
<1>6. Serves(c, call[c].attempt, t, b, durable, volatile)
  BY <1>3, <1>4 DEF Marked, Serves, Blocked
<1>7. t \in CapType /\ (call[c].pc = "draining" => ~t.active) BY <1>3, <1>4 DEF Marked
<1> QED BY <1>1, <1>2, <1>5, <1>6, <1>7, CapabilitySilent

\* A query that settles without an answer of its own.
LEMMA SettlesBlocked ==
    ASSUME NEW c \in Calls, NEW n, NEW cap \in CapType, NEW t \in CapType, NEW b, NEW D, NEW V,
           Orderly(c, cap), cap.queue # <<>>, ~cap.ran, Blocked(t),
           t.queue = cap.queue, t.issued = cap.issued, t.active = cap.active,
           t.rolledBack = cap.rolledBack, t.lost = cap.lost,
           t.first = "none" /\ ~t.lost => ~t.terminal,
           Serves(c, n, cap, b, D, V)
    PROVE  /\ Settled(t) \in CapType /\ Settled(t).active = cap.active
           /\ Orderly(c, Settled(t)) /\ Serves(c, n, Settled(t), b, D, V)
<1>1. /\ Settled(t) \in CapType /\ ~Settled(t).ran /\ Settled(t).active = cap.active
      /\ Settled(t).lost = t.lost /\ Settled(t).rolledBack = t.rolledBack
      /\ Settled(t).terminal = t.terminal
  BY SettledShape
<1>2. Orderly(c, Settled(t)) BY SettledOrderly
<1>3. Blocked(Settled(t)) BY <1>1 DEF Blocked
<1>4. Serves(c, n, Settled(t), b, D, V) BY <1>1, <1>3 DEF Serves
<1> QED BY <1>1, <1>2, <1>4

\* The writes of the first n queries are those of the first n - 1 and the last.
LEMMA OneMoreWrite ==
    ASSUME NEW c, NEW a, NEW cap, NEW n \in Nat \ {0}
    PROVE  WrittenWith(c, a, cap, n) =
              IF cap.issued[n] = "write" THEN WrittenWith(c, a, cap, n - 1) \cup {<<c, a, n>>}
              ELSE WrittenWith(c, a, cap, n - 1)
<1>1. \A i : i \in 1 .. n <=> i \in 1 .. n - 1 \/ i = n
  OBVIOUS
<1> QED BY <1>1 DEF WrittenWith

LEMMA SendQueryKeeps ==
    ASSUME StoreInv, NEW c \in Calls, SendQuery(c)
    PROVE  StoreInv'
<1> DEFINE cap == call[c].cap
           a == call[c].attempt
           b == backend[call[c].slot]
           n == Head(cap.queue)
           kind == cap.issued[n]
           w == <<c, a, n>>
<1>1. cap.queue # <<>> /\ ~cap.ran /\ pool' = pool BY DEF SendQuery
<1>2. /\ Running(call[c]) /\ cap \in CapType /\ Queued(c, call[c]) /\ a \in 1 .. MaxAttempts
      /\ InCallback(c, call[c], b, durable, volatile) /\ Proper(b) /\ Own(c, a, b.writes)
  BY <1>1, RunningIs
<1>3. /\ Orderly(c, cap) /\ Serves(c, a, cap, b, durable, volatile)
      /\ call[c].pc = "draining" => ~cap.active
  BY <1>2 DEF Queued, InCallback
<1>4. /\ n = Len(cap.issued) - Len(cap.queue) + 1 /\ kind \in Kinds
      /\ n \in 1 .. Len(cap.issued)
      /\ Len(cap.queue) \in Nat \ {0} /\ Len(cap.issued) \in Nat
  BY <1>1, <1>2, <1>3, FirstQuery
<1>5. CASE /\ Blocked(cap) /\ SetCapability(c, Settled(cap))
           /\ UNCHANGED <<backend, durable, volatile>>
  <2> HIDE DEF cap
  <2>1. /\ Settled(cap) \in CapType /\ Settled(cap).active = cap.active
        /\ Orderly(c, Settled(cap)) /\ Serves(c, a, Settled(cap), b, durable, volatile)
    <3>1. cap.first = "none" /\ ~cap.lost => ~cap.terminal BY <1>3 DEF Orderly
    <3> QED BY <1>1, <1>2, <1>3, <1>5, <3>1, SettlesBlocked
  <2> QED BY <1>1, <1>2, <1>3, <1>5, <2>1, CapabilitySilent
<1>6. CASE /\ ~Blocked(cap) /\ SetCapability(c, Settled(MarkLocalQueryError(cap)))
           /\ UNCHANGED <<backend, durable, volatile>>
  <2> DEFINE t == MarkLocalQueryError(cap)
  <2>1. Marked(cap, t) /\ t.first # "none" /\ t.lost = cap.lost BY <1>2, MarkLocalShape
  <2>2. SetCapability(c, Settled(t)) BY <1>6
  <2> HIDE DEF t, cap
  <2>3. Blocked(t) /\ t \in CapType BY <2>1 DEF Blocked, Marked
  <2>4. /\ Settled(t) \in CapType /\ Settled(t).active = cap.active
        /\ Orderly(c, Settled(t)) /\ Serves(c, a, Settled(t), b, durable, volatile)
    BY <1>1, <1>2, <1>3, <2>1, <2>3, SettlesBlocked DEF Marked
  <2> QED BY <1>1, <1>2, <1>3, <1>6, <2>2, <2>4, CapabilitySilent
<1>7. ASSUME ~Blocked(cap), NEW q \in Outcomes(b, kind, w), Query(c, q),
             IF q.reply \in {"rejected", "retryable", "unknown"}
             THEN \E unsafe \in IF kind = "stream" THEN BOOLEAN ELSE {FALSE} :
                     SetCapability(c, Settled([MarkQueryError(cap, q.reply) EXCEPT
                                        !.unsafe = unsafe, !.lost = @ \/ unsafe]))
             ELSE SetCapability(c, [cap EXCEPT !.ran = TRUE])
      PROVE  StoreInv'
  <2>1. ~cap.lost /\ ~cap.rolledBack /\ ~cap.terminal BY <1>7 DEF Blocked
  <2>2. Unseen(c, durable, volatile) /\ (~b.up \/ Intact(b))
    BY <1>1, <1>3, <1>7, <2>1 DEF Serves
  <2>3. Intact(b) => b.writes = WrittenWith(c, a, cap, n - 1)
    <3>1. PICK i \in Nat, k \in Nat : i = Len(cap.issued) /\ k = Len(cap.queue) BY <1>4
    <3>2. SentSoFar(cap) = i - k + 0 /\ n = i - k + 1 BY <1>1, <1>4, <3>1 DEF SentSoFar
    <3>3. SentSoFar(cap) = n - 1 BY <3>2
    <3> QED BY <1>3, <1>7, <3>3 DEF Serves
  <2>4. w \in WriteType /\ n \in Nat \ {0} BY <1>2, <1>4 DEF WriteType
  <2> HIDE DEF b, cap, kind, n, w
  <2>5. Queries(b, kind, w, q) BY <1>2, <1>4, <1>7, <2>2, <2>4, QueryOutcome
  <2>6. Own(c, a, q.b.writes) /\ Own(c, a, q.stored) BY <1>2, <2>4, <2>5 DEF Own, Queries, w
  <2>10. Proper(q.b) BY <2>5 DEF Queries
  <2>7. q.stored = {} => durable' = durable /\ volatile' = volatile BY <1>7 DEF Query
  <2>8. CASE q.reply \in {"rejected", "retryable", "unknown"}
    <3>1. PICK unsafe \in BOOLEAN :
             SetCapability(c, Settled([MarkQueryError(cap, q.reply) EXCEPT
                                         !.unsafe = unsafe, !.lost = @ \/ unsafe]))
      BY <1>7, <2>8
    <3> DEFINE t == [MarkQueryError(cap, q.reply) EXCEPT
                       !.unsafe = unsafe, !.lost = @ \/ unsafe]
    <3>2. /\ Marked(cap, t) /\ (q.reply = "unknown" => t.lost)
          /\ q.reply # "unknown" => t.first # "none"
      BY <1>2, <2>8, MarkQueryShape
    <3>3. SetCapability(c, Settled(t)) BY <3>1
    <3> HIDE DEF t
    <3>4. t \in CapType /\ t.queue = cap.queue /\ t.issued = cap.issued
          /\ t.terminal /\ t.active = cap.active /\ ~t.rolledBack
      BY <2>1, <3>2 DEF Marked
    <3> DEFINE m == Settled(t)
    <3>5. /\ m \in CapType /\ m.active = cap.active /\ m.terminal /\ ~m.ran
          /\ m.lost = t.lost /\ ~m.rolledBack
      BY <1>1, <3>4, SettledShape
    <3>6. Orderly(c, m) BY <1>1, <1>2, <1>3, <3>2, <3>4, SettledOrderly
    <3> HIDE DEF m
    <3>7. ~t.lost => /\ q.b.tx # "committing" /\ durable' = durable /\ volatile' = volatile
      BY <2>5, <2>7, <2>8, <3>2 DEF Queries
    <3>8. Serves(c, a, m, q.b, durable', volatile') BY <2>2, <3>5, <3>7 DEF Serves, Blocked
    <3> QED BY <1>1, <1>2, <1>3, <1>7, <2>10, <2>6, <3>3, <3>5, <3>6, <3>8, CapabilityAsks
      DEF m, cap
  <2>9. CASE q.reply \notin {"rejected", "retryable", "unknown"}
    <3> DEFINE m == [cap EXCEPT !.ran = TRUE]
    <3>1. /\ m \in CapType /\ m.ran = TRUE /\ m.queue = cap.queue /\ m.issued = cap.issued
          /\ m.lost = cap.lost /\ m.rolledBack = cap.rolledBack /\ m.active = cap.active
          /\ m.terminal = cap.terminal /\ m.first = cap.first
      BY <1>2 DEF CapType
    <3>2. SetCapability(c, m) BY <1>7, <2>9
    <3> HIDE DEF m
    <3>3. Orderly(c, m) BY <1>1, <1>3, <2>1, <3>1 DEF Orderly
    <3>4. SentSoFar(m) = n
      <4>1. PICK i \in Nat, k \in Nat : i = Len(cap.issued) /\ k = Len(cap.queue) BY <1>4
      <4> QED BY <1>4, <3>1, <4>1 DEF SentSoFar
    <3>5. \A k : WrittenWith(c, a, m, k) = WrittenWith(c, a, cap, k) BY <3>1 DEF WrittenWith
    <3>6. Intact(q.b) => q.b.writes = WrittenWith(c, a, m, SentSoFar(m))
      <4>1. kind = cap.issued[n] /\ w = <<c, a, n>> BY DEF kind, w
      <4>2. Intact(b) BY <2>2, <2>5, <2>9 DEF Queries
      <4>3. WrittenWith(c, a, cap, n) =
               IF kind = "write" THEN b.writes \cup {w} ELSE b.writes
        <5>1. WrittenWith(c, a, cap, n) =
                 IF cap.issued[n] = "write" THEN WrittenWith(c, a, cap, n - 1) \cup {<<c, a, n>>}
                 ELSE WrittenWith(c, a, cap, n - 1)
          BY <2>4, OneMoreWrite
        <5>2. WrittenWith(c, a, cap, n - 1) = b.writes BY <2>3, <4>2
        <5> QED BY <4>1, <5>1, <5>2
      <4> QED BY <2>5, <2>9, <3>4, <3>5, <4>3 DEF Queries
    <3>7. Serves(c, a, m, q.b, durable', volatile')
      BY <2>1, <2>2, <2>5, <2>7, <2>9, <3>1, <3>6 DEF Serves, Queries
    <3> QED BY <1>1, <1>2, <1>3, <1>7, <2>10, <2>6, <3>1, <3>2, <3>3, <3>7, CapabilityAsks
      DEF cap
  <2> QED BY <2>8, <2>9
<1> HIDE DEF b, cap, kind, n, w
<1> QED BY <1>5, <1>6, <1>7 DEF SendQuery, b, cap, kind, n, w

LEMMA RecheckBoundaryKeeps ==
    ASSUME StoreInv, NEW c \in Calls, RecheckBoundary(c)
    PROVE  StoreInv'
<1> DEFINE cap == call[c].cap
           a == call[c].attempt
           b == backend[call[c].slot]
<1>1. cap.ran /\ pool' = pool BY DEF RecheckBoundary
<1>2. /\ Running(call[c]) /\ cap \in CapType /\ Queued(c, call[c]) /\ a \in 1 .. MaxAttempts
      /\ InCallback(c, call[c], b, durable, volatile) /\ Proper(b) /\ Own(c, a, b.writes)
  BY <1>1, RunningIs
<1>3. /\ Orderly(c, cap) /\ Serves(c, a, cap, b, durable, volatile)
      /\ call[c].pc = "draining" => ~cap.active
  BY <1>2 DEF Queued, InCallback
<1>4. cap.queue # <<>> /\ ~cap.lost /\ ~cap.rolledBack BY <1>1, <1>3 DEF Orderly
<1>5. Len(cap.queue) \in Nat /\ Len(cap.issued) \in Nat
  <2>1. cap.queue \in Seq(Nat) /\ cap.issued \in Seq(Kinds) BY <1>2 DEF CapType
  <2> QED BY <2>1
<1>6. PICK q \in Outcomes(b, "XID", <<>>) :
        /\ Query(c, q)
        /\ \/ /\ q.reply = "ok"
              /\ \/ SetCapability(c, Settled(cap))
                 \/ SetCapability(c, Settled(
                         [cap EXCEPT !.first = IF @ = "none" THEN "local" ELSE @]))
           \/ /\ q.reply = "retryable"
              /\ SetCapability(c, Settled([cap EXCEPT !.rolledBack = TRUE]))
           \/ /\ q.reply \notin {"ok", "retryable"}
              /\ SetCapability(c, Settled([cap EXCEPT !.lost = TRUE]))
  BY DEF RecheckBoundary, OutcomesOf
<1>7. /\ Proper(q.b) /\ q.b.writes \subseteq b.writes /\ q.stored = {}
      /\ q.reply = "ok" => q.b = b /\ Intact(b)
      /\ q.reply = "retryable" => Intact(b) /\ q.b.tx = "aborted"
  BY <1>2, XidOutcome
<1>8. durable' = durable /\ volatile' = volatile BY <1>6, <1>7 DEF Query
<1>9. Own(c, a, q.b.writes) /\ Own(c, a, q.stored) BY <1>2, <1>7 DEF Own
<1>10. ASSUME NEW t \in CapType, t.queue = cap.queue, t.issued = cap.issued,
              t.active = cap.active, t.first = "none" /\ ~t.lost => ~t.terminal,
              SetCapability(c, Settled(t)),
              Serves(c, a, Settled(t), q.b, durable', volatile')
       PROVE  StoreInv'
  <2>1. Orderly(c, Settled(t)) BY <1>2, <1>3, <1>4, <1>10, SettledOrderly
  <2>2. Settled(t) \in CapType /\ Settled(t).active = cap.active
    BY <1>4, <1>10, SettledShape
  <2> QED BY <1>1, <1>2, <1>3, <1>6, <1>7, <1>9, <1>10, <2>1, <2>2, CapabilityAsks
<1>11. ASSUME q.reply = "ok", NEW t \in CapType, t.queue = cap.queue, t.issued = cap.issued,
              t.active = cap.active, t.first = "none" => ~t.terminal, ~t.lost, ~t.rolledBack,
              t.terminal = cap.terminal, SetCapability(c, Settled(t))
       PROVE  StoreInv'
  <2> DEFINE m == Settled(t)
  <2>1. /\ ~m.ran /\ m.issued = cap.issued /\ ~m.lost /\ ~m.rolledBack
        /\ m.terminal = cap.terminal
    BY <1>4, <1>11, SettledShape
  <2>2. SentSoFar(m) = Len(cap.issued) - Len(cap.queue) + 1
    BY <1>2, <1>3, <1>4, <1>11, SettledOrderly
  <2> HIDE DEF m
  <2>3. SentSoFar(m) = SentSoFar(cap) BY <1>1, <2>2 DEF SentSoFar
  <2>4. \A k : WrittenWith(c, a, m, k) = WrittenWith(c, a, cap, k) BY <2>1 DEF WrittenWith
  <2>5. Unseen(c, durable, volatile) /\ q.b = b /\ Intact(b)
    BY <1>3, <1>4, <1>7, <1>11 DEF Serves
  <2>6. Blocked(m) <=> Blocked(cap) BY <1>4, <2>1 DEF Blocked
  <2>7. Serves(c, a, m, q.b, durable', volatile')
    BY <1>3, <1>4, <1>8, <2>1, <2>3, <2>4, <2>5, <2>6 DEF Serves, Intact
  <2> QED BY <1>10, <1>11, <2>7 DEF m
<1>12. CASE q.reply = "ok" /\ SetCapability(c, Settled(cap))
  <2>1. cap.first = "none" => ~cap.terminal BY <1>3, <1>4 DEF Orderly
  <2> QED BY <1>2, <1>4, <1>11, <1>12, <2>1
<1>13. CASE /\ q.reply = "ok"
            /\ SetCapability(c, Settled([cap EXCEPT !.first = IF @ = "none" THEN "local" ELSE @]))
  <2> DEFINE t == [cap EXCEPT !.first = IF @ = "none" THEN "local" ELSE @]
  <2>1. /\ t \in CapType /\ t.queue = cap.queue /\ t.issued = cap.issued
        /\ t.active = cap.active /\ t.first # "none" /\ t.lost = cap.lost
        /\ t.rolledBack = cap.rolledBack /\ t.terminal = cap.terminal
    BY <1>2 DEF CapType
  <2>2. SetCapability(c, Settled(t)) BY <1>13
  <2> HIDE DEF t
  <2> QED BY <1>4, <1>11, <1>13, <2>1, <2>2
<1>14. CASE q.reply = "retryable" /\ SetCapability(c, Settled([cap EXCEPT !.rolledBack = TRUE]))
  <2> DEFINE t == [cap EXCEPT !.rolledBack = TRUE]
  <2>1. /\ t \in CapType /\ t.queue = cap.queue /\ t.issued = cap.issued
        /\ t.active = cap.active /\ t.first = cap.first /\ t.lost = cap.lost
        /\ t.rolledBack = TRUE /\ t.terminal = cap.terminal
    BY <1>2 DEF CapType
  <2>2. SetCapability(c, Settled(t)) BY <1>14
  <2> HIDE DEF t
  <2>3. t.first = "none" /\ ~t.lost => ~t.terminal BY <1>3, <2>1 DEF Orderly
  <2>4. ~Settled(t).lost /\ Settled(t).rolledBack BY <1>4, <2>1, SettledShape
  <2>5. Unseen(c, durable, volatile) BY <1>3, <1>4, <1>7, <1>14 DEF Serves
  <2>6. Serves(c, a, Settled(t), q.b, durable', volatile')
    BY <1>7, <1>8, <1>14, <2>4, <2>5 DEF Serves, Blocked
  <2> QED BY <1>10, <2>1, <2>2, <2>3, <2>6
<1>15. CASE /\ q.reply \notin {"ok", "retryable"}
            /\ SetCapability(c, Settled([cap EXCEPT !.lost = TRUE]))
  <2> DEFINE t == [cap EXCEPT !.lost = TRUE]
  <2>1. /\ t \in CapType /\ t.queue = cap.queue /\ t.issued = cap.issued
        /\ t.active = cap.active /\ t.lost = TRUE
        /\ t.rolledBack = cap.rolledBack
    BY <1>2 DEF CapType
  <2>2. SetCapability(c, Settled(t)) BY <1>15
  <2> HIDE DEF t
  <2>3. Settled(t).lost /\ ~Settled(t).rolledBack BY <1>4, <2>1, SettledShape
  <2>4. Serves(c, a, Settled(t), q.b, durable', volatile') BY <2>3 DEF Serves, Blocked
  <2> QED BY <1>10, <2>1, <2>2, <2>4
<1> QED BY <1>6, <1>12, <1>13, <1>14, <1>15

\* The call goes on while its capability changes in ways no query sees.
LEMMA CallbackEnds ==
    ASSUME StoreInv, NEW c \in Calls, Running(call[c]), NEW r, Follows(c, r), Running(r),
           r.retry = call[c].retry, call' = [call EXCEPT ![c] = r],
           UNCHANGED <<pool, backend, durable, volatile>>,
           r.cap.issued = call[c].cap.issued, r.cap.queue = call[c].cap.queue,
           r.cap.ran = call[c].cap.ran, r.cap.lost = call[c].cap.lost,
           r.cap.rolledBack = call[c].cap.rolledBack,
           r.cap.terminal = call[c].cap.terminal, r.cap.first = call[c].cap.first,
           r.pc = "draining" => ~r.cap.active
    PROVE  StoreInv'
<1> DEFINE cap == call[c].cap
           b == backend[call[c].slot]
<1>1. /\ ~r.retry /\ Holding(call[c]) /\ r.attempt \in 1 .. MaxAttempts
      /\ Orderly(c, cap) /\ Serves(c, r.attempt, cap, b, durable, volatile)
  BY RunningIs DEF Queued, InCallback, Follows
<1>2. Orderly(c, r.cap) BY <1>1 DEF Orderly
<1>3. SentSoFar(r.cap) = SentSoFar(cap) /\ (Blocked(r.cap) <=> Blocked(cap))
  BY DEF SentSoFar, Blocked
<1>4. \A k : WrittenWith(c, r.attempt, r.cap, k) = WrittenWith(c, r.attempt, cap, k)
  BY DEF WrittenWith
<1>5. Serves(c, r.attempt, r.cap, b, durable, volatile) BY <1>1, <1>3, <1>4 DEF Serves
<1>6. Queued(c, r) /\ InCallback(c, r, b, durable, volatile)
  BY <1>2, <1>5 DEF Queued, InCallback
<1>7. Fits(c, r, b, durable, volatile) BY <1>1, <1>6, RunningFits
<1> QED BY <1>1, <1>7, Silent

LEMMA CallbackSettlesKeeps ==
    ASSUME StoreInv, NEW c \in Calls, CallbackSettles(c)
    PROVE  StoreInv'
<1>1. PICK how \in {"returned", "threw", "rethrew"} :
         call' = [call EXCEPT ![c] = [Goto(c, "settled") EXCEPT !.cap.callback = how]]
  BY DEF CallbackSettles, Set
<1> DEFINE x == call[c]
           g == Goto(c, "settled")
           r == [g EXCEPT !.cap.callback = how]
<1>2. Running(x) /\ UNCHANGED <<pool, backend, durable, volatile>>
  BY DEF CallbackSettles, Running
<1>3. x \in CallType BY DEF StoreInv, StoreTypeOK
<1>4. Leads(c, g, "settled", x.retry, x.outcome) BY <1>3, Exits DEF Pcs
<1>5. call' = [call EXCEPT ![c] = r] BY <1>1
<1> HIDE DEF g
<1>6. r.cap = [g.cap EXCEPT !.callback = how] /\ g.cap \in CapType
  BY <1>4 DEF Leads, CallType
<1>7. r.cap \in CapType
  <2>1. \A k \in CapType : [k EXCEPT !.callback = how] \in CapType BY DEF CapType
  <2> QED BY <1>6, <2>1
<1>8. /\ r \in CallType /\ r.pc = "settled" /\ r.slot = x.slot /\ r.attempt = x.attempt
      /\ r.retry = x.retry
  BY <1>4, <1>6, <1>7 DEF Leads, CallType
<1>9. /\ r.cap.issued = x.cap.issued /\ r.cap.queue = x.cap.queue
      /\ r.cap.ran = x.cap.ran /\ r.cap.lost = x.cap.lost
      /\ r.cap.rolledBack = x.cap.rolledBack
      /\ r.cap.terminal = x.cap.terminal /\ r.cap.first = x.cap.first
  BY <1>4, <1>6 DEF Leads, CapType
<1> HIDE DEF r
<1>10. Follows(c, r) /\ Running(r) BY <1>8 DEF Follows, Holding, Running
<1> QED BY <1>2, <1>5, <1>8, <1>9, <1>10, CallbackEnds

LEMMA CloseKeeps ==
    ASSUME StoreInv, NEW c \in Calls, Close(c)
    PROVE  StoreInv'
<1> DEFINE x == call[c]
           g == Goto(c, "draining")
           pending == call[c].cap.queue # <<>>
           r == [g EXCEPT !.cap.active = FALSE, !.cap.pending = pending]
<1>2. Running(x) /\ UNCHANGED <<pool, backend, durable, volatile>> BY DEF Close, Running
<1>3. x \in CallType BY DEF StoreInv, StoreTypeOK
<1>4. Leads(c, g, "draining", x.retry, x.outcome) BY <1>3, Exits DEF Pcs
<1>5. call' = [call EXCEPT ![c] = r] BY DEF Close, Set
<1>11. pending \in BOOLEAN
  OBVIOUS
<1> HIDE DEF g, pending
<1>6. r.cap = [g.cap EXCEPT !.active = FALSE, !.pending = pending] /\ g.cap \in CapType
  BY <1>4 DEF Leads, CallType
<1>7. r.cap \in CapType /\ ~r.cap.active
  <2>1. \A k \in CapType :
           LET n == [k EXCEPT !.active = FALSE, !.pending = pending] IN
           n \in CapType /\ ~n.active
    BY <1>11 DEF CapType
  <2> HIDE DEF r
  <2> QED BY <1>6, <2>1
<1>8. /\ r \in CallType /\ r.pc = "draining" /\ r.slot = x.slot /\ r.attempt = x.attempt
      /\ r.retry = x.retry
  BY <1>4, <1>6, <1>7 DEF Leads, CallType
<1>9. /\ r.cap.issued = x.cap.issued /\ r.cap.queue = x.cap.queue
      /\ r.cap.ran = x.cap.ran /\ r.cap.lost = x.cap.lost
      /\ r.cap.rolledBack = x.cap.rolledBack
      /\ r.cap.terminal = x.cap.terminal /\ r.cap.first = x.cap.first
  <2>1. \A k \in CapType :
           LET n == [k EXCEPT !.active = FALSE, !.pending = pending] IN
           /\ n.issued = k.issued /\ n.queue = k.queue /\ n.ran = k.ran /\ n.lost = k.lost
           /\ n.rolledBack = k.rolledBack /\ n.terminal = k.terminal /\ n.first = k.first
    BY DEF CapType
  <2>2. g.cap = x.cap BY <1>4 DEF Leads
  <2> HIDE DEF r
  <2> QED BY <1>6, <2>1, <2>2
<1> HIDE DEF r
<1>10. Follows(c, r) /\ Running(r) BY <1>8 DEF Follows, Holding, Running
<1> QED BY <1>2, <1>5, <1>7, <1>8, <1>9, <1>10, CallbackEnds

LEMMA DrainedKeeps ==
    ASSUME StoreInv, NEW c \in Calls, Drained(c)
    PROVE  StoreInv'
<1> DEFINE x == call[c]
           cap == call[c].cap
           b == backend[call[c].slot]
<1>1. /\ x.pc = "draining" /\ cap.queue = <<>> /\ Running(x)
      /\ UNCHANGED <<pool, backend, durable, volatile>>
  BY DEF Drained, Running
<1>2. /\ Holding(x) /\ x \in CallType /\ cap \in CapType /\ Queued(c, x) /\ ~x.retry
      /\ x.attempt \in 1 .. MaxAttempts /\ Proper(b)
      /\ InCallback(c, x, b, durable, volatile)
  BY <1>1, RunningIs
<1>3. Idle(cap) /\ Orderly(c, cap) /\ Serves(c, x.attempt, cap, b, durable, volatile)
  BY <1>1, <1>2 DEF Queued, InCallback, Idle, Orderly
<1>4. ASSUME NEW r, call' = [call EXCEPT ![c] = r], Follows(c, r), r.cap = x.cap,
             r.pc \in {"rollback", "reset", "abandon", "release"},
             Ending(c, r, b, durable, volatile)
      PROVE  StoreInv'
  <2>1. r.attempt \in 1 .. MaxAttempts BY <1>2, <1>4 DEF Follows
  <2>2. Fits(c, r, b, durable, volatile) BY <1>2, <1>3, <1>4, <2>1, EndingFits
  <2> QED BY <1>1, <1>2, <1>4, <2>2, Silent
<1>5. CASE cap.rolledBack
  <2> DEFINE r == AfterServerRollback(c)
  <2>1. Leads(c, r, "release", TRUE, "not-committed") /\ r.destroy BY <1>2, Exits
  <2>2. call' = [call EXCEPT ![c] = r] BY <1>5 DEF Drained, Set
  <2> HIDE DEF r
  <2>3. Ending(c, r, b, durable, volatile) BY <1>3, <1>5, <2>1 DEF Leads, Ending, Serves
  <2>4. Follows(c, r) /\ r.cap = x.cap /\ r.pc = "release"
    BY <2>1 DEF Leads, Follows, Holding
  <2> QED BY <1>4, <2>2, <2>3, <2>4
<1>6. CASE ~cap.rolledBack /\ cap.lost
  <2> DEFINE r == FailUncertain(c)
  <2>1. Leads(c, r, "abandon", FALSE, "uncertain") BY <1>2, Exits
  <2>2. call' = [call EXCEPT ![c] = r] BY <1>6 DEF Drained, Set
  <2> HIDE DEF r
  <2>3. Ending(c, r, b, durable, volatile) BY <2>1 DEF Leads, Ending
  <2>4. Follows(c, r) /\ r.cap = x.cap /\ r.pc = "abandon"
    BY <2>1 DEF Leads, Follows, Holding
  <2> QED BY <1>4, <2>2, <2>3, <2>4
<1>7. CASE ~cap.rolledBack /\ ~cap.lost /\ CallbackFailed(cap)
  <2> DEFINE y == RetryableFailure(cap)
             r == RollbackAndRelease(c, RetryableFailure(cap))
  <2>5. y \in BOOLEAN BY DEF RetryableFailure
  <2>1. Leads(c, r, "rollback", y, "not-committed") BY <1>2, <2>5, Exits
  <2>2. call' = [call EXCEPT ![c] = r] BY <1>7 DEF Drained, Set
  <2> HIDE DEF r, y
  <2>3. Ending(c, r, b, durable, volatile)
    BY <1>3, <1>7, <2>1 DEF Leads, Ending, Serves, Idle
  <2>4. Follows(c, r) /\ r.cap = x.cap /\ r.pc = "rollback"
    BY <2>1 DEF Leads, Follows, Holding
  <2> QED BY <1>4, <2>2, <2>3, <2>4
<1>8. CASE ~cap.rolledBack /\ ~cap.lost /\ ~CallbackFailed(cap)
  <2> DEFINE r == Goto(c, "sync")
  <2>1. Leads(c, r, "sync", x.retry, x.outcome) BY <1>2, Exits DEF Pcs
  <2>2. call' = [call EXCEPT ![c] = r] BY <1>8 DEF Drained, Set
  <2> HIDE DEF r
  <2>3. ~Blocked(cap) BY <1>3, <1>8 DEF CallbackFailed, Orderly, Blocked
  <2>4. Len(cap.issued) \in Nat /\ SentSoFar(cap) = Len(cap.issued)
    <3>1. Len(cap.issued) \in Nat /\ Len(cap.queue) = 0 BY <1>1, <1>2 DEF CapType
    <3>2. PICK i \in Nat : i = Len(cap.issued) BY <3>1
    <3>3. SentSoFar(cap) = i - 0 + 0 BY <1>3, <3>1, <3>2 DEF SentSoFar, Idle
    <3> QED BY <3>2, <3>3
  <2>5. WrittenBy(c, r) = WrittenWith(c, x.attempt, cap, SentSoFar(cap))
    BY <2>1, <2>4 DEF Leads, WrittenBy
  <2>6. /\ Unseen(c, durable, volatile)
        /\ ~b.up \/ (Intact(b) /\ b.writes = WrittenBy(c, r))
    BY <1>3, <1>8, <2>3, <2>5 DEF Serves, Idle
  <2>7. Fits(c, r, b, durable, volatile)
    BY <1>2, <1>3, <2>1, <2>6 DEF Leads, Fits, Queued, Running, Beginning, InCallback,
       Committing, Ending
  <2>8. Follows(c, r) BY <2>1 DEF Leads, Follows, Holding
  <2> QED BY <1>1, <1>2, <2>2, <2>7, <2>8, Silent
<1> QED BY <1>5, <1>6, <1>7, <1>8

-----------------------------------------------------------------------------
(* Calls come and go.                                                      *)

\* No connection holds a write of a call that has none and is not given up.
LEMMA NoWritesAbroad ==
    ASSUME StoreInv, NEW c \in Calls, NEW s \in Slots, NEW w \in backend[s].writes,
           w[1] = c, call[c].pc # "done" \/ call[c].outcome # "uncertain"
    PROVE  pool[s] = c /\ Holding(call[c]) /\ call[c].slot = s
BY DEF StoreInv, Owned, Paired

\* A call without a connection goes on without one.
LEMMA Waits ==
    ASSUME StoreInv, NEW c \in Calls, call[c].pc \in {"new", "acquire"},
           NEW r \in CallType, ~Holding(r), call' = [call EXCEPT ![c] = r],
           UNCHANGED <<pool, backend, durable, volatile>>,
           \A e : Fits(c, r, e, durable, volatile)
    PROVE  StoreInv'
<1>1. ~Holding(call[c]) BY DEF Holding
<1>2. Unseen(c, durable, volatile) BY DEF StoreInv, Fits, Beginning
<1>9. /\ call' \in [Calls -> CallType] /\ call'[c] = r
      /\ \A d \in Calls : d # c => call'[d] = call[d]
  BY DEF StoreInv, StoreTypeOK
<1>10. StoreTypeOK' /\ \A s \in Slots : Sane(backend'[s]) BY <1>9 DEF StoreInv, StoreTypeOK
<1>11. Paired' BY <1>1, <1>9 DEF StoreInv, Paired
<1>12. Owned'
  <2> SUFFICES ASSUME NEW s \in Slots, NEW w \in backend[s].writes
               PROVE  /\ w[2] = call'[w[1]].attempt
                      /\ \/ pool[s] = w[1]
                         \/ /\ pool[s] = "closed" /\ call'[w[1]].pc = "done"
                            /\ call'[w[1]].outcome = "uncertain"
    BY DEF Owned
  <2>1. w[1] \in Calls BY DEF StoreInv, StoreTypeOK, BackendType, WriteType
  <2>2. w[1] # c BY <1>1, NoWritesAbroad
  <2> QED BY <1>9, <2>1, <2>2 DEF StoreInv, Owned
<1>13. LastAttempt'
  <2>1. \A w \in durable \cup volatile : w[1] \in Calls /\ w[1] # c
    BY <1>2 DEF StoreInv, StoreTypeOK, WriteType, Unseen
  <2> QED BY <1>9, <2>1 DEF StoreInv, LastAttempt
<1>14. \A d \in Calls : Fits(d, call'[d], backend'[call'[d].slot], durable', volatile')
  BY <1>9 DEF StoreInv
<1> QED BY <1>10, <1>11, <1>12, <1>13, <1>14 DEF StoreInv

LEMMA RunKeeps ==
    ASSUME StoreInv, NEW c \in Calls, Run(c)
    PROVE  StoreInv'
<1> DEFINE x == call[c]
           g == Goto(c, "acquire")
           r == [g EXCEPT !.attempt = 1]
<1>1. x.pc = "new" /\ call' = [call EXCEPT ![c] = r] /\ UNCHANGED <<pool, backend, durable, volatile>>
  BY DEF Run, Set
<1>2. x \in CallType BY DEF StoreInv, StoreTypeOK
<1>3. Leads(c, g, "acquire", x.retry, x.outcome) BY <1>2, Exits DEF Pcs
<1> HIDE DEF g
<1>4. /\ r \in CallType /\ r.pc = "acquire" /\ r.attempt = 1 /\ r.cap = x.cap
      /\ r.retry = x.retry
  BY <1>3 DEF Leads, CallType
<1> HIDE DEF r
<1>5. ~Holding(r) /\ ~Running(r) /\ ~Running(x) BY <1>1, <1>4 DEF Holding, Running
<1>6. Fits(c, x, backend[x.slot], durable, volatile) BY DEF StoreInv
<1>7. Unseen(c, durable, volatile) /\ ~x.retry BY <1>1, <1>6 DEF Fits, Beginning, Ending
<1>8. \A e : Fits(c, r, e, durable, volatile)
  <2>1. Queued(c, r) BY <1>4, <1>5, <1>6 DEF Fits, Queued
  <2>2. 1 \in 1 .. MaxAttempts BY StoreAssumption
  <2> QED BY <1>4, <1>5, <1>7, <2>1, <2>2 DEF Fits, Beginning, InCallback, Committing,
    Ending
<1> QED BY <1>1, <1>4, <1>5, <1>8, Waits

\* A call takes a connection.
LEMMA Takes ==
    ASSUME StoreInv, NEW c \in Calls, call[c].pc = "acquire", NEW s \in Slots,
           pool[s] \in {"free", "idle"}, pool' = [pool EXCEPT ![s] = c],
           call' = [call EXCEPT ![c] = [Goto(c, "clean") EXCEPT !.slot = s]],
           UNCHANGED <<backend, durable, volatile>>
    PROVE  StoreInv'
<1> DEFINE x == call[c]
           g == Goto(c, "clean")
           r == [g EXCEPT !.slot = s]
<1>1. x \in CallType /\ ~Holding(x) /\ ~Running(x)
  BY DEF StoreInv, StoreTypeOK, Holding, Running
<1>2. Leads(c, g, "clean", x.retry, x.outcome) BY <1>1, Exits DEF Pcs
<1>3. call' = [call EXCEPT ![c] = r]
  OBVIOUS
<1> HIDE DEF g
<1>4. /\ r \in CallType /\ r.pc = "clean" /\ r.attempt = x.attempt /\ r.cap = x.cap
      /\ r.retry = x.retry /\ r.slot = s
  BY <1>2 DEF Leads, CallType
<1> HIDE DEF r
<1>5. Holding(r) /\ ~Running(r) BY <1>4 DEF Holding, Running
<1>6. Fits(c, x, backend[x.slot], durable, volatile) BY DEF StoreInv
<1>7. Unseen(c, durable, volatile) /\ ~x.retry /\ x.attempt \in 1 .. MaxAttempts
  BY <1>6 DEF Fits, Beginning, Ending
<1>8. backend[s].tx = "none" /\ backend[s].writes = {} BY DEF StoreInv, Paired, Sane
<1>9. Fits(c, r, backend[s], durable, volatile)
  <2>1. Queued(c, r) BY <1>1, <1>4, <1>5, <1>6 DEF Fits, Queued
  <2> QED BY <1>4, <1>5, <1>7, <1>8, <2>1 DEF Fits, Beginning, InCallback, Committing,
    Ending
<1>10. /\ call' \in [Calls -> CallType] /\ call'[c] = r
       /\ \A d \in Calls : d # c => call'[d] = call[d]
  BY <1>3, <1>4 DEF StoreInv, StoreTypeOK
<1>11. /\ pool' \in [Slots -> Calls \cup {"free", "idle", "closed"}] /\ pool'[s] = c
       /\ \A t \in Slots : t # s => pool'[t] = pool[t]
  BY DEF StoreInv, StoreTypeOK
<1>12. StoreTypeOK' /\ \A t \in Slots : Sane(backend'[t])
  BY <1>10, <1>11 DEF StoreInv, StoreTypeOK
<1>13. Paired'
  <2>1. pool[s] \notin Calls /\ c \notin {"free", "idle"} BY StoreAssumption
  <2>2. ASSUME NEW d \in Calls, Holding(call'[d])
        PROVE  call'[d].slot \in Slots /\ pool'[call'[d].slot] = d
    <3>1. CASE d = c BY <1>4, <1>10, <1>11, <3>1
    <3>2. CASE d # c
      <4>1. call[d].slot \in Slots /\ pool[call[d].slot] = d
        BY <1>10, <2>2, <3>2 DEF StoreInv, Paired
      <4> QED BY <1>10, <1>11, <2>1, <3>2, <4>1
    <3> QED BY <3>1, <3>2
  <2>3. ASSUME NEW t \in Slots, pool'[t] \in Calls
        PROVE  Holding(call'[pool'[t]]) /\ call'[pool'[t]].slot = t
    <3>1. CASE t = s BY <1>4, <1>5, <1>10, <1>11, <3>1
    <3>2. CASE t # s
      <4>1. Holding(call[pool[t]]) /\ call[pool[t]].slot = t /\ pool[t] \in Calls
        BY <1>11, <2>3, <3>2 DEF StoreInv, Paired
      <4>2. pool[t] # c BY <1>1, <4>1
      <4> QED BY <1>10, <1>11, <3>2, <4>1, <4>2
    <3> QED BY <3>1, <3>2
  <2>4. \A t \in Slots : pool'[t] \in {"free", "idle"} => backend'[t].tx = "none"
    BY <1>11, <2>1 DEF StoreInv, Paired
  <2> QED BY <2>2, <2>3, <2>4 DEF Paired
<1>14. Owned'
  <2> SUFFICES ASSUME NEW t \in Slots, NEW w \in backend[t].writes
               PROVE  /\ w[2] = call'[w[1]].attempt
                      /\ \/ pool'[t] = w[1]
                         \/ /\ pool'[t] = "closed" /\ call'[w[1]].pc = "done"
                            /\ call'[w[1]].outcome = "uncertain"
    BY DEF Owned
  <2>1. w[1] \in Calls BY DEF StoreInv, StoreTypeOK, BackendType, WriteType
  <2>2. w[1] # c BY <1>1, NoWritesAbroad
  <2>3. t # s BY <1>8
  <2> QED BY <1>10, <1>11, <2>1, <2>2, <2>3 DEF StoreInv, Owned
<1>15. LastAttempt'
  <2>1. \A w \in durable \cup volatile : w[1] \in Calls
    BY DEF StoreInv, StoreTypeOK, WriteType
  <2>2. \A d \in Calls : call'[d].attempt = call[d].attempt BY <1>4, <1>10
  <2> QED BY <2>1, <2>2 DEF StoreInv, LastAttempt
<1>16. \A d \in Calls : Fits(d, call'[d], backend'[call'[d].slot], durable', volatile')
  BY <1>4, <1>9, <1>10 DEF StoreInv
<1> QED BY <1>12, <1>13, <1>14, <1>15, <1>16 DEF StoreInv

LEMMA AcquireClientKeeps ==
    ASSUME StoreInv, NEW c \in Calls, AcquireClient(c)
    PROVE  StoreInv'
<1>1. call[c].pc = "acquire" /\ UNCHANGED <<backend, durable, volatile>>
  BY DEF AcquireClient
<1>2. ASSUME NEW s \in Slots, pool[s] \in {"free", "idle"}, pool' = [pool EXCEPT ![s] = c],
             call' = [call EXCEPT ![c] = [Goto(c, "clean") EXCEPT !.slot = s]]
      PROVE  StoreInv'
  BY <1>1, <1>2, Takes
<1>3. CASE /\ call' = [call EXCEPT ![c] = [Goto(c, "done") EXCEPT !.outcome = "not-committed"]]
           /\ pool' = pool
  <2> DEFINE x == call[c]
             g == Goto(c, "done")
             r == [g EXCEPT !.outcome = "not-committed"]
  <2>1. x \in CallType BY DEF StoreInv, StoreTypeOK
  <2>2. Leads(c, g, "done", x.retry, x.outcome) BY <2>1, Exits DEF Pcs
  <2>3. call' = [call EXCEPT ![c] = r] BY <1>3
  <2> HIDE DEF g
  <2>4. /\ r \in CallType /\ r.pc = "done" /\ r.attempt = x.attempt /\ r.cap = x.cap
        /\ r.retry = x.retry /\ r.outcome = "not-committed"
    BY <2>2 DEF Leads, CallType
  <2> HIDE DEF r
  <2>5. ~Holding(r) /\ ~Running(r) /\ ~Running(x) BY <1>1, <2>4 DEF Holding, Running
  <2>6. Fits(c, x, backend[x.slot], durable, volatile) BY DEF StoreInv
  <2>7. Unseen(c, durable, volatile) /\ ~x.retry /\ x.attempt \in 1 .. MaxAttempts
    BY <1>1, <2>6 DEF Fits, Beginning, Ending
  <2>8. Queued(c, r) BY <2>4, <2>5, <2>6 DEF Fits, Queued
  <2>9. \A e : Fits(c, r, e, durable, volatile)
    BY <2>4, <2>5, <2>7, <2>8 DEF Fits, Beginning, InCallback, Committing, Ending
  <2> QED BY <1>1, <1>3, <2>3, <2>4, <2>5, <2>9, Waits
<1> QED BY <1>2, <1>3 DEF AcquireClient, Set

\* A call gives its connection s back; p is what the pool knows of it then.
Leaves(c, s, r, p, nb) ==
    /\ Holding(call[c]) /\ call[c].slot = s /\ s \in Slots
    /\ r \in CallType /\ ~Holding(r) /\ p \in {"free", "idle", "closed"} /\ Proper(nb)
    /\ p # "closed" => nb.tx = "none"
    /\ p = "closed" => nb = backend[s] /\ r.pc = "done" /\ r.outcome = "uncertain"
    /\ r.attempt = call[c].attempt \/ (nb.writes = {} /\ Unseen(c, durable, volatile))
    /\ \A e : Fits(c, r, e, durable, volatile)
    /\ call' = [call EXCEPT ![c] = r] /\ pool' = [pool EXCEPT ![s] = p]
    /\ backend' = [backend EXCEPT ![s] = nb]
    /\ durable' = durable /\ volatile' = volatile

LEMMA LeavesKeeps ==
    ASSUME StoreInv, NEW c \in Calls, NEW s, NEW r, NEW p, NEW nb, Leaves(c, s, r, p, nb)
    PROVE  StoreInv'
<1> USE DEF Leaves
<1> SUFFICES StoreInv'
  OBVIOUS
<1>1. /\ call' \in [Calls -> CallType] /\ call'[c] = r
      /\ \A d \in Calls : d # c => call'[d] = call[d]
  BY DEF StoreInv, StoreTypeOK
<1>2. /\ pool' \in [Slots -> Calls \cup {"free", "idle", "closed"}] /\ pool'[s] = p
      /\ \A t \in Slots : t # s => pool'[t] = pool[t]
  BY DEF StoreInv, StoreTypeOK
<1>3. /\ backend' \in [Slots -> BackendType] /\ backend'[s] = nb
      /\ \A t \in Slots : t # s => backend'[t] = backend[t]
  BY DEF StoreInv, StoreTypeOK, Proper
<1>4. StoreTypeOK' BY <1>1, <1>2, <1>3 DEF StoreInv, StoreTypeOK
<1>5. \A t \in Slots : Sane(backend'[t]) BY <1>3 DEF StoreInv, Proper
<1>6. pool[s] = c /\ p \notin Calls BY StoreAssumption DEF StoreInv, Paired
<1>7. Paired'
  <2>1. ASSUME NEW d \in Calls, Holding(call'[d])
        PROVE  call'[d].slot \in Slots /\ pool'[call'[d].slot] = d
    <3>1. d # c BY <1>1, <2>1
    <3>2. call[d].slot \in Slots /\ pool[call[d].slot] = d
      BY <1>1, <2>1, <3>1 DEF StoreInv, Paired
    <3> QED BY <1>1, <1>2, <1>6, <3>1, <3>2
  <2>2. ASSUME NEW t \in Slots, pool'[t] \in Calls
        PROVE  Holding(call'[pool'[t]]) /\ call'[pool'[t]].slot = t
    <3>1. t # s BY <1>2, <1>6, <2>2
    <3>2. Holding(call[pool[t]]) /\ call[pool[t]].slot = t /\ pool[t] \in Calls
      BY <1>2, <2>2, <3>1 DEF StoreInv, Paired
    <3>3. pool[t] # c BY <3>1, <3>2
    <3> QED BY <1>1, <1>2, <3>1, <3>2, <3>3
  <2>3. \A t \in Slots : pool'[t] \in {"free", "idle"} => backend'[t].tx = "none"
    BY <1>2, <1>3 DEF StoreInv, Paired
  <2> QED BY <2>1, <2>2, <2>3 DEF Paired
<1>8. Owned'
  <2> SUFFICES ASSUME NEW t \in Slots, NEW w \in backend'[t].writes
               PROVE  /\ w[2] = call'[w[1]].attempt
                      /\ \/ pool'[t] = w[1]
                         \/ /\ pool'[t] = "closed" /\ call'[w[1]].pc = "done"
                            /\ call'[w[1]].outcome = "uncertain"
    BY DEF Owned
  <2>1. CASE t = s
    <3>1. p = "closed" /\ w \in backend[s].writes BY <1>3, <2>1 DEF Proper, Sane
    <3>2. Own(c, call[c].attempt, backend[s].writes) BY Connected
    <3>3. w[1] = c /\ w[2] = call[c].attempt BY <3>1, <3>2 DEF Own
    <3>4. r.attempt = call[c].attempt BY <1>3, <2>1
    <3> QED BY <1>1, <1>2, <2>1, <3>1, <3>3, <3>4
  <2>2. CASE t # s
    <3>1. w \in backend[t].writes /\ w[1] \in Calls
      BY <1>3, <2>2 DEF StoreInv, StoreTypeOK, BackendType, WriteType
    <3>2. call[c].pc # "done" BY DEF Holding
    <3>3. w[1] # c BY <2>2, <3>1, <3>2, NoWritesAbroad
    <3> QED BY <1>1, <1>2, <2>2, <3>1, <3>3 DEF StoreInv, Owned
  <2> QED BY <2>1, <2>2
<1>9. LastAttempt'
  <2> SUFFICES ASSUME NEW w \in durable \cup volatile
               PROVE  w[2] = call'[w[1]].attempt
    BY DEF LastAttempt
  <2>1. w[1] \in Calls /\ w[2] = call[w[1]].attempt
    BY DEF StoreInv, StoreTypeOK, WriteType, LastAttempt
  <2>2. w[1] = c => r.attempt = call[c].attempt BY DEF Unseen
  <2> QED BY <1>1, <2>1, <2>2
<1>10. \A d \in Calls : Fits(d, call'[d], backend'[call'[d].slot], durable', volatile')
  <2> SUFFICES ASSUME NEW d \in Calls
               PROVE  Fits(d, call'[d], backend'[call'[d].slot], durable, volatile)
    OBVIOUS
  <2>1. CASE d = c BY <1>1, <2>1
  <2>2. CASE d # c
    <3>1. SameOf(d, durable, durable) /\ SameOf(d, volatile, volatile) BY DEF SameOf
    <3>2. Holding(call[d]) => backend'[call[d].slot] = backend[call[d].slot]
      BY <1>3, <1>6, <2>2 DEF StoreInv, Paired
    <3>3. Fits(d, call[d], backend[call[d].slot], durable, volatile) BY DEF StoreInv
    <3>4. Fits(d, call[d], backend'[call[d].slot], durable, volatile)
      BY <3>1, <3>2, <3>3, FitsKept
    <3> QED BY <1>1, <2>2, <3>4
  <2> QED BY <2>1, <2>2
<1> QED BY <1>4, <1>5, <1>7, <1>8, <1>9, <1>10 DEF StoreInv

\* The record of a call that starts its next attempt.
LEMMA NextAttempt ==
    ASSUME NEW c \in Calls, NEW n \in Nat, n \in 1 .. MaxAttempts, NEW D, NEW V, Unseen(c, D, V)
    PROVE  LET r == [NewCall EXCEPT !.pc = "acquire", !.attempt = n] IN
           /\ r \in CallType /\ ~Holding(r) /\ r.attempt = n
           /\ \A e : Fits(c, r, e, D, V)
<1> DEFINE r == [NewCall EXCEPT !.pc = "acquire", !.attempt = n]
<1>1. /\ r.pc = "acquire" /\ r.attempt = n /\ r.cap = Closed /\ r.retry = FALSE
      /\ r.outcome = "none"
  BY DEF NewCall
<1>2. r \in CallType BY FreshCapability DEF NewCall, CallType, Pcs
<1> HIDE DEF r
<1>3. ~Holding(r) /\ ~Running(r) BY <1>1 DEF Holding, Running
<1>4. Queued(c, r)
  BY <1>1, <1>3, StoreAssumption DEF Queued, Orderly, Idle, Closed, NewCapability
<1>5. \A e : Fits(c, r, e, D, V)
  BY <1>1, <1>3, <1>4 DEF Fits, Beginning, InCallback, Committing, Ending
<1> QED BY <1>1, <1>2, <1>3, <1>5 DEF r

\* The record of a call that has returned.
LEMMA Returned ==
    ASSUME StoreInv, NEW c \in Calls, call[c].pc = "release"
    PROVE  LET r == [Goto(c, "done") EXCEPT !.slot = "none",
                       !.cap = [Closed EXCEPT !.issued = call[c].cap.issued]] IN
           /\ r \in CallType /\ ~Holding(r) /\ r.attempt = call[c].attempt
           /\ r.pc = "done" /\ r.outcome = call[c].outcome
           /\ \A e : Fits(c, r, e, durable, volatile)
<1> DEFINE x == call[c]
           g == Goto(c, "done")
           k == [Closed EXCEPT !.issued = x.cap.issued]
           r == [g EXCEPT !.slot = "none", !.cap = k]
<1>1. x \in CallType /\ Fits(c, x, backend[x.slot], durable, volatile)
  BY DEF StoreInv, StoreTypeOK
<1>2. x.cap \in CapType /\ x.cap.issued \in Seq(Kinds) BY <1>1 DEF CallType, CapType
<1>3. /\ k \in CapType /\ k.issued = x.cap.issued /\ k.queue = <<>> /\ ~k.active /\ ~k.ran
      /\ ~k.lost /\ ~k.rolledBack /\ ~k.terminal
  BY ZenonT(40), <1>2, FreshCapability DEF Closed, NewCapability, CapType
<1>4. Leads(c, g, "done", x.retry, x.outcome) BY <1>1, Exits DEF Pcs
<1> HIDE DEF g, k
<1>5. /\ r \in CallType /\ r.pc = "done" /\ r.attempt = x.attempt /\ r.cap = k
      /\ r.retry = x.retry /\ r.outcome = x.outcome
  BY <1>3, <1>4 DEF Leads, CallType
<1> HIDE DEF r
<1>6. ~Holding(r) /\ ~Running(r) BY <1>5 DEF Holding, Running
<1>7. Queued(c, r)
  <2>1. Len(k.issued) <= MaxQueries[c] /\ Len(k.issued) \in Nat /\ Len(k.queue) = 0
    BY <1>1, <1>2, <1>3 DEF Fits, Queued, Orderly
  <2>2. \A i \in 1 .. Len(k.queue) : k.queue[i] = Len(k.issued) - Len(k.queue) + i BY <2>1
  <2>3. Len(k.queue) <= Len(k.issued) BY <2>1
  <2>4. Orderly(c, k) BY <1>3, <2>1, <2>2, <2>3 DEF Orderly
  <2> QED BY <1>3, <1>5, <1>6, <2>4 DEF Queued, Idle
<1>8. WrittenBy(c, r) = WrittenBy(c, x) BY <1>3, <1>5 DEF WrittenBy, WrittenWith
<1>9. x.attempt \in 1 .. MaxAttempts BY <1>1 DEF Fits
<1>10. \A e : Ending(c, r, e, durable, volatile) BY <1>1, <1>5, <1>8 DEF Fits, Ending
<1>11. \A e : Fits(c, r, e, durable, volatile)
  BY <1>5, <1>6, <1>7, <1>9, <1>10 DEF Fits, Beginning, InCallback, Committing
<1> QED BY <1>5, <1>6, <1>11 DEF r, g, k

LEMMA ReleaseKeeps ==
    ASSUME StoreInv, NEW c \in Calls, Release(c)
    PROVE  StoreInv'
<1> DEFINE x == call[c]
           s == call[c].slot
           b == backend[call[c].slot]
           committing == backend[s].tx = "committing"
           again == [NewCall EXCEPT !.pc = "acquire", !.attempt = x.attempt + 1]
           over == [Goto(c, "done") EXCEPT !.slot = "none",
                      !.cap = [Closed EXCEPT !.issued = x.cap.issued]]
<1>1. x.pc = "release" /\ Holding(x) /\ durable' = durable /\ volatile' = volatile
  BY DEF Release, Holding
<1>2. /\ x \in CallType /\ s \in Slots /\ x.attempt \in 1 .. MaxAttempts /\ Proper(b)
      /\ Fits(c, x, b, durable, volatile)
  BY <1>1, Connected
<1>3. /\ ~x.destroy => b.tx = "none"
      /\ x.outcome # "uncertain" => b.tx # "committing"
      /\ x.retry => x.outcome = "not-committed"
      /\ x.outcome = "not-committed" => Unseen(c, durable, volatile)
  BY <1>1, <1>2 DEF Fits, Ending
<1>4. PICK fails \in BOOLEAN :
        LET close == x.destroy \/ fails IN
        /\ pool' = [pool EXCEPT ![s] = IF ~close THEN "idle"
                                       ELSE IF committing THEN "closed" ELSE "free"]
        /\ backend' = IF close /\ ~committing
                      THEN [backend EXCEPT ![s] = FreshBackend] ELSE backend
        /\ call' = [call EXCEPT ![c] = IF MayRetry(c) /\ ~fails THEN again ELSE over]
  BY DEF Release, Set
<1> DEFINE close == x.destroy \/ fails
           p == IF ~close THEN "idle" ELSE IF committing THEN "closed" ELSE "free"
           nb == IF close /\ ~committing THEN FreshBackend ELSE b
           r == IF MayRetry(c) /\ ~fails THEN again ELSE over
<1>5. pool' = [pool EXCEPT ![s] = p] /\ call' = [call EXCEPT ![c] = r] BY <1>4
<1>6. backend' = [backend EXCEPT ![s] = nb] BY <1>2, <1>4 DEF StoreInv, StoreTypeOK
<1>7. /\ p \in {"free", "idle", "closed"} /\ Proper(nb)
      /\ p # "closed" => nb.tx = "none"
      /\ p = "closed" => nb = backend[s] /\ x.outcome = "uncertain"
  BY <1>2, <1>3, FreshIsProper
<1>8. CASE MayRetry(c) /\ ~fails
  <2>1. x.attempt + 1 \in 1 .. MaxAttempts /\ x.attempt + 1 \in Nat
    BY <1>2, <1>8, StoreAssumption DEF MayRetry, CallType
  <2>2. Unseen(c, durable, volatile) /\ b.tx # "committing" BY <1>3, <1>8 DEF MayRetry
  <2>3. /\ again \in CallType /\ ~Holding(again) /\ again.attempt = x.attempt + 1
        /\ \A e : Fits(c, again, e, durable, volatile)
    BY <2>1, <2>2, NextAttempt
  <2>4. r = again /\ p # "closed" BY <1>8, <2>2
  <2>5. nb.writes = {} BY <1>7, <2>4 DEF Proper, Sane
  <2> HIDE DEF r, p, nb, again
  <2>6. Leaves(c, s, r, p, nb)
    BY <1>1, <1>2, <1>5, <1>6, <1>7, <2>2, <2>3, <2>4, <2>5 DEF Leaves
  <2> QED BY <2>6, LeavesKeeps
<1>9. CASE ~(MayRetry(c) /\ ~fails)
  <2>1. /\ over \in CallType /\ ~Holding(over) /\ over.attempt = x.attempt
        /\ over.pc = "done" /\ over.outcome = x.outcome
        /\ \A e : Fits(c, over, e, durable, volatile)
    BY <1>1, Returned
  <2>2. r = over BY <1>9
  <2> HIDE DEF r, p, nb, over
  <2>3. Leaves(c, s, r, p, nb) BY <1>1, <1>2, <1>5, <1>6, <1>7, <2>1, <2>2 DEF Leaves
  <2> QED BY <2>3, LeavesKeeps
<1> QED BY <1>8, <1>9

-----------------------------------------------------------------------------
(* The server on its own.                                                  *)

\* A COMMIT under way is known to be in doubt, whatever becomes of it.
LEMMA LateFits ==
    ASSUME NEW c, NEW r, NEW b, NEW e, NEW D, NEW V, NEW E, NEW W, Fits(c, r, b, D, V),
           Holding(r), b.tx = "committing", Sane(b), e.tx = "none"
    PROVE  Fits(c, r, e, E, W)
<1>1. r.pc \notin {"clean", "begin", "stamp", "sync", "boundary", "commit", "rollback", "reset"}
  BY DEF Fits, Beginning, Committing, Ending, Intact, Sane
<1>2. Running(r) => r.cap.lost /\ ~r.cap.rolledBack BY DEF Fits, InCallback, Serves
<1>3. Running(r) => Serves(c, r.attempt, r.cap, e, E, W) BY <1>2 DEF Serves, Blocked
<1>4. r.pc = "release" => r.outcome = "uncertain" BY DEF Fits, Ending
<1>5. r.pc = "abandon" => r.outcome = "uncertain" BY DEF Fits, Ending
<1>6. ~r.retry BY <1>1, <1>4 DEF Fits, Ending, Holding
<1>7. Ending(c, r, e, E, W) BY <1>1, <1>4, <1>5, <1>6 DEF Ending, Holding
<1>8. Beginning(c, r, e, E, W) /\ Committing(c, r, e, E, W)
  BY <1>1 DEF Beginning, Committing, Holding
<1> QED BY <1>3, <1>7, <1>8 DEF Fits, InCallback

\* Nothing more is said of a call that was told "uncertain".
LEMMA UncertainFits ==
    ASSUME NEW c, NEW r, NEW b, NEW e, NEW D, NEW V, NEW E, NEW W, Fits(c, r, b, D, V),
           r.pc = "done", r.outcome = "uncertain"
    PROVE  Fits(c, r, e, E, W)
BY DEF Fits, Beginning, InCallback, Running, Committing, Ending

LEMMA CrashFits ==
    ASSUME NEW c, NEW r, NEW b, NEW e, NEW D, NEW V, Fits(c, r, b, D, V),
           Holding(r) => e.tx = "none" /\ ~e.up
    PROVE  Fits(c, r, e, D, {})
<1>1. Unseen(c, D, V) => Unseen(c, D, {}) BY DEF Unseen
<1>2. Beginning(c, r, e, D, {}) BY <1>1 DEF Fits, Beginning, Holding
<1>3. InCallback(c, r, e, D, {})
  BY <1>1 DEF Fits, InCallback, Serves, Holding, Running, Intact
<1>4. Committing(c, r, e, D, {}) BY <1>1 DEF Fits, Committing, Holding
<1>5. Ending(c, r, e, D, {}) BY <1>1 DEF Fits, Ending, Holding
<1> QED BY <1>2, <1>3, <1>4, <1>5 DEF Fits

LEMMA LateCommitKeeps ==
    ASSUME StoreInv, NEW s \in Slots, LateCommit(s)
    PROVE  StoreInv'
<1> DEFINE b == backend[s]
<1>1. /\ b.tx = "committing" /\ call' = call
      /\ backend' = [backend EXCEPT ![s] = IF pool[s] = "closed" THEN FreshBackend ELSE Ended(b)]
      /\ pool' = [pool EXCEPT ![s] = IF pool[s] = "closed" THEN "free" ELSE pool[s]]
  BY DEF LateCommit
<1>2. Proper(b) /\ b \in BackendType /\ b.writes \subseteq WriteType
  BY DEF StoreInv, StoreTypeOK, Proper, BackendType
<1>3. /\ durable \subseteq durable' /\ volatile \subseteq volatile'
      /\ durable' \subseteq durable \cup b.writes /\ volatile' \subseteq volatile \cup b.writes
  <2>1. CommitWith(b, FreshBackend).stored = b.writes BY DEF CommitWith, Result
  <2> QED BY <2>1 DEF LateCommit
<1>4. pool[s] \in Calls \/ pool[s] = "closed" BY <1>1 DEF StoreInv, StoreTypeOK, Paired
<1>5. CASE pool[s] \in Calls
  <2> DEFINE c == pool[s]
             r == call[pool[s]]
  <2>1. /\ Holding(r) /\ r.slot = s /\ r \in CallType
        /\ Own(c, r.attempt, b.writes) /\ Fits(c, r, b, durable, volatile)
    <3>1. Holding(r) /\ r.slot = s BY <1>5 DEF StoreInv, Paired
    <3> QED BY <1>5, <3>1, Connected
  <2>2. pool[s] # "closed" BY <1>5, StoreAssumption
  <2>3. Proper(Ended(b)) /\ Ended(b).tx = "none" /\ Ended(b).writes = {} BY <1>2, Shapes
  <2>4. Fits(c, r, Ended(b), durable', volatile')
    BY <1>1, <1>2, <2>1, <2>3, LateFits DEF Proper
  <2>5. Grows(c, r.attempt, durable, durable') /\ Grows(c, r.attempt, volatile, volatile')
    BY <1>3, <2>1 DEF Grows, Own
  <2>6. call' = [call EXCEPT ![c] = r] /\ pool' = pool
    BY <1>1, <1>5, <2>2 DEF StoreInv, StoreTypeOK
  <2>7. backend' = [backend EXCEPT ![s] = Ended(b)] BY <1>1, <2>2
  <2>8. Own(c, r.attempt, Ended(b).writes) BY <2>3 DEF Own
  <2> HIDE DEF r
  <2>9. Advances(c, s, r, Ended(b))
    BY <2>1, <2>3, <2>4, <2>5, <2>6, <2>7, <2>8 DEF Advances, r
  <2> QED BY <1>5, <2>9, Advance
<1>6. CASE pool[s] = "closed"
  <2>1. /\ pool' \in [Slots -> Calls \cup {"free", "idle", "closed"}] /\ pool'[s] = "free"
        /\ \A t \in Slots : t # s => pool'[t] = pool[t]
    BY <1>1, <1>6 DEF StoreInv, StoreTypeOK
  <2>2. /\ backend' \in [Slots -> BackendType] /\ backend'[s] = FreshBackend
        /\ \A t \in Slots : t # s => backend'[t] = backend[t]
    BY <1>1, <1>6, FreshIsProper DEF StoreInv, StoreTypeOK, Proper
  <2>3. StoreTypeOK'
    <3>1. durable' \in SUBSET WriteType /\ volatile' \in SUBSET WriteType
      BY <1>2, <1>3 DEF StoreInv, StoreTypeOK
    <3> QED BY <1>1, <2>1, <2>2, <3>1 DEF StoreInv, StoreTypeOK
  <2>4. \A t \in Slots : Sane(backend'[t]) BY <2>2, FreshIsProper DEF StoreInv, Proper
  <2>5. "free" \notin Calls /\ "closed" \notin Calls BY StoreAssumption
  <2>6. Paired'
    <3>1. \A c \in Calls : Holding(call[c]) => call[c].slot # s
      BY <1>6, <2>5 DEF StoreInv, Paired
    <3> QED BY <1>1, <2>1, <2>2, <2>5, <3>1, FreshIsProper DEF StoreInv, Paired
  <2>7. Owned'
    <3> SUFFICES ASSUME NEW t \in Slots, NEW w \in backend'[t].writes
                 PROVE  /\ w[2] = call[w[1]].attempt
                        /\ \/ pool'[t] = w[1]
                           \/ /\ pool'[t] = "closed" /\ call[w[1]].pc = "done"
                              /\ call[w[1]].outcome = "uncertain"
      BY <1>1 DEF Owned
    <3>1. t # s BY <2>2, FreshIsProper
    <3> QED BY <2>1, <2>2, <3>1 DEF StoreInv, Owned
  <2>8. ASSUME NEW w \in b.writes
        PROVE  w[2] = call[w[1]].attempt /\ call[w[1]].pc = "done" /\ call[w[1]].outcome = "uncertain"
    <3>1. w[1] \in Calls BY <1>2 DEF WriteType
    <3> QED BY <1>6, <2>5, <3>1 DEF StoreInv, Owned
  <2>9. LastAttempt' BY <1>1, <1>3, <2>8 DEF StoreInv, LastAttempt
  <2>10. \A d \in Calls : Fits(d, call[d], backend'[call[d].slot], durable', volatile')
    <3> SUFFICES ASSUME NEW d \in Calls
                 PROVE  Fits(d, call[d], backend'[call[d].slot], durable', volatile')
      OBVIOUS
    <3>1. Fits(d, call[d], backend[call[d].slot], durable, volatile) BY DEF StoreInv
    <3>2. CASE call[d].pc = "done" /\ call[d].outcome = "uncertain"
      BY <3>1, <3>2, UncertainFits
    <3>3. CASE ~(call[d].pc = "done" /\ call[d].outcome = "uncertain")
      <4>1. \A w \in b.writes : w[1] # d BY <2>8, <3>3
      <4>2. SameOf(d, durable, durable') /\ SameOf(d, volatile, volatile')
        BY <1>3, <4>1 DEF SameOf
      <4>3. Holding(call[d]) => backend'[call[d].slot] = backend[call[d].slot]
        BY <1>6, <2>2, <2>5 DEF StoreInv, Paired
      <4> QED BY <3>1, <4>2, <4>3, FitsKept
    <3> QED BY <3>2, <3>3
  <2> QED BY <1>1, <2>3, <2>4, <2>6, <2>7, <2>9, <2>10 DEF StoreInv
<1> QED BY <1>4, <1>5, <1>6

LEMMA ServerCrashKeeps ==
    ASSUME StoreInv, ServerCrash
    PROVE  StoreInv'
<1>1. call' = call /\ durable' = durable /\ volatile' = {} BY DEF ServerCrash
<1>2. \A s \in Slots :
         /\ pool[s] \in {"free", "closed"} => backend'[s] = FreshBackend
         /\ pool[s] \notin {"free", "closed"} => backend'[s] = Broken(backend[s])
  BY DEF ServerCrash
<1>3. \A s \in Slots :
         /\ pool[s] = "closed" => pool'[s] = "free"
         /\ pool[s] # "closed" => pool'[s] = pool[s]
  BY DEF ServerCrash
<1>4. \A s \in Slots : Proper(backend[s]) BY DEF StoreInv, StoreTypeOK, Proper
<1>5. \A s \in Slots : Proper(backend'[s]) /\ backend'[s].tx = "none" /\ backend'[s].writes = {}
  BY <1>2, <1>4, Shapes, FreshIsProper
<1>6. StoreTypeOK'
  <2>1. backend' \in [Slots -> BackendType]
    <3>1. backend' = [s \in Slots |-> IF pool[s] \in {"free", "closed"} THEN FreshBackend
                                      ELSE Broken(backend[s])]
      BY DEF ServerCrash
    <3>2. \A s \in Slots : (IF pool[s] \in {"free", "closed"} THEN FreshBackend
                            ELSE Broken(backend[s])) \in BackendType
      BY <1>4, Shapes, FreshIsProper DEF Proper
    <3> QED BY <3>1, <3>2
  <2>2. pool' \in [Slots -> Calls \cup {"free", "idle", "closed"}]
    BY DEF ServerCrash, StoreInv, StoreTypeOK
  <2> QED BY <1>1, <2>1, <2>2 DEF StoreInv, StoreTypeOK
<1>7. "free" \notin Calls /\ "closed" \notin Calls BY StoreAssumption
<1>8. Paired' BY <1>1, <1>3, <1>5, <1>7 DEF StoreInv, Paired
<1>9. Owned' /\ LastAttempt' /\ \A s \in Slots : Sane(backend'[s])
  BY <1>1, <1>5 DEF Owned, LastAttempt, StoreInv, Proper
<1>10. \A d \in Calls : Fits(d, call[d], backend'[call[d].slot], durable, {})
  <2> SUFFICES ASSUME NEW d \in Calls
               PROVE  Fits(d, call[d], backend'[call[d].slot], durable, {})
    OBVIOUS
  <2>1. Fits(d, call[d], backend[call[d].slot], durable, volatile) BY DEF StoreInv
  <2>2. ASSUME Holding(call[d])
        PROVE  LET e == backend'[call[d].slot] IN e.tx = "none" /\ ~e.up
    <3>1. call[d].slot \in Slots /\ pool[call[d].slot] = d BY <2>2 DEF StoreInv, Paired
    <3>2. backend'[call[d].slot] = Broken(backend[call[d].slot]) BY <1>2, <1>7, <3>1
    <3> QED BY <1>4, <3>1, <3>2, Shapes
  <2> QED BY <2>1, <2>2, CrashFits
<1> QED BY <1>1, <1>6, <1>8, <1>9, <1>10 DEF StoreInv

-----------------------------------------------------------------------------
(* The invariant and the property.                                         *)

LEMMA InitHolds == Init => StoreInv
<1> SUFFICES ASSUME Init PROVE StoreInv
  OBVIOUS
<1>1. NewCall \in CallType BY FreshCapability DEF NewCall, CallType, Pcs
<1>2. /\ \A c \in Calls : call[c] = NewCall
      /\ \A s \in Slots : pool[s] = "free" /\ backend[s] = FreshBackend
      /\ durable = {} /\ volatile = {}
  BY DEF Init
<1>3. StoreTypeOK BY <1>1, FreshIsProper DEF Init, StoreTypeOK, Proper
<1>4. NewCall.pc = "new" /\ NewCall.cap = Closed /\ NewCall.retry = FALSE BY DEF NewCall
<1>5. ~Holding(NewCall) /\ ~Running(NewCall) BY <1>4 DEF Holding, Running
<1>6. Paired BY <1>2, <1>5, FreshIsProper, StoreAssumption DEF Paired
<1>7. Owned /\ LastAttempt /\ \A s \in Slots : Sane(backend[s])
  BY <1>2, FreshIsProper DEF Owned, LastAttempt, Proper
<1>8. \A e : \A c \in Calls : Fits(c, NewCall, e, {}, {})
  <2>1. \A c \in Calls : Queued(c, NewCall)
    BY <1>4, <1>5, StoreAssumption DEF Queued, Orderly, Idle, Closed, NewCapability
  <2>2. \A c \in Calls : Unseen(c, {}, {}) BY DEF Unseen
  <2> QED BY <1>4, <1>5, <2>1, <2>2 DEF Fits, Beginning, InCallback, Committing, Ending
<1> QED BY <1>2, <1>3, <1>6, <1>7, <1>8 DEF StoreInv

LEMMA NextKeeps == StoreInv /\ [Next]_vars => StoreInv'
<1> SUFFICES ASSUME StoreInv, [Next]_vars PROVE StoreInv'
  OBVIOUS
<1>1. CASE UNCHANGED vars
  BY <1>1 DEF vars, StoreInv, StoreTypeOK, Paired, Owned, LastAttempt
<1>2. ASSUME NEW c \in Calls, Run(c) \/ Enqueue(c) \/ RefuseLocally(c) \/ Step(c)
      PROVE  StoreInv'
  BY <1>2, RunKeeps, EnqueueKeeps, RefuseLocallyKeeps, AcquireClientKeeps, CleanClientKeeps,
     BeginKeeps, StampKeeps, SendQueryKeeps, RecheckBoundaryKeeps, CallbackSettlesKeeps,
     CloseKeeps, DrainedKeeps, EnforceSyncKeeps, EnforceBoundaryKeeps, CommitKeeps,
     RollbackKeeps, ResetKeeps, AbandonKeeps, ReleaseKeeps DEF Step
<1>3. ASSUME NEW s \in Slots, LateCommit(s) PROVE StoreInv'
  BY <1>3, LateCommitKeeps
<1>4. CASE ServerCrash BY <1>4, ServerCrashKeeps
<1> QED BY <1>1, <1>2, <1>3, <1>4 DEF Next

LEMMA LateIsOwned ==
    ASSUME StoreInv, NEW w \in Late
    PROVE  /\ w \in WriteType /\ w[2] = call[w[1]].attempt
           /\ call[w[1]].pc \in {"release", "done"} => call[w[1]].outcome = "uncertain"
<1>1. PICK s \in Slots : backend[s].tx = "committing" /\ w \in backend[s].writes BY DEF Late
<1>2. w \in WriteType /\ w[1] \in Calls
  BY <1>1 DEF StoreInv, StoreTypeOK, BackendType, WriteType
<1>3. w[2] = call[w[1]].attempt BY <1>1 DEF StoreInv, Owned
<1>4. ASSUME call[w[1]].pc \in {"release", "done"}, call[w[1]].outcome # "uncertain"
      PROVE  FALSE
  <2>1. Holding(call[w[1]]) /\ call[w[1]].slot = s BY <1>1, <1>2, <1>4, NoWritesAbroad
  <2>2. Fits(w[1], call[w[1]], backend[s], durable, volatile) /\ call[w[1]].pc = "release"
    BY <1>2, <1>4, <2>1 DEF StoreInv, Holding
  <2> QED BY <1>1, <1>4, <2>2 DEF Fits, Ending
<1> QED BY <1>2, <1>3, <1>4

LEMMA InvariantSuffices == StoreInv => OutcomeIsTrue
<1> SUFFICES ASSUME StoreInv PROVE OutcomeIsTrue
  OBVIOUS
<1>1. \A w \in durable \cup volatile \cup Late : w[2] = call[w[1]].attempt
  BY LateIsOwned DEF StoreInv, LastAttempt
<1>2. ASSUME NEW c \in Calls, call[c].pc \in {"release", "done"}
      PROVE  /\ call[c].outcome # "none"
             /\ call[c].outcome = "not-committed" =>
                  (durable \cup volatile \cup Late) \cap Of(c) = {}
             /\ call[c].outcome = "committed" =>
                  durable \cap Of(c) = Written(c) /\ (volatile \cup Late) \cap Of(c) = {}
  <2> DEFINE x == call[c]
  <2>1. Fits(c, x, backend[x.slot], durable, volatile) /\ x \in CallType
    BY DEF StoreInv, StoreTypeOK
  <2>2. /\ x.outcome # "none"
        /\ x.outcome = "not-committed" => Unseen(c, durable, volatile)
        /\ x.outcome = "committed" =>
              /\ {w \in durable : w[1] = c} = WrittenBy(c, x)
              /\ \A w \in volatile : w[1] # c
    BY <1>2, <2>1 DEF Fits, Ending
  <2>3. \A w \in Of(c) : w[1] = c BY DEF Of
  <2>4. x.outcome # "uncertain" => \A w \in Late : w[1] # c BY <1>2, LateIsOwned
  <2>5. WrittenBy(c, x) = Written(c) /\ Written(c) \subseteq Of(c)
    <3>1. x.cap.issued \in Seq(Kinds) BY <2>1 DEF CallType, CapType
    <3>2. DOMAIN x.cap.issued = 1 .. Len(x.cap.issued) /\ Len(x.cap.issued) \in Nat BY <3>1
    <3>3. WrittenBy(c, x) = Written(c) BY <3>2 DEF WrittenBy, WrittenWith, Written
    <3>4. x.attempt \in 1 .. MaxAttempts /\ Len(x.cap.issued) <= MaxQueries[c] /\ MaxQueries[c] \in Nat
      BY <1>2, <2>1, StoreAssumption DEF Fits, Queued, Orderly
    <3>5. \A m \in 1 .. Len(x.cap.issued) : m \in 1 .. MaxQueries[c] BY <3>2, <3>4
    <3>6. Written(c) \subseteq Of(c) BY <3>2, <3>4, <3>5 DEF Written, Of
    <3> QED BY <3>3, <3>6
  <2> QED BY <2>2, <2>3, <2>4, <2>5 DEF Unseen
<1> QED BY <1>1, <1>2 DEF OutcomeIsTrue

\* The invariant of the store: a connection serves the call it was given to, as
\* long as its transaction is intact and not in doubt it holds exactly what the
\* attempt has sent, and nothing of the attempt is committed before its COMMIT.
THEOREM StoreInvariant == Spec => []StoreInv
<1>1. Init => StoreInv BY InitHolds
<1>2. StoreInv /\ [Next]_vars => StoreInv' BY NextKeeps
<1> QED BY <1>1, <1>2, PTL DEF Spec

\* What runSerializable reports is the truth, for good: "not-committed" only if
\* nothing of the callback is visible or can still become so, "committed" only if
\* every write of its last run, and no other, survives a crash of the server; and
\* the writes of at most one of its runs are ever committed.  For any number of
\* calls, connections, attempts and queries, whatever the callbacks send.
THEOREM StoreTellsTheTruth == Spec => []OutcomeIsTrue
BY StoreInvariant, InvariantSuffices, PTL
=============================================================================
