------------------------- MODULE PostgresConnection -------------------------
(***************************************************************************)
(* What the serializable store sees of PostgreSQL and its driver: one      *)
(* connection with its server-side backend, and for every statement the    *)
(* set of its outcomes.  Nothing here is code of the repository.           *)
(*                                                                         *)
(* A backend is [up, tx, own, writes, sync, dirty]:                        *)
(*   up      the client can still reach it                                 *)
(*   tx      no transaction, an open one, one that an error aborted, or a  *)
(*           COMMIT nobody waits for any more                              *)
(*   own     the open transaction still has the identifier read when it    *)
(*           began                                                         *)
(*   writes  the writes of the transaction, visible to nobody yet          *)
(*   sync    synchronous_commit in this transaction                        *)
(*   dirty   session state that outlives the transaction                   *)
(***************************************************************************)
EXTENDS Naturals

FreshBackend ==
    [up |-> TRUE, tx |-> "none", own |-> FALSE, writes |-> {},
     sync |-> TRUE, dirty |-> FALSE]

Ended(b) == [b EXCEPT !.tx = "none", !.own = FALSE, !.writes = {}, !.sync = TRUE]

(* A server error aborts the open transaction. *)
Aborted(b) == IF b.tx = "open" THEN [b EXCEPT !.tx = "aborted", !.writes = {}] ELSE b

(* The connection broke; the server ends its transaction. *)
Broken(b) == [Ended(b) EXCEPT !.up = FALSE]

(* A COMMIT whose answer the client gave up waiting for. *)
Unanswered(b) == [b EXCEPT !.tx = "committing"]

(* What executing a statement leads to: the backend after it, the reply,   *)
(* and the writes it made visible, durably if `sync' held.                 *)
Result(b, reply, stored, sync) ==
    [b |-> b, reply |-> reply, stored |-> stored, sync |-> sync, faults |-> 0]

Quiet(b, reply) == Result(b, reply, {}, TRUE)

CommitWith(b, after) == Result(after, "COMMIT", b.writes, b.sync)

(* The statements of the store and of its callbacks.  `w' is the write a   *)
(* "write" makes.  Inside an aborted transaction only its end is accepted. *)
Executed(b, statement, w) ==
    IF statement = "ROLLBACK" THEN Quiet(Ended(b), "ROLLBACK")
    ELSE IF statement = "COMMIT"
    THEN IF b.tx = "open" THEN CommitWith(b, Ended(b))
         ELSE Quiet(Ended(b), IF b.tx = "aborted" THEN "ROLLBACK" ELSE "COMMIT")
    ELSE IF b.tx = "aborted" THEN Quiet(b, "rejected")
    ELSE CASE statement = "DISCARD" ->
            IF b.tx = "open" THEN Quiet(Aborted(b), "rejected")
            ELSE Quiet([b EXCEPT !.dirty = FALSE], "ok")
      [] statement = "BEGIN" ->
            Quiet([b EXCEPT !.tx = "open", !.own = TRUE], "ok")
      [] statement = "XID" ->
            Quiet(b, IF b.tx = "open" /\ b.own THEN "ok" ELSE "changed")
      [] statement = "SYNC" -> Quiet([b EXCEPT !.sync = TRUE], "ok")
      [] statement = "unsync" ->
            Quiet(IF b.tx = "open" THEN [b EXCEPT !.sync = FALSE] ELSE b, "ok")
      [] statement = "session" -> Quiet([b EXCEPT !.dirty = TRUE], "ok")
      [] statement = "chain" ->
            IF b.tx = "open"
            THEN CommitWith(b, [Ended(b) EXCEPT !.tx = "open"])
            ELSE Quiet(b, "rejected")
      [] statement = "write" ->
            IF b.tx = "open" THEN Quiet([b EXCEPT !.writes = @ \cup {w}], "ok")
            ELSE Result(b, "ok", {w}, TRUE)
      [] OTHER -> Quiet(b, "ok")

(* Conflicts are ordinary; every other failure is counted. *)
Fault(r) == [r EXCEPT !.faults = 1]

(* A statement that never got to its end: a COMMIT is rolled back.         *)
Refused(b, statement) == IF statement \in {"COMMIT", "chain"} THEN Ended(b) ELSE Aborted(b)

(* The outcomes of a statement:                                            *)
(*  - executed and answered;                                               *)
(*  - rejected with the SQLSTATE of a serialization failure or a deadlock  *)
(*    (only a transaction that did some work can have one: not the one     *)
(*    that COMMIT AND CHAIN has just opened), with one that says the       *)
(*    statement was refused, or with one that vouches for nothing;         *)
(*  - executed or not, and the answer lost together with the connection;   *)
(*  - a timeout of the driver: a COMMIT may still take effect later.       *)
Outcomes(b, statement, w) ==
    IF ~b.up \/ b.tx = "committing"
    THEN {Quiet(b, "unknown")}
    ELSE LET done == Executed(b, statement, w) IN
         {done}
         \cup {Fault(Quiet(Refused(b, statement), reply)) :
                 reply \in {"rejected", "unknown"}}
         \cup {Fault([done EXCEPT !.b = Broken(@), !.reply = "unknown"]),
               Fault(Quiet(Broken(b), "unknown"))}
         \cup (IF b.tx = "open" /\ b.own
               THEN {Quiet(Refused(b, statement), "retryable")} ELSE {})
         \cup (IF b.tx = "open" /\ statement = "COMMIT"
               THEN {Fault(Quiet(Unanswered(b), "unknown"))} ELSE {})
=============================================================================
