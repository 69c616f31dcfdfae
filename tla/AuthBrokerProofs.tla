--------------------------- MODULE AuthBrokerProofs ---------------------------
(***************************************************************************)
(* The refresh token of a credential is sent once, a credential that was   *)
(* sent is never canonical again, payloads succeed one another as they may *)
(* and no grant is of a generation that can be lost, for every number of   *)
(* processes, callers, credentials, rotations and failures.                *)
(*                                                                         *)
(* The invariant is about the record l that the store shows, the record d  *)
(* that a power loss leaves and the jobs J.  Its parts take these as       *)
(* parameters, so that a step that writes the store and moves a job is     *)
(* treated as the one after the other.                                     *)
(***************************************************************************)
EXTENDS AuthBroker, TLAPS

-----------------------------------------------------------------------------
(* The inductive invariant.                                                *)

Statuses == {"none", "ready"} \cup BlockedStatuses
PayloadType == [status : Statuses, token : Nat, reservation : Nat]
CommitIds == {<<>>} \cup ((Actors \cup {"rotation"}) \X Nat)
Records == [generation : Nat, commitId : CommitIds, payload : PayloadType]
Disks == [live : Records, durable : Records, candidate : BOOLEAN]
Grants == [token : Nat, generation : Nat]
Phases == {"idle", "before", "cas", "verify", "latest", "adapter", "dispatched"}
Jobs == [pc : Phases, mode : {"none", "reserve", "commit", "recover", "install"},
         expected : Grants,
         before : PayloadType, want : PayloadType, generation : Nat,
         try : {0, 1}, may : BOOLEAN, acked : BOOLEAN, rebases : Nat]
Calls == [pc : {"idle", "shared", "join", "reread"},
          kind : {"none", "login", "refresh", "worker"},
          expected : Grants, source : Nat, tries : Nat, answered : BOOLEAN]

Writing(j) == j.pc \in {"cas", "verify", "latest"}
Reserving(j) == j.mode = "reserve" /\ Writing(j)
Owns(j) == Reserving(j) \/ j.mode = "commit"
Attempt(j) == IF j.mode = "reserve" THEN j.want.reservation ELSE j.before.reservation

\* What a job is about to write, by its mode.
Shaped(J) ==
    \A a \in Actors : LET j == J[a] IN
        /\ j.pc \in {"adapter", "dispatched"} => j.mode = "commit"
        /\ j.mode = "commit" => j.pc \notin {"idle", "before"}
        /\ Writing(j) => j.mode # "none"
        /\ Reserving(j) => /\ j.before = ReadyPayload(j.before.token)
                           /\ j.want.status = "in_progress"
                           /\ j.want.token = j.before.token
        /\ j.mode = "commit" => j.before.status = "in_progress"
        /\ j.mode = "commit" /\ Writing(j) /\ j.want.status # "ready" =>
              /\ j.want.status \in {"recovery", "reauth"}
              /\ j.want.token = j.before.token
              /\ j.want.reservation = j.before.reservation
        /\ Writing(j) /\ j.want.status = "ready" => j.want = ReadyPayload(j.want.token)
        /\ Writing(j) /\ j.mode \in {"recover", "install"} => j.want.status = "ready"
        /\ j.mode = "install" => j.pc # "latest"

\* A reservation belongs to one process.
Distinct(J) ==
    \A a, b \in Actors : Owns(J[a]) /\ Owns(J[b]) /\ a # b => Attempt(J[a]) # Attempt(J[b])

\* Credentials and attempts are used only after they were issued.
Bounded(l, d, J, sp, og, nt, na) ==
    /\ \A r \in {l, d} :
         /\ r.payload.token < nt /\ r.payload.reservation < na
         /\ r.payload.status # "none" => r.payload.token \in Tokens
         /\ r.payload.status = "ready" => r.payload.reservation = 0
    /\ \A a \in Actors : Owns(J[a]) =>
         J[a].before.token \in Tokens /\ J[a].before.token < nt /\ Attempt(J[a]) < na
    /\ \A a \in Actors : Writing(J[a]) => J[a].want.token \in Tokens /\ J[a].want.token < nt
    /\ \A t \in Tokens : t >= nt => sp[t] = 0 /\ og[t] = 0

\* Nobody but actor a knows of credential n.
Unborn(n, a, l, d, J, sp) ==
    /\ n \in Tokens /\ sp[n] = 0
    /\ l.payload.token # n /\ d.payload.token # n
    /\ \A b \in Actors :
         /\ Owns(J[b]) => J[b].before.token # n
         /\ Writing(J[b]) /\ b # a => J[b].want.token # n

\* A swap that can still take place, or will, replaces what its job has seen.
BasedAt(a, l, d, J, sp, og) ==
    LET j == J[a] IN
    /\ j.pc \in {"cas", "adapter", "dispatched"} => j.generation <= l.generation
    /\ j.pc \in {"cas", "adapter", "dispatched"} /\ j.generation = l.generation =>
          /\ j.mode \in {"reserve", "commit"} => l.payload = j.before
          /\ j.mode = "recover" => /\ l.payload.status \in BlockedStatuses
                                   /\ Unborn(j.want.token, a, l, d, J, sp)
                                   /\ og[j.want.token] = l.payload.reservation
          /\ j.mode = "install" => /\ l.payload.status \notin BlockedStatuses
                                   /\ \/ j.want = l.payload
                                      \/ /\ Unborn(j.want.token, a, l, d, J, sp)
                                         /\ og[j.want.token] = 0
    /\ j.mode = "commit" /\ Writing(j) /\ j.want.status = "ready" /\ l.payload = j.before =>
          \/ j.want.token = j.before.token
          \/ /\ Unborn(j.want.token, a, l, d, J, sp)
             /\ og[j.want.token] = j.before.reservation

Based(l, d, J, sp, og) == \A a \in Actors : BasedAt(a, l, d, J, sp, og)

\* Credential t is canonical only under reservation n.
Fenced(t, n, l, d) ==
    \A r \in {l, d} : r.payload.token = t =>
        r.payload.status \in BlockedStatuses /\ r.payload.reservation = n

\* Whoever may call the adapter is the only one who may send its credential.
Reserved(l, d, J, sp) ==
    \A a \in Actors : J[a].pc = "adapter" =>
        /\ J[a].before.token \in Tokens /\ sp[J[a].before.token] = 0
        /\ Fenced(J[a].before.token, J[a].before.reservation, l, d)
        /\ \A b \in Actors : b # a /\ J[b].pc = "adapter" =>
              J[b].before.token # J[a].before.token

\* The reservation under which a credential was sent stays until another
\* credential replaces it.
Closed(t, n, l, d, J) ==
    /\ Fenced(t, n, l, d)
    /\ \A a \in Actors : Owns(J[a]) /\ J[a].before.token = t =>
         /\ J[a].pc # "adapter"
         /\ Reserving(J[a]) => Attempt(J[a]) # n
         /\ J[a].mode = "commit" /\ Writing(J[a]) /\ Attempt(J[a]) = n =>
               J[a].want # ReadyPayload(t)

SentIsClosed(l, d, J, sp) ==
    \A t \in Tokens : sp[t] > 0 => \E n \in Nat : Closed(t, n, l, d, J)

BrokerTypeOK ==
    /\ disk \in Disks
    /\ job \in [Actors -> Jobs]
    /\ call \in [Callers -> Calls] /\ held \in [Callers -> Grants]
    /\ spends \in [Tokens -> Nat] /\ origin \in [Tokens -> Nat]
    /\ nextToken \in 1 .. MaxTokens + 1 /\ nextAttempt \in Nat \ {0}

Typed(l, d, J, sp, og, nt, na) ==
    /\ l \in Records /\ d \in Records
    /\ \A a \in Actors : J[a] \in Jobs
    /\ \A t \in Tokens : sp[t] \in Nat /\ og[t] \in Nat
    /\ nt \in Nat \ {0} /\ na \in Nat \ {0}

\* What the directory loses is older than what it shows.
Durable(l, d) == d.generation <= l.generation

Good(l, d, J, sp, og, nt, na) ==
    /\ Typed(l, d, J, sp, og, nt, na)
    /\ Shaped(J) /\ Distinct(J) /\ Bounded(l, d, J, sp, og, nt, na)
    /\ Based(l, d, J, sp, og) /\ Reserved(l, d, J, sp) /\ SentIsClosed(l, d, J, sp)
    /\ Durable(l, d)

BrokerInv ==
    /\ BrokerTypeOK
    /\ Good(disk.live, disk.durable, job, spends, origin, nextToken, nextAttempt)
    /\ SpentOnce /\ DeliveredIsDurable

-----------------------------------------------------------------------------
(* What the store writes.                                                  *)

\* A read synchronizes the directory.
LEMMA SyncKeeps ==
    ASSUME NEW l, NEW d, NEW J, NEW sp, NEW og, NEW nt, NEW na,
           Good(l, d, J, sp, og, nt, na)
    PROVE  Good(l, l, J, sp, og, nt, na)
<1> USE DEF Good
<1>1. Typed(l, l, J, sp, og, nt, na) /\ Durable(l, l) BY DEF Typed, Durable, Records
<1>2. Bounded(l, l, J, sp, og, nt, na) BY DEF Bounded
<1>3. Based(l, l, J, sp, og) BY DEF Based, BasedAt, Unborn
<1>4. Reserved(l, l, J, sp) BY DEF Reserved, Fenced
<1>5. SentIsClosed(l, l, J, sp) BY DEF SentIsClosed, Closed, Fenced
<1> QED BY <1>1, <1>2, <1>3, <1>4, <1>5

\* A rotation writes the payload once more.
LEMMA RotateKeeps ==
    ASSUME NEW l, NEW d, NEW J, NEW sp, NEW og, NEW nt, NEW na,
           Good(l, d, J, sp, og, nt, na),
           NEW r \in Records, r.generation = l.generation + 1, r.payload = l.payload
    PROVE  Good(r, d, J, sp, og, nt, na)
<1> USE DEF Good
<1>1. Typed(r, d, J, sp, og, nt, na) /\ Durable(r, d) BY DEF Typed, Durable, Records
<1>2. Bounded(r, d, J, sp, og, nt, na) BY DEF Bounded
<1>3. Based(r, d, J, sp, og) BY DEF Based, BasedAt, Unborn, Typed, Jobs, Records
<1>4. Reserved(r, d, J, sp) BY DEF Reserved, Fenced
<1>5. SentIsClosed(r, d, J, sp) BY DEF SentIsClosed, Closed, Fenced
<1> QED BY <1>1, <1>2, <1>3, <1>4, <1>5

\* The power is lost and with it every job.
LEMMA LossKeeps ==
    ASSUME NEW l, NEW d, NEW J, NEW sp, NEW og, NEW nt, NEW na,
           Good(l, d, J, sp, og, nt, na),
           NEW K, \A a \in Actors : K[a] = IdleJob /\ K[a] \in Jobs
    PROVE  Good(d, d, K, sp, og, nt, na)
<1> USE DEF Good
<1>a. \A a \in Actors : K[a].pc = "idle" /\ K[a].mode = "none" BY DEF IdleJob
<1>1. Typed(d, d, K, sp, og, nt, na) /\ Durable(d, d) BY DEF Typed, Durable, Records
<1>2. Shaped(K) /\ Distinct(K) BY <1>a DEF Shaped, Distinct, Owns, Reserving, Writing
<1>3. Bounded(d, d, K, sp, og, nt, na) BY <1>a DEF Bounded, Owns, Reserving, Writing
<1>4. Based(d, d, K, sp, og) BY <1>a DEF Based, BasedAt, Writing
<1>5. Reserved(d, d, K, sp) BY <1>a DEF Reserved
<1>6. SentIsClosed(d, d, K, sp)
  BY <1>a DEF SentIsClosed, Closed, Fenced, Owns, Reserving, Writing
<1> QED BY <1>1, <1>2, <1>3, <1>4, <1>5, <1>6

\* What a swap that can take place writes: only its own reservation, its own
\* fence, a credential nobody knows or the payload that is there.
Swaps(a, l, d, J, sp, og) ==
    LET j == J[a] IN
    \/ /\ j.mode = "reserve" /\ l.payload = ReadyPayload(j.before.token)
       /\ l.payload = j.before /\ j.want.status = "in_progress"
       /\ j.want.token = j.before.token
    \/ /\ j.mode = "commit" /\ l.payload = j.before
       /\ j.want.status \in {"recovery", "reauth"}
       /\ j.want.token = j.before.token
       /\ j.want.reservation = j.before.reservation
    \/ /\ j.mode = "commit" /\ l.payload = j.before
       /\ j.want = ReadyPayload(j.before.token)
    \/ /\ j.mode = "commit" /\ l.payload = j.before
       /\ j.want = ReadyPayload(j.want.token)
       /\ Unborn(j.want.token, a, l, d, J, sp)
       /\ og[j.want.token] = j.before.reservation
    \/ /\ j.mode = "recover" /\ l.payload.status \in BlockedStatuses
       /\ j.want = ReadyPayload(j.want.token)
       /\ Unborn(j.want.token, a, l, d, J, sp)
       /\ og[j.want.token] = l.payload.reservation
    \/ /\ j.mode = "install" /\ l.payload.status \notin BlockedStatuses
       /\ j.want = ReadyPayload(j.want.token)
       /\ Unborn(j.want.token, a, l, d, J, sp)
       /\ og[j.want.token] = 0
    \/ /\ j.mode = "install" /\ l.payload.status \notin BlockedStatuses
       /\ j.want = l.payload

LEMMA SwapWrites ==
    ASSUME NEW l, NEW d, NEW J, NEW sp, NEW og, NEW nt, NEW na,
           Good(l, d, J, sp, og, nt, na),
           NEW a \in Actors, J[a].pc = "cas", J[a].generation = l.generation
    PROVE  Swaps(a, l, d, J, sp, og)
BY DEF Good, Shaped, Based, BasedAt, Reserving, Writing, Typed, Jobs, Swaps

LEMMA SwapKeeps ==
    ASSUME NEW l, NEW d, NEW J, NEW sp, NEW og, NEW nt, NEW na,
           Good(l, d, J, sp, og, nt, na),
           NEW a \in Actors, J[a].pc = "cas", J[a].generation = l.generation,
           NEW r \in Records, r.generation = l.generation + 1, r.payload = J[a].want
    PROVE  Good(r, d, J, sp, og, nt, na)
<1>0. Swaps(a, l, d, J, sp, og) BY SwapWrites
<1> USE DEF Good
<1>1. Typed(r, d, J, sp, og, nt, na) /\ Durable(r, d) BY DEF Typed, Durable, Records
<1>2. Bounded(r, d, J, sp, og, nt, na)
  <2>1. r.payload.token < nt /\ r.payload.token \in Tokens BY DEF Bounded, Writing
  <2>2. r.payload.reservation < na
    BY <1>0 DEF Swaps, Bounded, Typed, Owns, Reserving, Writing, Attempt, ReadyPayload,
       Payload
  <2>3. r.payload.status = "ready" => r.payload.reservation = 0
    <3>1. Writing(J[a]) BY DEF Writing
    <3>2. J[a].want.status = "ready" => J[a].want = ReadyPayload(J[a].want.token)
      BY <3>1 DEF Shaped
    <3>3. \A t : ReadyPayload(t).reservation = 0 BY DEF ReadyPayload, Payload
    <3> QED BY <3>2, <3>3
  <2> QED BY <2>1, <2>2, <2>3 DEF Bounded
<1>3. Based(r, d, J, sp, og)
  <2>1. ASSUME NEW b \in Actors, J[b].pc \in {"cas", "adapter", "dispatched"}
        PROVE  J[b].generation < r.generation
    BY <2>1 DEF Based, BasedAt, Typed, Jobs, Records
  <2>2. ASSUME NEW b \in Actors, J[b].mode = "commit" PROVE r.payload # J[b].before
    <3>1. J[b].before.status = "in_progress" /\ Owns(J[b]) BY <2>2 DEF Shaped, Owns
    <3>2. CASE J[a].mode = "reserve"
      BY <2>2, <3>1, <3>2 DEF Distinct, Owns, Reserving, Writing, Attempt
    <3>3. CASE J[a].mode # "reserve" /\ r.payload = l.payload
      BY <1>0, <3>1, <3>3 DEF Swaps, BlockedStatuses, ReadyPayload, Payload
    <3>4. CASE J[a].mode # "reserve" /\ r.payload # l.payload
      BY <1>0, <3>1, <3>4 DEF Swaps, ReadyPayload, Payload
    <3> QED BY <3>2, <3>3, <3>4
  <2> QED BY <2>1, <2>2 DEF Based, BasedAt, Typed, Jobs, Records
<1>4. \A t \in Nat, n \in Nat :
         /\ Fenced(t, n, l, d)
         /\ ~Unborn(t, a, l, d, J, sp)
         /\ \A b \in Actors : ~(/\ J[b].mode = "commit" /\ Writing(J[b])
                               /\ J[b].before.token = t /\ Attempt(J[b]) = n
                               /\ J[b].want = ReadyPayload(t))
         => Fenced(t, n, r, d)
  <2> SUFFICES ASSUME NEW t \in Nat, NEW n \in Nat,
                      Fenced(t, n, l, d), ~Unborn(t, a, l, d, J, sp),
                      ~(/\ J[a].mode = "commit" /\ J[a].before.token = t
                        /\ Attempt(J[a]) = n /\ J[a].want = ReadyPayload(t)),
                      J[a].want.token = t
               PROVE  /\ J[a].want.status \in BlockedStatuses
                      /\ J[a].want.reservation = n
    BY DEF Fenced, Writing
  <2> QED BY <1>0 DEF Swaps, Fenced, BlockedStatuses, ReadyPayload, Payload, Attempt
<1>5. Reserved(r, d, J, sp)
  <2> SUFFICES ASSUME NEW b \in Actors, J[b].pc = "adapter"
               PROVE  Fenced(J[b].before.token, J[b].before.reservation, r, d)
    BY DEF Reserved
  <2>1. J[b].before.token \in Nat /\ J[b].before.reservation \in Nat
    BY DEF Typed, Jobs, PayloadType
  <2>2. J[b].mode = "commit" /\ Owns(J[b]) /\ Attempt(J[b]) = J[b].before.reservation
    BY DEF Shaped, Owns, Attempt
  <2>3. ~Unborn(J[b].before.token, a, l, d, J, sp) BY <2>2 DEF Unborn
  <2>4. \A c \in Actors : J[c].mode = "commit" /\ Writing(J[c]) =>
          Attempt(J[c]) # J[b].before.reservation
    BY <2>2 DEF Distinct, Owns, Writing
  <2> QED BY <1>4, <2>1, <2>3, <2>4 DEF Reserved
<1>6. SentIsClosed(r, d, J, sp)
  <2> SUFFICES ASSUME NEW t \in Tokens, sp[t] > 0
               PROVE  \E n \in Nat : Closed(t, n, r, d, J)
    BY DEF SentIsClosed
  <2>1. PICK n \in Nat : Closed(t, n, l, d, J) BY DEF SentIsClosed
  <2>2. t \in Nat /\ ~Unborn(t, a, l, d, J, sp) BY DEF Unborn, Tokens
  <2>3. Fenced(t, n, r, d) BY <1>4, <2>1, <2>2 DEF Closed, Owns
  <2> QED BY <2>1, <2>3 DEF Closed
<1> QED BY <1>1, <1>2, <1>3, <1>5, <1>6

-----------------------------------------------------------------------------
(* How a job moves.                                                        *)

\* Only actor a's job is another.
Moved(J, K, a) == \A b \in Actors : K[b] \in Jobs /\ (b # a => K[b] = J[b])

\* A job that ends, or begins with a read, owns nothing.
LEMMA BlankKeeps ==
    ASSUME NEW l, NEW d, NEW J, NEW sp, NEW og, NEW nt, NEW na,
           Good(l, d, J, sp, og, nt, na),
           NEW a \in Actors, NEW K, Moved(J, K, a),
           K[a].pc \in {"idle", "before"},
           K[a].mode # "commit"
    PROVE  Good(l, d, K, sp, og, nt, na)
<1>a. /\ ~Writing(K[a]) /\ ~Reserving(K[a]) /\ ~Owns(K[a])
  BY DEF Good, Moved, Typed, Jobs, Shaped, Writing, Reserving, Owns, Attempt
<1> USE <1>a DEF Good, Moved
<1>1. Typed(l, d, K, sp, og, nt, na) BY DEF Typed
<1>2. Shaped(K) BY DEF Shaped
<1>3. Distinct(K) BY DEF Distinct, Bounded
<1>4. Bounded(l, d, K, sp, og, nt, na) BY DEF Bounded
<1>5. Based(l, d, K, sp, og) BY DEF Based, BasedAt, Unborn
<1>6. Reserved(l, d, K, sp) BY DEF Reserved
<1>7. SentIsClosed(l, d, K, sp) BY DEF SentIsClosed, Closed
<1> QED BY <1>1, <1>2, <1>3, <1>4, <1>5, <1>6, <1>7

\* A job that tries again, verifies or reconciles has the same purpose.
LEMMA StayKeeps ==
    ASSUME NEW l, NEW d, NEW J, NEW sp, NEW og, NEW nt, NEW na,
           Good(l, d, J, sp, og, nt, na),
           NEW a \in Actors, NEW K, Moved(J, K, a),
           K[a].mode = J[a].mode, K[a].before = J[a].before, K[a].want = J[a].want,
           K[a].generation = J[a].generation,
           Writing(J[a]),
           K[a].pc \in {J[a].pc, "verify", "latest"},
           J[a].mode = "install" => K[a].pc # "latest"
    PROVE  Good(l, d, K, sp, og, nt, na)
<1>a. /\ Writing(K[a]) /\ Writing(J[a]) /\ (Reserving(K[a]) <=> Reserving(J[a]))
      /\ (Owns(K[a]) <=> Owns(J[a])) /\ Attempt(K[a]) = Attempt(J[a])
      /\ K[a].pc \notin {"idle", "before", "adapter", "dispatched"}
      /\ J[a].pc \notin {"idle", "before", "adapter", "dispatched"}
  <2>1. Writing(K[a]) /\ Writing(J[a]) /\ (Reserving(K[a]) <=> Reserving(J[a]))
    BY DEF Good, Moved, Typed, Jobs, Shaped, Writing, Reserving, Owns, Attempt
  <2>2. (Owns(K[a]) <=> Owns(J[a])) /\ Attempt(K[a]) = Attempt(J[a])
    BY <2>1 DEF Good, Moved, Typed, Jobs, Shaped, Writing, Reserving, Owns, Attempt
  <2>3. K[a].pc \notin {"idle", "before", "adapter", "dispatched"}
    BY <2>1, <2>2 DEF Good, Moved, Typed, Jobs, Shaped, Writing, Reserving, Owns, Attempt
  <2>4. J[a].pc \notin {"idle", "before", "adapter", "dispatched"}
    BY <2>1, <2>2, <2>3 DEF Good, Moved, Typed, Jobs, Shaped, Writing, Reserving, Owns,
       Attempt
  <2> QED BY <2>1, <2>2, <2>3, <2>4
<1> USE <1>a DEF Good, Moved
<1>1. Typed(l, d, K, sp, og, nt, na) BY DEF Typed
<1>2. Shaped(K) BY DEF Shaped
<1>3. Distinct(K) BY DEF Distinct, Bounded
<1>4. Bounded(l, d, K, sp, og, nt, na) BY DEF Bounded
<1>5. Based(l, d, K, sp, og) BY DEF Based, BasedAt, Unborn
<1>6. Reserved(l, d, K, sp) BY DEF Reserved
<1>7. SentIsClosed(l, d, K, sp) BY DEF SentIsClosed, Closed
<1> QED BY <1>1, <1>2, <1>3, <1>4, <1>5, <1>6, <1>7

\* A swap is tried again on top of the payload it started from.
LEMMA RebaseKeeps ==
    ASSUME NEW l, NEW d, NEW J, NEW sp, NEW og, NEW nt, NEW na,
           Good(l, d, J, sp, og, nt, na),
           NEW a \in Actors, NEW K, Moved(J, K, a),
           K[a].mode = J[a].mode, K[a].before = J[a].before, K[a].want = J[a].want,
           J[a].pc = "latest", J[a].mode \in {"reserve", "commit"},
           K[a].pc = "cas", K[a].generation = l.generation, l.payload = J[a].before
    PROVE  Good(l, d, K, sp, og, nt, na)
<1>a. /\ Writing(K[a]) /\ Writing(J[a]) /\ (Reserving(K[a]) <=> Reserving(J[a]))
      /\ (Owns(K[a]) <=> Owns(J[a])) /\ Attempt(K[a]) = Attempt(J[a])
      /\ l.generation \in Nat
  <2>1. Writing(K[a]) /\ Writing(J[a]) /\ (Reserving(K[a]) <=> Reserving(J[a]))
    BY DEF Good, Moved, Typed, Jobs, Shaped, Writing, Reserving, Owns, Attempt, Records
  <2>2. (Owns(K[a]) <=> Owns(J[a])) /\ Attempt(K[a]) = Attempt(J[a])
    BY <2>1 DEF Good, Moved, Typed, Jobs, Shaped, Writing, Reserving, Owns, Attempt, Records
  <2>3. l.generation \in Nat
    BY <2>1, <2>2 DEF Good, Moved, Typed, Jobs, Shaped, Writing, Reserving, Owns, Attempt,
       Records
  <2> QED BY <2>1, <2>2, <2>3
<1> USE <1>a DEF Good, Moved
<1>1. Typed(l, d, K, sp, og, nt, na) BY DEF Typed
<1>2. Shaped(K) BY DEF Shaped
<1>3. Distinct(K) BY DEF Distinct, Bounded
<1>4. Bounded(l, d, K, sp, og, nt, na) BY DEF Bounded
<1>5. Based(l, d, K, sp, og) BY DEF Based, BasedAt, Unborn
<1>6. Reserved(l, d, K, sp) BY DEF Reserved
<1>7. SentIsClosed(l, d, K, sp) BY DEF SentIsClosed, Closed
<1> QED BY <1>1, <1>2, <1>3, <1>4, <1>5, <1>6, <1>7

\* A ready credential is reserved under a new attempt.
LEMMA ReserveKeeps ==
    ASSUME NEW l, NEW d, NEW J, NEW sp, NEW og, NEW nt, NEW na,
           Good(l, d, J, sp, og, nt, na),
           NEW a \in Actors, NEW K, Moved(J, K, a),
           ~Owns(J[a]),
           K[a].pc = "cas", K[a].mode = "reserve", K[a].generation = l.generation,
           K[a].before = l.payload, l.payload = ReadyPayload(l.payload.token),
           K[a].want = RefreshReservationPayload(l.payload.token, na)
    PROVE  Good(l, d, K, sp, og, nt, na + 1)
<1>a. /\ Writing(K[a]) /\ Reserving(K[a]) /\ Owns(K[a]) /\ Attempt(K[a]) = na
      /\ ~Reserving(J[a])
      /\ K[a].want.status = "in_progress" /\ K[a].want.token = l.payload.token
      /\ l.payload.status = "ready" /\ l.payload.token \in Tokens /\ l.payload.token < nt
      /\ l.generation \in Nat /\ l.payload.token \in Nat /\ na \in Nat
  <2>1. Writing(K[a]) /\ Reserving(K[a]) /\ Owns(K[a]) /\ Attempt(K[a]) = na
    BY DEF Good, Moved, Typed, Jobs, Shaped, Writing, Reserving, Owns, Attempt,
       ReadyPayload, RefreshReservationPayload, BlockedPayload, Payload, Records,
       PayloadType, Bounded
  <2>2. ~Reserving(J[a])
    BY <2>1 DEF Good, Moved, Typed, Jobs, Shaped, Writing, Reserving, Owns, Attempt,
       ReadyPayload, RefreshReservationPayload, BlockedPayload, Payload, Records,
       PayloadType, Bounded
  <2>3. K[a].want.status = "in_progress" /\ K[a].want.token = l.payload.token
    BY <2>1, <2>2 DEF Good, Moved, Typed, Jobs, Shaped, Writing, Reserving, Owns, Attempt,
       ReadyPayload, RefreshReservationPayload, BlockedPayload, Payload, Records,
       PayloadType, Bounded
  <2>4. l.payload.status = "ready" /\ l.payload.token \in Tokens /\ l.payload.token < nt
    BY <2>1, <2>2, <2>3 DEF Good, Moved, Typed, Jobs, Shaped, Writing, Reserving, Owns,
       Attempt, ReadyPayload, RefreshReservationPayload, BlockedPayload, Payload, Records,
       PayloadType, Bounded
  <2>5. l.generation \in Nat /\ l.payload.token \in Nat /\ na \in Nat
    BY <2>1, <2>2, <2>3, <2>4 DEF Good, Moved, Typed, Jobs, Shaped, Writing, Reserving,
       Owns, Attempt, ReadyPayload, RefreshReservationPayload, BlockedPayload, Payload,
       Records, PayloadType, Bounded
  <2> QED BY <2>1, <2>2, <2>3, <2>4, <2>5
<1> USE <1>a DEF Good, Moved
<1>b. /\ \A b \in Actors : Attempt(J[b]) \in Nat
      /\ l.payload.reservation \in Nat /\ d.payload.reservation \in Nat
  BY DEF Typed, Jobs, Records, PayloadType, Attempt
<1> USE <1>b
<1>1. Typed(l, d, K, sp, og, nt, na + 1) BY DEF Typed
<1>2. Shaped(K) BY DEF Shaped
<1>3. Distinct(K) BY DEF Distinct, Bounded
<1>4. Bounded(l, d, K, sp, og, nt, na + 1) BY DEF Bounded
<1>5. Based(l, d, K, sp, og) BY DEF Based, BasedAt, Unborn
<1>6. Reserved(l, d, K, sp) BY DEF Reserved
<1>7. SentIsClosed(l, d, K, sp) BY DEF SentIsClosed, Closed, Fenced, BlockedStatuses
<1> QED BY <1>1, <1>2, <1>3, <1>4, <1>5, <1>6, <1>7

\* A reservation that is canonical and durable lets its owner go on.
LEMMA AdapterKeeps ==
    ASSUME NEW l, NEW d, NEW J, NEW sp, NEW og, NEW nt, NEW na,
           Good(l, d, J, sp, og, nt, na),
           NEW a \in Actors, NEW K, Moved(J, K, a),
           Reserving(J[a]), d = l, l.payload = J[a].want,
           K[a].pc = "adapter", K[a].mode = "commit",
           K[a].before = J[a].want, K[a].generation = l.generation
    PROVE  Good(l, d, K, sp, og, nt, na)
<1>a. /\ ~Writing(K[a]) /\ ~Reserving(K[a]) /\ Owns(K[a])
      /\ Writing(J[a]) /\ Owns(J[a]) /\ Attempt(K[a]) = Attempt(J[a])
      /\ Attempt(K[a]) = l.payload.reservation /\ Attempt(K[a]) \in Nat
      /\ K[a].before.status = "in_progress" /\ K[a].before.token = J[a].before.token
      /\ K[a].before.token = l.payload.token /\ l.payload.status = "in_progress"
      /\ l.generation \in Nat /\ K[a].before.token \in Tokens
  <2>1. ~Writing(K[a]) /\ ~Reserving(K[a]) /\ Owns(K[a])
    BY DEF Good, Moved, Typed, Jobs, Shaped, Writing, Reserving, Owns, Attempt, Records,
       PayloadType, Bounded
  <2>2. Writing(J[a]) /\ Owns(J[a]) /\ Attempt(K[a]) = Attempt(J[a])
    BY <2>1 DEF Good, Moved, Typed, Jobs, Shaped, Writing, Reserving, Owns, Attempt,
       Records, PayloadType, Bounded
  <2>3. Attempt(K[a]) = l.payload.reservation /\ Attempt(K[a]) \in Nat
    BY <2>1, <2>2 DEF Good, Moved, Typed, Jobs, Shaped, Writing, Reserving, Owns, Attempt,
       Records, PayloadType, Bounded
  <2>4. K[a].before.status = "in_progress" /\ K[a].before.token = J[a].before.token
    BY <2>1, <2>2, <2>3 DEF Good, Moved, Typed, Jobs, Shaped, Writing, Reserving, Owns,
       Attempt, Records, PayloadType, Bounded
  <2>5. K[a].before.token = l.payload.token /\ l.payload.status = "in_progress"
    BY <2>1, <2>2, <2>3, <2>4 DEF Good, Moved, Typed, Jobs, Shaped, Writing, Reserving,
       Owns, Attempt, Records, PayloadType, Bounded
  <2>6. l.generation \in Nat /\ K[a].before.token \in Tokens
    BY <2>1, <2>2, <2>3, <2>4, <2>5 DEF Good, Moved, Typed, Jobs, Shaped, Writing,
       Reserving, Owns, Attempt, Records, PayloadType, Bounded
  <2> QED BY <2>1, <2>2, <2>3, <2>4, <2>5, <2>6
<1> USE <1>a DEF Good, Moved
<1>b. sp[K[a].before.token] = 0
  <2> SUFFICES ASSUME sp[K[a].before.token] > 0 PROVE FALSE
    BY DEF Typed
  <2>1. PICK n \in Nat : Closed(K[a].before.token, n, l, d, J) BY DEF SentIsClosed
  <2>2. Attempt(J[a]) = n BY <2>1 DEF Closed, Fenced
  <2> QED BY <2>1, <2>2 DEF Closed
<1>c. \A b \in Actors : b # a /\ J[b].pc = "adapter" => J[b].before.token # K[a].before.token
  <2> SUFFICES ASSUME NEW b \in Actors, b # a, J[b].pc = "adapter",
                      J[b].before.token = K[a].before.token
               PROVE  FALSE
    OBVIOUS
  <2>1. J[b].before.reservation = Attempt(J[a]) BY DEF Reserved, Fenced
  <2>2. Owns(J[b]) /\ Attempt(J[b]) = J[b].before.reservation BY DEF Shaped, Owns, Attempt
  <2> QED BY <2>1, <2>2 DEF Distinct
<1>1. Typed(l, d, K, sp, og, nt, na) BY DEF Typed
<1>2. Shaped(K) BY DEF Shaped
<1>3. Distinct(K)
  <2>1. \A b \in Actors : Owns(K[b]) => Owns(J[b]) /\ Attempt(K[b]) = Attempt(J[b])
    OBVIOUS
  <2> QED BY <2>1 DEF Distinct
<1>4. Bounded(l, d, K, sp, og, nt, na) BY DEF Bounded
<1>5. Based(l, d, K, sp, og) BY DEF Based, BasedAt, Unborn
<1>6. Reserved(l, d, K, sp) BY <1>b, <1>c DEF Reserved, Fenced, BlockedStatuses
<1>7. SentIsClosed(l, d, K, sp) BY <1>b DEF SentIsClosed, Closed
<1> QED BY <1>1, <1>2, <1>3, <1>4, <1>5, <1>6, <1>7

\* An adapter that sent nothing gives the credential back.
LEMMA RestoreKeeps ==
    ASSUME NEW l, NEW d, NEW J, NEW sp, NEW og, NEW nt, NEW na,
           Good(l, d, J, sp, og, nt, na),
           NEW a \in Actors, NEW K, Moved(J, K, a),
           J[a].pc = "adapter", K[a].pc = "cas", K[a].mode = "commit",
           K[a].before = J[a].before, K[a].generation = J[a].generation,
           K[a].want = ReadyPayload(J[a].before.token)
    PROVE  Good(l, d, K, sp, og, nt, na)
<1>a. /\ ~Writing(J[a]) /\ ~Reserving(J[a]) /\ Owns(J[a]) /\ J[a].mode = "commit"
      /\ Writing(K[a]) /\ ~Reserving(K[a]) /\ Owns(K[a])
      /\ Attempt(K[a]) = J[a].before.reservation /\ Attempt(J[a]) = J[a].before.reservation
      /\ J[a].before.token \in Tokens /\ J[a].before.token < nt
      /\ J[a].before.status = "in_progress"
      /\ K[a].want.status = "ready" /\ K[a].want.token = J[a].before.token
  <2>1. ~Writing(J[a]) /\ ~Reserving(J[a]) /\ Owns(J[a]) /\ J[a].mode = "commit"
    BY DEF Good, Moved, Typed, Jobs, Shaped, Writing, Reserving, Owns, Attempt,
       ReadyPayload, RefreshReservationPayload, BlockedPayload, Payload, Bounded
  <2>2. Writing(K[a]) /\ ~Reserving(K[a]) /\ Owns(K[a])
    BY <2>1 DEF Good, Moved, Typed, Jobs, Shaped, Writing, Reserving, Owns, Attempt,
       ReadyPayload, RefreshReservationPayload, BlockedPayload, Payload, Bounded
  <2>3. Attempt(K[a]) = J[a].before.reservation /\ Attempt(J[a]) = J[a].before.reservation
    BY <2>1, <2>2 DEF Good, Moved, Typed, Jobs, Shaped, Writing, Reserving, Owns, Attempt,
       ReadyPayload, RefreshReservationPayload, BlockedPayload, Payload, Bounded
  <2>4. J[a].before.token \in Tokens /\ J[a].before.token < nt
    BY <2>1, <2>2, <2>3 DEF Good, Moved, Typed, Jobs, Shaped, Writing, Reserving, Owns,
       Attempt, ReadyPayload, RefreshReservationPayload, BlockedPayload, Payload, Bounded
  <2>5. J[a].before.status = "in_progress"
    BY <2>1, <2>2, <2>3, <2>4 DEF Good, Moved, Typed, Jobs, Shaped, Writing, Reserving,
       Owns, Attempt, ReadyPayload, RefreshReservationPayload, BlockedPayload, Payload,
       Bounded
  <2>6. K[a].want.status = "ready" /\ K[a].want.token = J[a].before.token
    BY <2>1, <2>2, <2>3, <2>4, <2>5 DEF Good, Moved, Typed, Jobs, Shaped, Writing,
       Reserving, Owns, Attempt, ReadyPayload, RefreshReservationPayload, BlockedPayload,
       Payload, Bounded
  <2> QED BY <2>1, <2>2, <2>3, <2>4, <2>5, <2>6
<1> USE <1>a DEF Good, Moved
<1>1. Typed(l, d, K, sp, og, nt, na) BY DEF Typed
<1>2. Shaped(K) BY DEF Shaped
<1>3. Distinct(K) BY DEF Distinct, Bounded
<1>4. Bounded(l, d, K, sp, og, nt, na) BY DEF Bounded
<1>5. Based(l, d, K, sp, og) BY SMTT(30) DEF Based, BasedAt, Unborn
<1>6. Reserved(l, d, K, sp) BY DEF Reserved
<1>7. SentIsClosed(l, d, K, sp) BY DEF SentIsClosed, Closed
<1> QED BY <1>1, <1>2, <1>3, <1>4, <1>5, <1>6, <1>7

\* A failure after the dispatch blocks the authority under its fence.
LEMMA BlockKeeps ==
    ASSUME NEW l, NEW d, NEW J, NEW sp, NEW og, NEW nt, NEW na,
           Good(l, d, J, sp, og, nt, na),
           NEW a \in Actors, NEW K, Moved(J, K, a),
           J[a].pc = "dispatched", K[a].pc = "cas", K[a].mode = "commit",
           K[a].before = J[a].before, K[a].generation = J[a].generation,
           NEW status \in {"recovery", "reauth"},
           K[a].want = BlockedPayload(status, J[a].before)
    PROVE  Good(l, d, K, sp, og, nt, na)
<1>a. /\ ~Writing(J[a]) /\ ~Reserving(J[a]) /\ Owns(J[a]) /\ J[a].mode = "commit"
      /\ Writing(K[a]) /\ ~Reserving(K[a]) /\ Owns(K[a])
      /\ Attempt(K[a]) = J[a].before.reservation /\ Attempt(J[a]) = J[a].before.reservation
      /\ J[a].before.token \in Tokens /\ J[a].before.token < nt
      /\ J[a].before.status = "in_progress"
      /\ K[a].want.status \in {"recovery", "reauth"} /\ K[a].want.token = J[a].before.token
      /\ K[a].want.reservation = J[a].before.reservation
      /\ K[a].want.status # "ready" /\ K[a].want # ReadyPayload(J[a].before.token)
  <2>1. ~Writing(J[a]) /\ ~Reserving(J[a]) /\ Owns(J[a]) /\ J[a].mode = "commit"
    BY DEF Good, Moved, Typed, Jobs, Shaped, Writing, Reserving, Owns, Attempt,
       ReadyPayload, RefreshReservationPayload, BlockedPayload, Payload, Bounded
  <2>2. Writing(K[a]) /\ ~Reserving(K[a]) /\ Owns(K[a])
    BY <2>1 DEF Good, Moved, Typed, Jobs, Shaped, Writing, Reserving, Owns, Attempt,
       ReadyPayload, RefreshReservationPayload, BlockedPayload, Payload, Bounded
  <2>3. Attempt(K[a]) = J[a].before.reservation /\ Attempt(J[a]) = J[a].before.reservation
    BY <2>1, <2>2 DEF Good, Moved, Typed, Jobs, Shaped, Writing, Reserving, Owns, Attempt,
       ReadyPayload, RefreshReservationPayload, BlockedPayload, Payload, Bounded
  <2>4. J[a].before.token \in Tokens /\ J[a].before.token < nt
    BY <2>1, <2>2, <2>3 DEF Good, Moved, Typed, Jobs, Shaped, Writing, Reserving, Owns,
       Attempt, ReadyPayload, RefreshReservationPayload, BlockedPayload, Payload, Bounded
  <2>5. J[a].before.status = "in_progress"
    BY <2>1, <2>2, <2>3, <2>4 DEF Good, Moved, Typed, Jobs, Shaped, Writing, Reserving,
       Owns, Attempt, ReadyPayload, RefreshReservationPayload, BlockedPayload, Payload,
       Bounded
  <2>6. K[a].want.status \in {"recovery", "reauth"} /\ K[a].want.token = J[a].before.token
    BY <2>1, <2>2, <2>3, <2>4, <2>5 DEF Good, Moved, Typed, Jobs, Shaped, Writing,
       Reserving, Owns, Attempt, ReadyPayload, RefreshReservationPayload, BlockedPayload,
       Payload, Bounded
  <2>7. K[a].want.reservation = J[a].before.reservation
    BY <2>1, <2>2, <2>3, <2>4, <2>5, <2>6 DEF Good, Moved, Typed, Jobs, Shaped, Writing,
       Reserving, Owns, Attempt, ReadyPayload, RefreshReservationPayload, BlockedPayload,
       Payload, Bounded
  <2>8. K[a].want.status # "ready" /\ K[a].want # ReadyPayload(J[a].before.token)
    BY <2>1, <2>2, <2>3, <2>4, <2>5, <2>6, <2>7 DEF Good, Moved, Typed, Jobs, Shaped,
       Writing, Reserving, Owns, Attempt, ReadyPayload, RefreshReservationPayload,
       BlockedPayload, Payload, Bounded
  <2> QED BY <2>1, <2>2, <2>3, <2>4, <2>5, <2>6, <2>7, <2>8
<1> USE <1>a DEF Good, Moved
<1>1. Typed(l, d, K, sp, og, nt, na) BY DEF Typed
<1>2. Shaped(K) BY DEF Shaped
<1>3. Distinct(K) BY DEF Distinct, Bounded
<1>4. Bounded(l, d, K, sp, og, nt, na) BY DEF Bounded
<1>5. Based(l, d, K, sp, og) BY SMTT(30) DEF Based, BasedAt, Unborn
<1>6. Reserved(l, d, K, sp) BY DEF Reserved
<1>7. SentIsClosed(l, d, K, sp) BY DEF SentIsClosed, Closed
<1> QED BY <1>1, <1>2, <1>3, <1>4, <1>5, <1>6, <1>7

\* The refresh token is sent: its reservation closes it.
LEMMA DispatchKeeps ==
    ASSUME NEW l, NEW d, NEW J, NEW sp, NEW og, NEW nt, NEW na,
           Good(l, d, J, sp, og, nt, na),
           NEW a \in Actors, NEW K, Moved(J, K, a),
           J[a].pc = "adapter", K[a].pc = "dispatched", K[a].mode = J[a].mode,
           K[a].before = J[a].before, K[a].generation = J[a].generation,
           NEW sq, sq[J[a].before.token] = sp[J[a].before.token] + 1,
           \A t \in Tokens : t # J[a].before.token => sq[t] = sp[t]
    PROVE  Good(l, d, K, sq, og, nt, na)
<1>a. /\ ~Writing(K[a]) /\ ~Reserving(K[a]) /\ Owns(K[a]) /\ Owns(J[a])
      /\ ~Writing(J[a]) /\ ~Reserving(J[a]) /\ K[a].mode = "commit"
      /\ Attempt(K[a]) = J[a].before.reservation /\ Attempt(J[a]) = J[a].before.reservation
      /\ J[a].before.token \in Tokens /\ J[a].before.reservation \in Nat
      /\ J[a].before.token < nt
  <2>1. ~Writing(K[a]) /\ ~Reserving(K[a]) /\ Owns(K[a]) /\ Owns(J[a])
    BY DEF Good, Moved, Typed, Jobs, Shaped, Writing, Reserving, Owns, Attempt, PayloadType,
       Bounded
  <2>2. ~Writing(J[a]) /\ ~Reserving(J[a]) /\ K[a].mode = "commit"
    BY <2>1 DEF Good, Moved, Typed, Jobs, Shaped, Writing, Reserving, Owns, Attempt,
       PayloadType, Bounded
  <2>3. Attempt(K[a]) = J[a].before.reservation /\ Attempt(J[a]) = J[a].before.reservation
    BY <2>1, <2>2 DEF Good, Moved, Typed, Jobs, Shaped, Writing, Reserving, Owns, Attempt,
       PayloadType, Bounded
  <2>4. J[a].before.token \in Tokens /\ J[a].before.reservation \in Nat
    BY <2>1, <2>2, <2>3 DEF Good, Moved, Typed, Jobs, Shaped, Writing, Reserving, Owns,
       Attempt, PayloadType, Bounded
  <2>5. J[a].before.token < nt
    BY <2>1, <2>2, <2>3, <2>4 DEF Good, Moved, Typed, Jobs, Shaped, Writing, Reserving,
       Owns, Attempt, PayloadType, Bounded
  <2> QED BY <2>1, <2>2, <2>3, <2>4, <2>5
<1> USE <1>a DEF Good, Moved
<1>1. Typed(l, d, K, sq, og, nt, na) BY DEF Typed
<1>2. Shaped(K) BY DEF Shaped
<1>3. Distinct(K) BY DEF Distinct, Bounded
<1>4. Bounded(l, d, K, sq, og, nt, na)
  <2>1. \A t \in Tokens : t >= nt => t # J[a].before.token BY DEF Tokens, Typed
  <2> QED BY <2>1 DEF Bounded, Typed
<1>5. Based(l, d, K, sq, og)
  <2>1. \A n \in Tokens, b \in Actors : Unborn(n, b, l, d, J, sp) => Unborn(n, b, l, d, K, sq)
    BY DEF Unborn
  <2>2. \A n, b : Unborn(n, b, l, d, J, sp) => n \in Tokens BY DEF Unborn
  <2>3. BasedAt(a, l, d, K, sq, og) BY DEF Based, BasedAt
  <2>4. ASSUME NEW b \in Actors, b # a PROVE BasedAt(b, l, d, K, sq, og)
    BY <2>1, <2>2, <2>4 DEF Based, BasedAt
  <2> QED BY <2>3, <2>4 DEF Based
<1>6. Reserved(l, d, K, sq) BY DEF Reserved
<1>7. SentIsClosed(l, d, K, sq)
  <2> SUFFICES ASSUME NEW t \in Tokens, sq[t] > 0
               PROVE  \E n \in Nat : Closed(t, n, l, d, K)
    BY DEF SentIsClosed
  <2>1. CASE t = J[a].before.token
    <3>1. Fenced(t, J[a].before.reservation, l, d) BY <2>1 DEF Reserved
    <3>2. \A b \in Actors : b # a /\ J[b].pc = "adapter" => J[b].before.token # t
      BY <2>1 DEF Reserved
    <3>3. \A b \in Actors : b # a /\ Owns(J[b]) => Attempt(J[b]) # J[a].before.reservation
      BY DEF Distinct
    <3>4. Closed(t, J[a].before.reservation, l, d, K) BY <2>1, <3>1, <3>2, <3>3 DEF Closed
    <3> QED BY <3>4
  <2>2. CASE t # J[a].before.token BY <2>2 DEF SentIsClosed, Closed
  <2> QED BY <2>1, <2>2
<1> QED BY <1>1, <1>2, <1>3, <1>4, <1>5, <1>6, <1>7

\* A refreshed credential is known to its owner alone.
LEMMA RefreshedKeeps ==
    ASSUME NEW l, NEW d, NEW J, NEW sp, NEW og, NEW nt, NEW na,
           Good(l, d, J, sp, og, nt, na),
           NEW a \in Actors, NEW K, Moved(J, K, a),
           J[a].pc = "dispatched", K[a].pc = "cas", K[a].mode = "commit",
           K[a].before = J[a].before, K[a].generation = J[a].generation,
           K[a].want = ReadyPayload(nt),
           nt \in Tokens, NEW oh, oh[nt] = J[a].before.reservation,
           \A t \in Tokens : t # nt => oh[t] = og[t],
           \A t \in Tokens : oh[t] \in Nat
    PROVE  Good(l, d, K, sp, oh, nt + 1, na)
<1>a. /\ ~Writing(J[a]) /\ ~Reserving(J[a]) /\ Owns(J[a]) /\ J[a].mode = "commit"
      /\ Writing(K[a]) /\ ~Reserving(K[a]) /\ Owns(K[a])
      /\ Attempt(K[a]) = J[a].before.reservation /\ Attempt(J[a]) = J[a].before.reservation
      /\ J[a].before.token \in Tokens /\ J[a].before.token < nt
      /\ J[a].before.status = "in_progress"
      /\ K[a].want.status = "ready" /\ K[a].want.token = nt
      /\ J[a].before.token # nt /\ nt \in Nat
      /\ K[a].want # ReadyPayload(J[a].before.token)
  <2>1. ~Writing(J[a]) /\ ~Reserving(J[a]) /\ Owns(J[a]) /\ J[a].mode = "commit"
    BY DEF Good, Moved, Typed, Jobs, Shaped, Writing, Reserving, Owns, Attempt,
       ReadyPayload, RefreshReservationPayload, BlockedPayload, Payload, PayloadType,
       Bounded
  <2>2. Writing(K[a]) /\ ~Reserving(K[a]) /\ Owns(K[a])
    BY <2>1 DEF Good, Moved, Typed, Jobs, Shaped, Writing, Reserving, Owns, Attempt,
       ReadyPayload, RefreshReservationPayload, BlockedPayload, Payload, PayloadType,
       Bounded
  <2>3. Attempt(K[a]) = J[a].before.reservation /\ Attempt(J[a]) = J[a].before.reservation
    BY <2>1, <2>2 DEF Good, Moved, Typed, Jobs, Shaped, Writing, Reserving, Owns, Attempt,
       ReadyPayload, RefreshReservationPayload, BlockedPayload, Payload, PayloadType,
       Bounded
  <2>4. J[a].before.token \in Tokens /\ J[a].before.token < nt
    BY <2>1, <2>2, <2>3 DEF Good, Moved, Typed, Jobs, Shaped, Writing, Reserving, Owns,
       Attempt, ReadyPayload, RefreshReservationPayload, BlockedPayload, Payload,
       PayloadType, Bounded
  <2>5. J[a].before.status = "in_progress"
    BY <2>1, <2>2, <2>3, <2>4 DEF Good, Moved, Typed, Jobs, Shaped, Writing, Reserving,
       Owns, Attempt, ReadyPayload, RefreshReservationPayload, BlockedPayload, Payload,
       PayloadType, Bounded
  <2>6. K[a].want.status = "ready" /\ K[a].want.token = nt
    BY <2>1, <2>2, <2>3, <2>4, <2>5 DEF Good, Moved, Typed, Jobs, Shaped, Writing,
       Reserving, Owns, Attempt, ReadyPayload, RefreshReservationPayload, BlockedPayload,
       Payload, PayloadType, Bounded
  <2>7. J[a].before.token # nt /\ nt \in Nat
    BY <2>1, <2>2, <2>3, <2>4, <2>5, <2>6 DEF Good, Moved, Typed, Jobs, Shaped, Writing,
       Reserving, Owns, Attempt, ReadyPayload, RefreshReservationPayload, BlockedPayload,
       Payload, PayloadType, Bounded
  <2>8. K[a].want # ReadyPayload(J[a].before.token)
    BY <2>1, <2>2, <2>3, <2>4, <2>5, <2>6, <2>7 DEF Good, Moved, Typed, Jobs, Shaped,
       Writing, Reserving, Owns, Attempt, ReadyPayload, RefreshReservationPayload,
       BlockedPayload, Payload, PayloadType, Bounded
  <2> QED BY <2>1, <2>2, <2>3, <2>4, <2>5, <2>6, <2>7, <2>8
<1> USE <1>a DEF Good, Moved
<1>b. Unborn(nt, a, l, d, K, sp)
  <2>1. \A b \in Actors : Owns(J[b]) => J[b].before.token # nt
    BY DEF Bounded, Typed, Jobs, PayloadType
  <2>2. \A b \in Actors : Writing(J[b]) => J[b].want.token # nt
    BY DEF Bounded, Typed, Jobs, PayloadType
  <2>3. l.payload.token # nt /\ d.payload.token # nt /\ sp[nt] = 0
    BY DEF Bounded, Typed, Records, PayloadType
  <2> QED BY <2>1, <2>2, <2>3 DEF Unborn
<1>c. \A b \in Actors, n \in Tokens : b # a /\ n # nt /\ Unborn(n, b, l, d, J, sp) =>
         Unborn(n, b, l, d, K, sp)
  BY DEF Unborn
<1>d. \A b \in Actors : Writing(J[b]) => J[b].want.token \in Tokens /\ J[b].want.token # nt
  BY DEF Bounded, Typed, Jobs, PayloadType
<1>1. Typed(l, d, K, sp, oh, nt + 1, na) BY DEF Typed
<1>2. Shaped(K) BY DEF Shaped
<1>3. Distinct(K) BY DEF Distinct, Bounded
<1>4. Bounded(l, d, K, sp, oh, nt + 1, na)
  <2>1. \A b \in Actors : Owns(K[b]) =>
          /\ K[b].before.token \in Tokens /\ K[b].before.token < nt + 1
          /\ Attempt(K[b]) < na
    BY DEF Bounded, Typed, Jobs, PayloadType
  <2>2. \A b \in Actors : Writing(K[b]) => K[b].want.token \in Tokens /\ K[b].want.token < nt + 1
    BY DEF Bounded, Typed, Jobs, PayloadType
  <2>3. \A r \in {l, d} :
          /\ r.payload.token < nt + 1 /\ r.payload.reservation < na
          /\ r.payload.status # "none" => r.payload.token \in Tokens
          /\ r.payload.status = "ready" => r.payload.reservation = 0
    BY DEF Bounded, Typed, Records, PayloadType
  <2>4. \A t \in Tokens : t >= nt + 1 => sp[t] = 0 /\ oh[t] = 0
    BY DEF Bounded, Typed, Tokens
  <2> QED BY <2>1, <2>2, <2>3, <2>4 DEF Bounded
<1>5. Based(l, d, K, sp, oh)
  <2>1. BasedAt(a, l, d, K, sp, oh) BY <1>b DEF Based, BasedAt
  <2>2. ASSUME NEW b \in Actors, b # a PROVE BasedAt(b, l, d, K, sp, oh)
    <3>1. BasedAt(b, l, d, J, sp, og) /\ K[b] = J[b] /\ K[b] \in Jobs BY <2>2 DEF Based
    <3>2. Writing(J[b]) /\ Unborn(J[b].want.token, b, l, d, J, sp) =>
            /\ Unborn(J[b].want.token, b, l, d, K, sp)
            /\ oh[J[b].want.token] = og[J[b].want.token]
      BY <1>c, <1>d, <2>2
    <3>3. J[b].pc \in {"cas", "adapter", "dispatched"} /\ J[b].mode \in {"recover", "install"} =>
            Writing(J[b])
      BY DEF Writing, Shaped
    <3> QED BY <3>1, <3>2, <3>3 DEF BasedAt
  <2> QED BY <2>1, <2>2 DEF Based
<1>6. Reserved(l, d, K, sp) BY DEF Reserved
<1>7. SentIsClosed(l, d, K, sp) BY DEF SentIsClosed, Closed
<1> QED BY <1>1, <1>2, <1>3, <1>4, <1>5, <1>6, <1>7

\* A recovery replaces the reservation it was asked to replace.
LEMMA RecoverKeeps ==
    ASSUME NEW l, NEW d, NEW J, NEW sp, NEW og, NEW nt, NEW na,
           Good(l, d, J, sp, og, nt, na),
           NEW a \in Actors, NEW K, Moved(J, K, a),
           ~Owns(J[a]), ~Writing(J[a]),
           K[a].pc = "cas", K[a].mode = "recover", K[a].generation = l.generation,
           l.payload.status \in BlockedStatuses, K[a].want = ReadyPayload(nt),
           nt \in Tokens, NEW oh, oh[nt] = l.payload.reservation,
           \A t \in Tokens : t # nt => oh[t] = og[t],
           \A t \in Tokens : oh[t] \in Nat
    PROVE  Good(l, d, K, sp, oh, nt + 1, na)
<1>a. /\ Writing(K[a]) /\ ~Reserving(K[a]) /\ ~Owns(K[a]) /\ ~Reserving(J[a])
      /\ K[a].want.status = "ready" /\ K[a].want.token = nt /\ nt \in Nat
      /\ l.generation \in Nat
  <2>1. Writing(K[a]) /\ ~Reserving(K[a]) /\ ~Owns(K[a]) /\ ~Reserving(J[a])
    BY DEF Good, Moved, Typed, Jobs, Shaped, Writing, Reserving, Owns, Attempt,
       ReadyPayload, RefreshReservationPayload, BlockedPayload, Payload, Records
  <2>2. K[a].want.status = "ready" /\ K[a].want.token = nt /\ nt \in Nat
    BY <2>1 DEF Good, Moved, Typed, Jobs, Shaped, Writing, Reserving, Owns, Attempt,
       ReadyPayload, RefreshReservationPayload, BlockedPayload, Payload, Records
  <2>3. l.generation \in Nat
    BY <2>1, <2>2 DEF Good, Moved, Typed, Jobs, Shaped, Writing, Reserving, Owns, Attempt,
       ReadyPayload, RefreshReservationPayload, BlockedPayload, Payload, Records
  <2> QED BY <2>1, <2>2, <2>3
<1> USE <1>a DEF Good, Moved
<1>b. Unborn(nt, a, l, d, K, sp)
  <2>1. \A b \in Actors : Owns(J[b]) => J[b].before.token # nt
    BY DEF Bounded, Typed, Jobs, PayloadType
  <2>2. \A b \in Actors : Writing(J[b]) => J[b].want.token # nt
    BY DEF Bounded, Typed, Jobs, PayloadType
  <2>3. l.payload.token # nt /\ d.payload.token # nt /\ sp[nt] = 0
    BY DEF Bounded, Typed, Records, PayloadType
  <2> QED BY <2>1, <2>2, <2>3 DEF Unborn
<1>c. \A b \in Actors, n \in Tokens : b # a /\ n # nt /\ Unborn(n, b, l, d, J, sp) =>
         Unborn(n, b, l, d, K, sp)
  BY DEF Unborn
<1>d. \A b \in Actors : Writing(J[b]) => J[b].want.token \in Tokens /\ J[b].want.token # nt
  BY DEF Bounded, Typed, Jobs, PayloadType
<1>1. Typed(l, d, K, sp, oh, nt + 1, na) BY DEF Typed
<1>2. Shaped(K) BY DEF Shaped
<1>3. Distinct(K) BY DEF Distinct, Bounded
<1>4. Bounded(l, d, K, sp, oh, nt + 1, na)
  <2>1. \A b \in Actors : Owns(K[b]) =>
          /\ K[b].before.token \in Tokens /\ K[b].before.token < nt + 1
          /\ Attempt(K[b]) < na
    BY DEF Bounded, Typed, Jobs, PayloadType
  <2>2. \A b \in Actors : Writing(K[b]) => K[b].want.token \in Tokens /\ K[b].want.token < nt + 1
    BY DEF Bounded, Typed, Jobs, PayloadType
  <2>3. \A r \in {l, d} :
          /\ r.payload.token < nt + 1 /\ r.payload.reservation < na
          /\ r.payload.status # "none" => r.payload.token \in Tokens
          /\ r.payload.status = "ready" => r.payload.reservation = 0
    BY DEF Bounded, Typed, Records, PayloadType
  <2>4. \A t \in Tokens : t >= nt + 1 => sp[t] = 0 /\ oh[t] = 0
    BY DEF Bounded, Typed, Tokens
  <2> QED BY <2>1, <2>2, <2>3, <2>4 DEF Bounded
<1>5. Based(l, d, K, sp, oh)
  <2>1. BasedAt(a, l, d, K, sp, oh) BY <1>b DEF Based, BasedAt
  <2>2. ASSUME NEW b \in Actors, b # a PROVE BasedAt(b, l, d, K, sp, oh)
    <3>1. BasedAt(b, l, d, J, sp, og) /\ K[b] = J[b] /\ K[b] \in Jobs BY <2>2 DEF Based
    <3>2. Writing(J[b]) /\ Unborn(J[b].want.token, b, l, d, J, sp) =>
            /\ Unborn(J[b].want.token, b, l, d, K, sp)
            /\ oh[J[b].want.token] = og[J[b].want.token]
      BY <1>c, <1>d, <2>2
    <3>3. J[b].pc \in {"cas", "adapter", "dispatched"} /\ J[b].mode \in {"recover", "install"} =>
            Writing(J[b])
      BY DEF Writing, Shaped
    <3> QED BY <3>1, <3>2, <3>3 DEF BasedAt
  <2> QED BY <2>1, <2>2 DEF Based
<1>6. Reserved(l, d, K, sp) BY DEF Reserved
<1>7. SentIsClosed(l, d, K, sp) BY DEF SentIsClosed, Closed
<1> QED BY <1>1, <1>2, <1>3, <1>4, <1>5, <1>6, <1>7

\* A new credential is installed.
LEMMA InstallKeeps ==
    ASSUME NEW l, NEW d, NEW J, NEW sp, NEW og, NEW nt, NEW na,
           Good(l, d, J, sp, og, nt, na),
           NEW a \in Actors, NEW K, Moved(J, K, a),
           ~Owns(J[a]), ~Writing(J[a]),
           K[a].pc = "cas", K[a].mode = "install", K[a].generation = l.generation,
           l.payload.status \notin BlockedStatuses,
           K[a].want = ReadyPayload(nt), nt \in Tokens
    PROVE  Good(l, d, K, sp, og, nt + 1, na)
<1>a. /\ Writing(K[a]) /\ ~Reserving(K[a]) /\ ~Owns(K[a]) /\ ~Reserving(J[a])
      /\ K[a].want.status = "ready" /\ K[a].want.token = nt /\ nt \in Nat
      /\ l.generation \in Nat
  <2>1. Writing(K[a]) /\ ~Reserving(K[a]) /\ ~Owns(K[a]) /\ ~Reserving(J[a])
    BY DEF Good, Moved, Typed, Jobs, Shaped, Writing, Reserving, Owns, Attempt,
       ReadyPayload, RefreshReservationPayload, BlockedPayload, Payload, Records
  <2>2. K[a].want.status = "ready" /\ K[a].want.token = nt /\ nt \in Nat
    BY <2>1 DEF Good, Moved, Typed, Jobs, Shaped, Writing, Reserving, Owns, Attempt,
       ReadyPayload, RefreshReservationPayload, BlockedPayload, Payload, Records
  <2>3. l.generation \in Nat
    BY <2>1, <2>2 DEF Good, Moved, Typed, Jobs, Shaped, Writing, Reserving, Owns, Attempt,
       ReadyPayload, RefreshReservationPayload, BlockedPayload, Payload, Records
  <2> QED BY <2>1, <2>2, <2>3
<1> USE <1>a DEF Good, Moved
<1>b. Unborn(nt, a, l, d, K, sp)
  <2>1. \A b \in Actors : Owns(J[b]) => J[b].before.token # nt
    BY DEF Bounded, Typed, Jobs, PayloadType
  <2>2. \A b \in Actors : Writing(J[b]) => J[b].want.token # nt
    BY DEF Bounded, Typed, Jobs, PayloadType
  <2>3. l.payload.token # nt /\ d.payload.token # nt /\ sp[nt] = 0
    BY DEF Bounded, Typed, Records, PayloadType
  <2> QED BY <2>1, <2>2, <2>3 DEF Unborn
<1>c. \A b \in Actors, n \in Tokens : b # a /\ n # nt /\ Unborn(n, b, l, d, J, sp) =>
         Unborn(n, b, l, d, K, sp)
  BY DEF Unborn
<1>d. \A b \in Actors : Writing(J[b]) => J[b].want.token \in Tokens /\ J[b].want.token # nt
  BY DEF Bounded, Typed, Jobs, PayloadType
<1>e. og[nt] = 0 BY DEF Bounded, Typed
<1>1. Typed(l, d, K, sp, og, nt + 1, na) BY DEF Typed
<1>2. Shaped(K) BY DEF Shaped
<1>3. Distinct(K) BY DEF Distinct, Bounded
<1>4. Bounded(l, d, K, sp, og, nt + 1, na)
  <2>1. \A b \in Actors : Owns(K[b]) =>
          /\ K[b].before.token \in Tokens /\ K[b].before.token < nt + 1
          /\ Attempt(K[b]) < na
    BY DEF Bounded, Typed, Jobs, PayloadType
  <2>2. \A b \in Actors : Writing(K[b]) => K[b].want.token \in Tokens /\ K[b].want.token < nt + 1
    BY DEF Bounded, Typed, Jobs, PayloadType
  <2>3. \A r \in {l, d} :
          /\ r.payload.token < nt + 1 /\ r.payload.reservation < na
          /\ r.payload.status # "none" => r.payload.token \in Tokens
          /\ r.payload.status = "ready" => r.payload.reservation = 0
    BY DEF Bounded, Typed, Records, PayloadType
  <2>4. \A t \in Tokens : t >= nt + 1 => sp[t] = 0 /\ og[t] = 0
    BY DEF Bounded, Typed, Tokens
  <2> QED BY <2>1, <2>2, <2>3, <2>4 DEF Bounded
<1>5. Based(l, d, K, sp, og)
  <2>1. BasedAt(a, l, d, K, sp, og) BY <1>b, <1>e DEF Based, BasedAt
  <2>2. ASSUME NEW b \in Actors, b # a PROVE BasedAt(b, l, d, K, sp, og)
    <3>1. BasedAt(b, l, d, J, sp, og) /\ K[b] = J[b] /\ K[b] \in Jobs BY <2>2 DEF Based
    <3>2. Writing(J[b]) /\ Unborn(J[b].want.token, b, l, d, J, sp) =>
            /\ Unborn(J[b].want.token, b, l, d, K, sp)
            /\ og[J[b].want.token] = og[J[b].want.token]
      BY <1>c, <1>d, <2>2
    <3>3. J[b].pc \in {"cas", "adapter", "dispatched"} /\ J[b].mode \in {"recover", "install"} =>
            Writing(J[b])
      BY DEF Writing, Shaped
    <3> QED BY <3>1, <3>2, <3>3 DEF BasedAt
  <2> QED BY <2>1, <2>2 DEF Based
<1>6. Reserved(l, d, K, sp) BY DEF Reserved
<1>7. SentIsClosed(l, d, K, sp) BY DEF SentIsClosed, Closed
<1> QED BY <1>1, <1>2, <1>3, <1>4, <1>5, <1>6, <1>7

\* The current credential is installed once more.
LEMMA ReinstallKeeps ==
    ASSUME NEW l, NEW d, NEW J, NEW sp, NEW og, NEW nt, NEW na,
           Good(l, d, J, sp, og, nt, na),
           NEW a \in Actors, NEW K, Moved(J, K, a),
           ~Owns(J[a]), ~Writing(J[a]),
           K[a].pc = "cas", K[a].mode = "install", K[a].generation = l.generation,
           l.payload.status \notin BlockedStatuses,
           l.payload.status = "ready", K[a].want = l.payload,
           l.payload = ReadyPayload(l.payload.token)
    PROVE  Good(l, d, K, sp, og, nt, na)
<1>a. /\ Writing(K[a]) /\ ~Reserving(K[a]) /\ ~Owns(K[a]) /\ ~Reserving(J[a])
      /\ l.generation \in Nat /\ l.payload.token \in Tokens /\ l.payload.token < nt
  BY DEF Good, Moved, Typed, Jobs, Shaped, Writing, Reserving, Owns, Attempt, Records,
     Bounded
<1> USE <1>a DEF Good, Moved
<1>1. Typed(l, d, K, sp, og, nt, na) BY DEF Typed
<1>2. Shaped(K) BY DEF Shaped
<1>3. Distinct(K) BY DEF Distinct, Bounded
<1>4. Bounded(l, d, K, sp, og, nt, na) BY DEF Bounded
<1>5. Based(l, d, K, sp, og) BY DEF Based, BasedAt, Unborn
<1>6. Reserved(l, d, K, sp) BY DEF Reserved
<1>7. SentIsClosed(l, d, K, sp) BY DEF SentIsClosed, Closed
<1> QED BY <1>1, <1>2, <1>3, <1>4, <1>5, <1>6, <1>7

-----------------------------------------------------------------------------
(* What the store returns.                                                 *)

LEMMA ReadGives ==
    ASSUME NEW x \in Disks, NEW o \in ReadOutcomes(x)
    PROVE  /\ o.disk \in Disks /\ o.disk.live = x.live
           /\ o.disk.durable \in {x.durable, x.live}
           /\ o.reply = "ok" => o.record = x.live /\ o.disk.durable = x.live
<1> DEFINE y == ProveDirectoryDurable(x)
<1>1. y \in Disks /\ y.live = x.live /\ y.durable = x.live
  BY DEF ProveDirectoryDurable, Disks
<1>2. \A z, reply, fault : LET u == Outcome(z, reply, fault) IN
         u.disk = z /\ u.reply = reply /\ u.record = z.live
  BY DEF Outcome
<1>3. \/ o = Outcome(y, "ok", FALSE)
      \/ \E z \in {x, y}, reply \in {"recovery_required", "failed"}, fault \in BOOLEAN :
           o = Outcome(z, reply, fault)
  BY DEF ReadOutcomes, ReleaseFailed
<1>4. CASE o = Outcome(y, "ok", FALSE)
  <2>1. o.disk = y /\ o.record = y.live BY ZenonT(30), <1>2, <1>4
  <2> QED BY <1>1, <2>1
<1>5. CASE \E z \in {x, y}, reply \in {"recovery_required", "failed"}, fault \in BOOLEAN :
             o = Outcome(z, reply, fault)
  BY <1>1, <1>2, <1>5 DEF Disks
<1> QED BY <1>3, <1>4, <1>5

\* The store that x turns into, with or without record r.
Written(x, y, r) ==
    /\ y \in Disks
    /\ \/ y.live = x.live /\ y.durable \in {x.durable, x.live}
       \/ y.live = r /\ y.durable \in {x.durable, r}

LEMMA CommitGives ==
    ASSUME NEW x \in Disks, NEW r \in Records, NEW o \in CommitOutcomes(x, r)
    PROVE  Written(x, o.disk, r)
<1> DEFINE c == Candidate(x)
           y == Renamed(x, r)
           z == ProveDirectoryDurable(y)
<1>1. c \in Disks /\ c.live = x.live /\ c.durable = x.durable BY DEF Candidate, Disks
<1>2. y \in Disks /\ y.live = r /\ y.durable = x.durable BY DEF Renamed, Disks
<1>3. z \in Disks /\ z.live = r /\ z.durable = r BY <1>2 DEF ProveDirectoryDurable, Disks
<1>4. o.disk \in {x, c, y, z} BY DEF CommitOutcomes, ReleaseFailed, Outcome
<1> QED BY <1>1, <1>2, <1>3, <1>4 DEF Written

LEMMA SwapGives ==
    ASSUME NEW x \in Disks, NEW g \in Nat, NEW id \in CommitIds, NEW w \in PayloadType,
           NEW o \in CompareAndSwapOutcomes(x, g, id, w)
    PROVE  \/ Written(x, o.disk, x.live)
           \/ /\ g = x.live.generation
              /\ Written(x, o.disk, [generation |-> g + 1, commitId |-> id, payload |-> w])
<1> DEFINE y == ProveDirectoryDurable(x)
           r == [generation |-> g + 1, commitId |-> id, payload |-> w]
<1>1. y \in Disks /\ y.live = x.live /\ y.durable = x.live
  BY DEF ProveDirectoryDurable, Disks
<1>2. \/ o.disk \in {x, y}
      \/ g = x.live.generation /\ o \in CommitOutcomes(x, r)
  BY DEF CompareAndSwapOutcomes, ReleaseFailed, Outcome
<1>3. r \in Records BY DEF Records
<1>4. CASE o.disk \in {x, y} BY <1>1, <1>4 DEF Written, Disks
<1>5. CASE g = x.live.generation /\ o \in CommitOutcomes(x, r) BY <1>3, <1>5, CommitGives
<1> QED BY <1>2, <1>4, <1>5

GoodWith(x, J) == Good(x.live, x.durable, J, spends, origin, nextToken, nextAttempt)

\* The generation a power loss leaves never goes back.
Grows(x, y) == x.durable.generation <= y.durable.generation

LEMMA ReadWorks ==
    ASSUME BrokerInv, NEW o \in ReadOutcomes(disk)
    PROVE  /\ o.disk \in Disks /\ GoodWith(o.disk, job) /\ Grows(disk, o.disk)
           /\ o.disk.live = disk.live
           /\ o.reply = "ok" => /\ o.record = disk.live /\ o.disk.durable = disk.live
                                /\ o.record \in Records
<1>1. disk \in Disks BY DEF BrokerInv, BrokerTypeOK
<1>2. /\ o.disk \in Disks /\ o.disk.live = disk.live
      /\ o.disk.durable \in {disk.durable, disk.live}
      /\ o.reply = "ok" => o.record = disk.live /\ o.disk.durable = disk.live
  BY <1>1, ReadGives
<1>3. disk.live \in Records /\ disk.durable \in Records BY <1>1 DEF Disks
<1>4. GoodWith(o.disk, job) BY <1>2, SyncKeeps DEF BrokerInv, GoodWith
<1>5. Grows(disk, o.disk) BY <1>2, <1>3 DEF Grows, BrokerInv, Good, Durable, Records
<1> QED BY <1>2, <1>3, <1>4, <1>5

LEMMA SwapWorks ==
    ASSUME BrokerInv, NEW a \in Actors, job[a].pc = "cas",
           NEW o \in CompareAndSwapOutcomes(disk, job[a].generation,
                        CommitId(a, job[a].generation), job[a].want)
    PROVE  o.disk \in Disks /\ GoodWith(o.disk, job) /\ Grows(disk, o.disk)
<1> DEFINE j == job[a]
           r == [generation |-> j.generation + 1, commitId |-> CommitId(a, j.generation),
                 payload |-> j.want]
<1>1. disk \in Disks /\ j \in Jobs BY DEF BrokerInv, BrokerTypeOK
<1>2. j.generation \in Nat /\ j.want \in PayloadType /\ CommitId(a, j.generation) \in CommitIds
  BY <1>1 DEF Jobs, CommitId, CommitIds
<1>3. r \in Records /\ r.generation = j.generation + 1 /\ r.payload = j.want
  BY <1>2 DEF Records
<1>4. disk.live \in Records /\ disk.durable \in Records BY <1>1 DEF Disks
<1> HIDE DEF r
<1>5. CASE Written(disk, o.disk, disk.live)
  BY <1>4, <1>5, SyncKeeps DEF Written, BrokerInv, GoodWith, Grows, Good, Durable, Records
<1>6. CASE j.generation = disk.live.generation /\ Written(disk, o.disk, r)
  <2>1. Good(r, disk.durable, job, spends, origin, nextToken, nextAttempt)
    BY <1>3, <1>6, SwapKeeps DEF BrokerInv
  <2>2. Good(r, r, job, spends, origin, nextToken, nextAttempt) BY <2>1, SyncKeeps
  <2>3. disk.durable.generation <= r.generation BY <2>1 DEF Good, Durable
  <2>4. CASE o.disk.live = r
    BY <1>6, <1>4, <2>1, <2>2, <2>3, <2>4 DEF Written, GoodWith, Grows, Records
  <2>5. CASE o.disk.live # r
    <3>1. Written(disk, o.disk, disk.live) BY <1>6, <2>5 DEF Written
    <3> QED BY <1>5, <3>1
  <2> QED BY <2>4, <2>5
<1> QED BY <1>1, <1>2, <1>5, <1>6, SwapGives DEF r

-----------------------------------------------------------------------------
(* What a step leaves behind.                                              *)

\* The memory of the processes after a step that leaves the store as x.
Moves(x, sp, og, nt, na) ==
    /\ job' \in [Actors -> Jobs]
    /\ call' \in [Callers -> Calls]
    /\ held' \in [Callers -> Grants]
    /\ Good(x.live, x.durable, job', sp, og, nt, na)
    /\ \A c \in Callers : held'[c].generation <= x.durable.generation

LEMMA JobTypes ==
    /\ NoGrant \in Grants /\ Uninitialized \in PayloadType /\ IdleCall \in Calls
    /\ \A g : Answered(g) \in Calls
    /\ IdleJob \in Jobs /\ IdleJob.pc = "idle" /\ IdleJob.mode = "none"
    /\ \A g \in Grants : /\ RefreshOnce(g) \in Jobs
                         /\ RefreshOnce(g).pc = "before" /\ RefreshOnce(g).mode = "reserve"
<1>1. NoGrant \in Grants BY DEF NoGrant, Grants
<1>2. Uninitialized \in PayloadType BY DEF Uninitialized, Payload, PayloadType, Statuses
<1>3. IdleCall \in Calls /\ \A g : Answered(g) \in Calls
  BY <1>1 DEF IdleCall, Answered, Calls
<1>4. IdleJob \in Jobs /\ IdleJob.pc = "idle" /\ IdleJob.mode = "none"
  BY <1>1, <1>2 DEF IdleJob, Jobs, Phases
<1>5. \A g \in Grants : /\ RefreshOnce(g) \in Jobs
                        /\ RefreshOnce(g).pc = "before" /\ RefreshOnce(g).mode = "reserve"
  BY <1>1, <1>2 DEF RefreshOnce, IdleJob, Jobs, Phases
<1> QED BY <1>1, <1>2, <1>3, <1>4, <1>5

\* A grant that was given before is still durable.
LEMMA HeldStays ==
    ASSUME BrokerInv, NEW x \in Disks, Grows(disk, x), NEW c \in Callers
    PROVE  held[c] \in Grants /\ held[c].generation <= x.durable.generation
<1>1. held[c] \in Grants /\ held[c].generation <= disk.durable.generation
  BY DEF BrokerInv, BrokerTypeOK, DeliveredIsDurable
<1>2. /\ held[c].generation \in Nat /\ disk.durable.generation \in Nat
      /\ x.durable.generation \in Nat
  BY <1>1 DEF BrokerInv, BrokerTypeOK, Disks, Records, Grants
<1> QED BY <1>1, <1>2 DEF Grows

LEMMA GotoGives ==
    ASSUME BrokerInv, NEW a \in Actors, NEW j \in Jobs, Goto(a, j)
    PROVE  job' \in [Actors -> Jobs] /\ Moved(job, job', a) /\ job'[a] = j
<1>1. job \in [Actors -> Jobs] BY DEF BrokerInv, BrokerTypeOK
<1>2. job' = [job EXCEPT ![a] = j] BY DEF Goto
<1> QED BY <1>1, <1>2 DEF Moved

LEMMA GotoMoves ==
    ASSUME BrokerInv, NEW a \in Actors, NEW j \in Jobs, Goto(a, j),
           NEW x \in Disks, Grows(disk, x), NEW sp, NEW og, NEW nt, NEW na,
           Good(x.live, x.durable, job', sp, og, nt, na)
    PROVE  Moves(x, sp, og, nt, na)
<1>1. job' \in [Actors -> Jobs] BY GotoGives
<1>2. call' = call /\ held' = held BY DEF Goto
<1>3. call' \in [Callers -> Calls] /\ held' \in [Callers -> Grants]
  BY <1>2 DEF BrokerInv, BrokerTypeOK
<1>4. \A c \in Callers : held'[c].generation <= x.durable.generation BY <1>2, HeldStays
<1> QED BY <1>1, <1>3, <1>4 DEF Moves

\* An operation that ends owns nothing, and gives a durable grant or none.
LEMMA EndMoves ==
    ASSUME BrokerInv, NEW a \in Actors, NEW grant \in Grants, End(a, grant),
           NEW x \in Disks, Grows(disk, x), GoodWith(x, job),
           grant.generation <= x.durable.generation
    PROVE  Moves(x, spends, origin, nextToken, nextAttempt)
<1>1. /\ job \in [Actors -> Jobs] /\ call \in [Callers -> Calls]
      /\ held \in [Callers -> Grants]
  BY DEF BrokerInv, BrokerTypeOK
<1>2. \/ job' = [job EXCEPT ![a] = IdleJob]
      \/ \E c \in Callers : job' = [job EXCEPT ![a] = RefreshOnce(call[c].expected)]
  BY DEF End, Settle, Again, Waiting
<1>3. \A c \in Callers : call[c].expected \in Grants /\ call[c].tries \in Nat
  BY <1>1 DEF Calls
<1>4. PICK j \in Jobs : /\ job' = [job EXCEPT ![a] = j]
                        /\ j.pc \in {"idle", "before"} /\ j.mode # "commit"
  BY <1>2, <1>3, JobTypes
<1>5. job' \in [Actors -> Jobs] /\ Moved(job, job', a) /\ job'[a] = j
  BY <1>1, <1>4 DEF Moved
<1>6. Good(x.live, x.durable, job', spends, origin, nextToken, nextAttempt)
  BY <1>4, <1>5, BlankKeeps DEF GoodWith
<1>7. call' \in [Callers -> Calls]
  <2>1. CASE a \in Procs
    <3>1. PICK short : call' = [c \in Callers |->
              IF c \in {d \in Again(a, grant) : call[d].tries + 1 < MaxRechecks}
              THEN [call[c] EXCEPT !.tries = @ + 1]
              ELSE IF c \in (IF grant = NoGrant THEN {}
                             ELSE Waiting(a) \ (Again(a, grant) \cup short))
              THEN Answered(grant)
              ELSE IF c \in Waiting(a) THEN IdleCall ELSE call[c]]
      BY <2>1 DEF End, Settle
    <3>2. \A c \in Callers : [call[c] EXCEPT !.tries = @ + 1] \in Calls
      BY <1>1, <1>3 DEF Calls
    <3> QED BY <1>1, <3>1, <3>2, JobTypes
  <2>2. CASE a \notin Procs BY <1>1, <2>2 DEF End
  <2> QED BY <2>1, <2>2
<1>8. /\ held' \in [Callers -> Grants]
      /\ \A c \in Callers : held'[c] \in {held[c], grant}
  <2>1. CASE a \in Procs
    <3>1. PICK short : held' = [c \in Callers |->
              IF /\ c \in (IF grant = NoGrant THEN {}
                           ELSE Waiting(a) \ (Again(a, grant) \cup short))
                 /\ call[c].kind # "refresh"
              THEN grant ELSE held[c]]
      BY <2>1 DEF End, Settle
    <3> QED BY <1>1, <3>1
  <2>2. CASE a \notin Procs BY <1>1, <2>2 DEF End
  <2> QED BY <2>1, <2>2
<1>9. \A c \in Callers : held'[c].generation <= x.durable.generation BY <1>8, HeldStays
<1> QED BY <1>5, <1>6, <1>7, <1>8, <1>9 DEF Moves

\* No grant is as durable as any.
LEMMA FailMoves ==
    ASSUME BrokerInv, NEW a \in Actors, End(a, NoGrant),
           NEW x \in Disks, Grows(disk, x), GoodWith(x, job)
    PROVE  Moves(x, spends, origin, nextToken, nextAttempt)
<1>1. NoGrant \in Grants /\ NoGrant.generation = 0 BY JobTypes DEF NoGrant
<1>2. x.durable.generation \in Nat BY DEF Disks, Records
<1> QED BY <1>1, <1>2, EndMoves

\* The grant of a record that was read is durable.
LEMMA GrantMoves ==
    ASSUME BrokerInv, NEW a \in Actors,
           NEW x \in Disks, Grows(disk, x), GoodWith(x, job), End(a, Grant(x.durable))
    PROVE  Moves(x, spends, origin, nextToken, nextAttempt)
<1>1. x.durable \in Records BY DEF Disks
<1>2. Grant(x.durable) \in Grants /\ Grant(x.durable).generation = x.durable.generation
  BY <1>1 DEF Grant, Grants, Records, PayloadType
<1>3. x.durable.generation \in Nat BY <1>1 DEF Records
<1> QED BY <1>2, <1>3, EndMoves

\* A job that goes on as it is.
LEMMA StayMoves ==
    ASSUME BrokerInv, NEW a \in Actors, NEW j \in Jobs, Goto(a, j), Writing(job[a]),
           j.mode = job[a].mode, j.before = job[a].before, j.want = job[a].want,
           j.generation = job[a].generation, j.pc \in {job[a].pc, "verify", "latest"},
           job[a].mode = "install" => j.pc # "latest",
           NEW x \in Disks, Grows(disk, x), GoodWith(x, job)
    PROVE  Moves(x, spends, origin, nextToken, nextAttempt)
<1>1. Moved(job, job', a) /\ job'[a] = j BY GotoGives
<1>2. Good(x.live, x.durable, job', spends, origin, nextToken, nextAttempt)
  BY <1>1, StayKeeps DEF GoodWith
<1> QED BY <1>2, GotoMoves

LEMMA ReconcileMoves ==
    ASSUME BrokerInv, NEW a \in Actors, NEW code, Writing(job[a]),
           Reconcile(a, job[a], code),
           NEW x \in Disks, Grows(disk, x), GoodWith(x, job)
    PROVE  Moves(x, spends, origin, nextToken, nextAttempt)
<1>1. CASE End(a, NoGrant) BY <1>1, FailMoves
<1>2. CASE job[a].mode # "install" /\ Goto(a, [job[a] EXCEPT !.pc = "latest"])
  <2> DEFINE j == [job[a] EXCEPT !.pc = "latest"]
  <2>1. job[a] \in Jobs BY DEF BrokerInv, BrokerTypeOK
  <2>2. /\ j \in Jobs /\ j.mode = job[a].mode /\ j.before = job[a].before
        /\ j.want = job[a].want /\ j.generation = job[a].generation /\ j.pc = "latest"
    BY <2>1 DEF Jobs, Phases
  <2> HIDE DEF j
  <2> QED BY <1>2, <2>2, StayMoves DEF j
<1> QED BY <1>1, <1>2 DEF Reconcile

\* The payload was read back: its record is durable.
LEMMA SucceedMoves ==
    ASSUME BrokerInv, NEW a \in Actors, Writing(job[a]),
           NEW x \in Disks, Grows(disk, x), GoodWith(x, job),
           x.live = x.durable, x.live.payload = job[a].want, Succeed(a, x.live)
    PROVE  Moves(x, spends, origin, nextToken, nextAttempt)
<1>1. job[a] \in Jobs /\ x.live \in Records BY DEF BrokerInv, BrokerTypeOK, Disks
<1>2. CASE job[a].mode = "reserve"
  <2> DEFINE j == [IdleJob EXCEPT !.pc = "adapter", !.mode = "commit",
                                  !.before = job[a].want, !.generation = x.live.generation]
  <2>1. /\ j \in Jobs /\ j.pc = "adapter" /\ j.mode = "commit" /\ j.before = job[a].want
        /\ j.generation = x.live.generation
    BY <1>1, JobTypes DEF Jobs, Phases, Records, IdleJob
  <2>2. Goto(a, j) BY <1>2 DEF Succeed
  <2> HIDE DEF j
  <2>3. Moved(job, job', a) /\ job'[a] = j BY <2>1, <2>2, GotoGives
  <2>4. Reserving(job[a]) BY <1>2 DEF Reserving
  <2>5. Good(x.live, x.durable, job', spends, origin, nextToken, nextAttempt)
    BY <2>1, <2>3, <2>4, AdapterKeeps DEF GoodWith
  <2> QED BY <2>1, <2>2, <2>5, GotoMoves
<1>3. CASE job[a].mode # "reserve"
  <2>1. End(a, NoGrant) \/ End(a, Grant(x.live)) BY <1>3 DEF Succeed
  <2> QED BY <2>1, FailMoves, GrantMoves
<1> QED BY <1>2, <1>3

\* What a step has to leave behind.
LEMMA Keeps ==
    ASSUME BrokerInv, NEW sp, NEW og, NEW nt, NEW na,
           disk' \in Disks, Moves(disk', sp, og, nt, na),
           spends' = sp, origin' = og, nextToken' = nt, nextAttempt' = na,
           sp \in [Tokens -> Nat], og \in [Tokens -> Nat], nt \in 1 .. MaxTokens + 1,
           na \in Nat \ {0}, \A t \in Tokens : sp[t] <= 1
    PROVE  BrokerInv'
<1>1. BrokerTypeOK' BY DEF BrokerTypeOK, Moves
<1>2. Good(disk.live, disk.durable, job, spends, origin, nextToken, nextAttempt)'
  BY DEF Moves
<1>3. SpentOnce' /\ DeliveredIsDurable' BY DEF SpentOnce, DeliveredIsDurable, Moves
<1> QED BY <1>1, <1>2, <1>3 DEF BrokerInv

\* A step of the store and the memory only.
LEMMA KeepsRest ==
    ASSUME BrokerInv, disk' \in Disks,
           Moves(disk', spends, origin, nextToken, nextAttempt),
           UNCHANGED <<spends, origin, nextToken, nextAttempt>>
    PROVE  BrokerInv'
BY Keeps DEF BrokerInv, BrokerTypeOK, SpentOnce

-----------------------------------------------------------------------------
(* The steps of a job.                                                     *)

LEMMA SwapJob ==
    ASSUME NEW j \in Jobs, NEW g \in Nat, NEW w \in PayloadType
    PROVE  LET k == CompareAndRead(j, g, w) IN
           /\ k \in Jobs /\ k.pc = "cas" /\ k.mode = j.mode /\ k.before = j.before
           /\ k.want = w /\ k.generation = g
BY JobTypes DEF CompareAndRead, Jobs, Phases

LEMMA PayloadTypes ==
    /\ \A t \in Nat : ReadyPayload(t) \in PayloadType
    /\ \A t \in Nat, n \in Nat : RefreshReservationPayload(t, n) \in PayloadType
    /\ \A s \in {"recovery", "reauth"}, f \in PayloadType : BlockedPayload(s, f) \in PayloadType
    /\ \A p \in PayloadType : p.status = "ready" /\ p.reservation = 0 => p = ReadyPayload(p.token)
BY DEF ReadyPayload, RefreshReservationPayload, BlockedPayload, Payload, PayloadType,
   Statuses, BlockedStatuses

\* The state of a job that does not write.
LEMMA Quiet ==
    ASSUME BrokerInv, NEW a \in Actors, job[a].pc \in {"idle", "before"}
    PROVE  ~Writing(job[a]) /\ ~Owns(job[a])
BY DEF BrokerInv, Good, Shaped, Writing, Reserving, Owns

\* A record that was read: a ready credential has no fence.
LEMMA RecordRead ==
    ASSUME BrokerInv, NEW o \in ReadOutcomes(disk), o.reply = "ok"
    PROVE  /\ o.record = o.disk.live /\ o.record = o.disk.durable
           /\ o.record.generation \in Nat /\ o.record.payload \in PayloadType
           /\ o.record.payload.token \in Nat /\ o.record.payload.reservation \in Nat
           /\ o.record.payload.status = "ready" =>
                 o.record.payload = ReadyPayload(o.record.payload.token)
<1>1. /\ o.record = o.disk.live /\ o.record = o.disk.durable /\ o.record \in Records
      /\ GoodWith(o.disk, job)
  BY ReadWorks
<1>2. o.record.generation \in Nat /\ o.record.payload \in PayloadType BY <1>1 DEF Records
<1>3. o.record.payload.token \in Nat /\ o.record.payload.reservation \in Nat
  BY <1>2 DEF PayloadType
<1>4. o.record.payload.status = "ready" => o.record.payload.reservation = 0
  BY <1>1 DEF GoodWith, Good, Bounded
<1> QED BY <1>1, <1>2, <1>3, <1>4, PayloadTypes

LEMMA BeginRefreshKeeps ==
    ASSUME BrokerInv, NEW a \in Actors, NEW o \in ReadOutcomes(disk), o.reply = "ok",
           disk' = o.disk, job[a].pc = "before", job[a].mode = "reserve",
           BeginRefresh(a, o.record), UNCHANGED <<spends, origin, nextToken>>
    PROVE  BrokerInv'
<1> DEFINE r == o.record
           k == CompareAndRead([job[a] EXCEPT !.before = r.payload], r.generation,
                     RefreshReservationPayload(r.payload.token, nextAttempt))
<1>1. o.disk \in Disks /\ GoodWith(o.disk, job) /\ Grows(disk, o.disk) BY ReadWorks
<1>2. /\ r = o.disk.live /\ r = o.disk.durable
      /\ r.generation \in Nat /\ r.payload \in PayloadType /\ r.payload.token \in Nat
      /\ r.payload.status = "ready" => r.payload = ReadyPayload(r.payload.token)
  BY RecordRead
<1>3. CASE End(a, NoGrant) /\ UNCHANGED nextAttempt BY <1>1, <1>3, FailMoves, KeepsRest
<1>4. CASE End(a, Grant(r)) /\ UNCHANGED nextAttempt
  BY <1>1, <1>2, <1>4, GrantMoves, KeepsRest
<1>5. CASE r.payload.status = "ready" /\ nextAttempt' = nextAttempt + 1 /\ Goto(a, k)
  <2>1. nextAttempt \in Nat \ {0} /\ job[a] \in Jobs BY DEF BrokerInv, BrokerTypeOK
  <2>2. /\ [job[a] EXCEPT !.before = r.payload] \in Jobs
        /\ [job[a] EXCEPT !.before = r.payload].mode = "reserve"
        /\ [job[a] EXCEPT !.before = r.payload].before = r.payload
    BY <1>2, <2>1 DEF Jobs
  <2>3. RefreshReservationPayload(r.payload.token, nextAttempt) \in PayloadType
    BY <1>2, <2>1, PayloadTypes
  <2>4. /\ k \in Jobs /\ k.pc = "cas" /\ k.mode = "reserve" /\ k.before = r.payload
        /\ k.want = RefreshReservationPayload(r.payload.token, nextAttempt)
        /\ k.generation = r.generation
    BY ZenonT(30), <1>2, <2>2, <2>3, SwapJob
  <2> HIDE DEF k
  <2>5. Moved(job, job', a) /\ job'[a] = k BY <1>5, <2>4, GotoGives
  <2>6. ~Owns(job[a]) BY Quiet
  <2>7. Good(o.disk.live, o.disk.durable, job', spends, origin, nextToken, nextAttempt + 1)
    BY <1>1, <1>2, <1>5, <2>4, <2>5, <2>6, ReserveKeeps DEF GoodWith
  <2>8. Moves(o.disk, spends, origin, nextToken, nextAttempt + 1)
    BY <1>1, <1>5, <2>4, <2>7, GotoMoves
  <2> QED BY <1>1, <1>5, <2>1, <2>8, Keeps DEF BrokerInv, BrokerTypeOK, SpentOnce
<1> QED BY <1>3, <1>4, <1>5 DEF BeginRefresh

LEMMA BeginRecoveryKeeps ==
    ASSUME BrokerInv, NEW a \in Actors, NEW o \in ReadOutcomes(disk), o.reply = "ok",
           disk' = o.disk, job[a].pc = "before", job[a].mode = "recover",
           BeginRecovery(a, o.record), UNCHANGED <<spends, nextAttempt>>
    PROVE  BrokerInv'
<1> DEFINE r == o.record
           k == CompareAndRead(job[a], r.generation, ReadyPayload(nextToken))
<1>1. o.disk \in Disks /\ GoodWith(o.disk, job) /\ Grows(disk, o.disk) BY ReadWorks
<1>2. /\ r = o.disk.live /\ r = o.disk.durable
      /\ r.generation \in Nat /\ r.payload.reservation \in Nat
  BY RecordRead
<1>3. CASE End(a, NoGrant) /\ UNCHANGED <<nextToken, origin>>
  BY <1>1, <1>3, FailMoves, KeepsRest
<1>4. CASE /\ r.payload.status \in BlockedStatuses /\ ~(nextToken > MaxTokens)
           /\ nextToken' = nextToken + 1
           /\ origin' = [origin EXCEPT ![nextToken] = r.payload.reservation]
           /\ Goto(a, k)
  <2>1. /\ nextToken \in 1 .. MaxTokens + 1 /\ job[a] \in Jobs /\ MaxTokens \in Nat
        /\ origin \in [Tokens -> Nat]
    BY AuthBrokerAssumption DEF BrokerInv, BrokerTypeOK
  <2>2. nextToken \in Tokens /\ nextToken + 1 \in 1 .. MaxTokens + 1 /\ nextToken \in Nat
    BY <1>4, <2>1 DEF Tokens
  <2>3. /\ origin' \in [Tokens -> Nat] /\ origin'[nextToken] = r.payload.reservation
        /\ \A t \in Tokens : t # nextToken => origin'[t] = origin[t]
    BY <1>2, <1>4, <2>1, <2>2
  <2>4. /\ k \in Jobs /\ k.pc = "cas" /\ k.mode = "recover"
        /\ k.want = ReadyPayload(nextToken) /\ k.generation = r.generation
    <3>1. ReadyPayload(nextToken) \in PayloadType BY <2>2, PayloadTypes
    <3> QED BY SMTT(30), <1>2, <2>1, <3>1, SwapJob
  <2> HIDE DEF k
  <2>5. Moved(job, job', a) /\ job'[a] = k BY <1>4, <2>4, GotoGives
  <2>6. ~Owns(job[a]) /\ ~Writing(job[a]) BY Quiet
  <2>7. Good(o.disk.live, o.disk.durable, job', spends, origin', nextToken + 1, nextAttempt)
    BY <1>1, <1>2, <1>4, <2>2, <2>3, <2>4, <2>5, <2>6, RecoverKeeps DEF GoodWith
  <2>8. Moves(o.disk, spends, origin', nextToken + 1, nextAttempt)
    BY <1>1, <1>4, <2>4, <2>7, GotoMoves
  <2> QED BY <1>1, <1>4, <2>2, <2>3, <2>8, Keeps DEF BrokerInv, BrokerTypeOK, SpentOnce
<1> QED BY <1>3, <1>4 DEF BeginRecovery

LEMMA ReadBeforeKeeps ==
    ASSUME BrokerInv, NEW a \in Actors, ReadBefore(a)
    PROVE  BrokerInv'
<1>1. PICK o \in ReadOutcomes(disk) :
        /\ disk' = o.disk
        /\ \/ /\ End(a, NoGrant) /\ UNCHANGED <<nextToken, nextAttempt, origin>>
           \/ /\ o.reply = "ok" /\ job[a].mode = "reserve"
              /\ BeginRefresh(a, o.record) /\ UNCHANGED <<nextToken, origin>>
           \/ /\ o.reply = "ok" /\ job[a].mode = "recover"
              /\ BeginRecovery(a, o.record) /\ UNCHANGED nextAttempt
  BY DEF ReadBefore, Happens
<1>2. job[a].pc = "before" /\ UNCHANGED spends BY DEF ReadBefore
<1>3. o.disk \in Disks /\ GoodWith(o.disk, job) /\ Grows(disk, o.disk) BY ReadWorks
<1>4. CASE End(a, NoGrant) /\ UNCHANGED <<nextToken, nextAttempt, origin>>
  BY <1>1, <1>2, <1>3, <1>4, FailMoves, KeepsRest
<1> QED BY <1>1, <1>2, <1>4, BeginRefreshKeeps, BeginRecoveryKeeps

LEMMA CompareAndSwapKeeps ==
    ASSUME BrokerInv, NEW a \in Actors, CompareAndSwap(a)
    PROVE  BrokerInv'
<1> DEFINE j == job[a]
<1>1. PICK o \in CompareAndSwapOutcomes(disk, j.generation,
                                       CommitId(a, j.generation), j.want) :
        /\ disk' = o.disk
        /\ \/ Goto(a, [j EXCEPT !.pc = "verify", !.acked = TRUE])
           \/ Goto(a, [j EXCEPT !.pc = "verify"])
           \/ Goto(a, [j EXCEPT !.try = 1, !.may = (j.may \/ o.reply = "uncertain")])
           \/ Goto(a, [j EXCEPT !.pc = "verify", !.may = TRUE])
           \/ \E code : Reconcile(a, j, code)
           \/ End(a, NoGrant)
  BY DEF CompareAndSwap, Happens
<1>2. j.pc = "cas" /\ UNCHANGED <<spends, origin, nextToken, nextAttempt>> /\ Writing(j)
  BY DEF CompareAndSwap, Writing
<1>3. o.disk \in Disks /\ GoodWith(o.disk, job) /\ Grows(disk, o.disk) BY <1>2, SwapWorks
<1>4. j \in Jobs BY DEF BrokerInv, BrokerTypeOK
<1>5. ASSUME NEW k \in Jobs, Goto(a, k), k.mode = j.mode, k.before = j.before,
             k.want = j.want, k.generation = j.generation, k.pc \in {j.pc, "verify"}
      PROVE  BrokerInv'
  BY <1>1, <1>2, <1>3, <1>5, StayMoves, KeepsRest
<1>6. CASE Goto(a, [j EXCEPT !.pc = "verify", !.acked = TRUE])
  <2> DEFINE k == [j EXCEPT !.pc = "verify", !.acked = TRUE]
  <2>1. /\ k \in Jobs /\ k.mode = j.mode /\ k.before = j.before
        /\ k.want = j.want /\ k.generation = j.generation /\ k.pc = "verify"
    BY <1>4 DEF Jobs, Phases
  <2> QED BY <1>5, <1>6, <2>1
<1>7. CASE Goto(a, [j EXCEPT !.pc = "verify"])
  <2> DEFINE k == [j EXCEPT !.pc = "verify"]
  <2>1. /\ k \in Jobs /\ k.mode = j.mode /\ k.before = j.before
        /\ k.want = j.want /\ k.generation = j.generation /\ k.pc = "verify"
    BY <1>4 DEF Jobs, Phases
  <2> QED BY <1>5, <1>7, <2>1
<1>8. CASE Goto(a, [j EXCEPT !.try = 1, !.may = (j.may \/ o.reply = "uncertain")])
  <2> DEFINE k == [j EXCEPT !.try = 1, !.may = (j.may \/ o.reply = "uncertain")]
  <2>1. /\ k \in Jobs /\ k.mode = j.mode /\ k.before = j.before
        /\ k.want = j.want /\ k.generation = j.generation /\ k.pc = j.pc
    BY <1>4 DEF Jobs, Phases
  <2> QED BY <1>5, <1>8, <2>1
<1>9. CASE Goto(a, [j EXCEPT !.pc = "verify", !.may = TRUE])
  <2> DEFINE k == [j EXCEPT !.pc = "verify", !.may = TRUE]
  <2>1. /\ k \in Jobs /\ k.mode = j.mode /\ k.before = j.before
        /\ k.want = j.want /\ k.generation = j.generation /\ k.pc = "verify"
    BY <1>4 DEF Jobs, Phases
  <2> QED BY <1>5, <1>9, <2>1
<1>10. CASE \E code : Reconcile(a, j, code)
  BY <1>1, <1>2, <1>3, <1>10, ReconcileMoves, KeepsRest
<1>11. CASE End(a, NoGrant) BY <1>1, <1>2, <1>3, <1>11, FailMoves, KeepsRest
<1> QED BY <1>1, <1>6, <1>7, <1>8, <1>9, <1>10, <1>11

LEMMA VerifyKeeps ==
    ASSUME BrokerInv, NEW a \in Actors, Verify(a)
    PROVE  BrokerInv'
<1>1. PICK o \in ReadOutcomes(disk) :
        /\ disk' = o.disk
        /\ \/ \E code : Reconcile(a, job[a], code)
           \/ /\ o.reply = "ok" /\ o.record.payload = job[a].want
              /\ Succeed(a, o.record)
  BY DEF Verify, Happens, Proven
<1>2. Writing(job[a]) /\ UNCHANGED <<spends, origin, nextToken, nextAttempt>>
  BY DEF Verify, Writing
<1>3. o.disk \in Disks /\ GoodWith(o.disk, job) /\ Grows(disk, o.disk) BY ReadWorks
<1>4. CASE \E code : Reconcile(a, job[a], code)
  BY <1>1, <1>2, <1>3, <1>4, ReconcileMoves, KeepsRest
<1>5. CASE o.reply = "ok" /\ o.record.payload = job[a].want /\ Succeed(a, o.record)
  <2>1. o.record = o.disk.live /\ o.record = o.disk.durable BY <1>5, RecordRead
  <2> QED BY <1>1, <1>2, <1>3, <1>5, <2>1, SucceedMoves, KeepsRest
<1> QED BY <1>1, <1>4, <1>5

LEMMA ReadLatestKeeps ==
    ASSUME BrokerInv, NEW a \in Actors, ReadLatest(a)
    PROVE  BrokerInv'
<1> DEFINE j == job[a]
<1>1. PICK o \in ReadOutcomes(disk) :
        /\ disk' = o.disk
        /\ \/ End(a, NoGrant)
           \/ /\ o.reply = "ok" /\ o.record.payload = j.want /\ Succeed(a, o.record)
           \/ /\ o.reply = "ok" /\ j.mode # "recover" /\ o.record.payload = j.before
              /\ Goto(a, CompareAndRead([j EXCEPT !.rebases = @ + 1],
                                        o.record.generation, j.want))
  BY DEF ReadLatest, Happens, Arrived, Superseded
<1>2. /\ j.pc = "latest" /\ Writing(j)
      /\ UNCHANGED <<spends, origin, nextToken, nextAttempt>>
  BY DEF ReadLatest, Writing
<1>3. o.disk \in Disks /\ GoodWith(o.disk, job) /\ Grows(disk, o.disk) BY ReadWorks
<1>4. CASE End(a, NoGrant) BY <1>1, <1>2, <1>3, <1>4, FailMoves, KeepsRest
<1>5. CASE o.reply = "ok" /\ o.record.payload = j.want /\ Succeed(a, o.record)
  <2>1. o.record = o.disk.live /\ o.record = o.disk.durable BY <1>5, RecordRead
  <2> QED BY <1>1, <1>2, <1>3, <1>5, <2>1, SucceedMoves, KeepsRest
<1>6. CASE /\ o.reply = "ok" /\ j.mode # "recover" /\ o.record.payload = j.before
           /\ Goto(a, CompareAndRead([j EXCEPT !.rebases = @ + 1],
                                     o.record.generation, j.want))
  <2> DEFINE i == [j EXCEPT !.rebases = @ + 1]
             k == CompareAndRead(i, o.record.generation, j.want)
  <2>1. j \in Jobs BY DEF BrokerInv, BrokerTypeOK
  <2>2. i \in Jobs /\ i.mode = j.mode /\ i.before = j.before /\ j.want \in PayloadType
    BY <2>1 DEF Jobs
  <2>3. o.record = o.disk.live /\ o.record.generation \in Nat BY <1>6, RecordRead
  <2> HIDE DEF i
  <2>4. /\ k \in Jobs /\ k.pc = "cas" /\ k.mode = j.mode /\ k.before = j.before
        /\ k.want = j.want /\ k.generation = o.record.generation
    BY <2>2, <2>3, SwapJob
  <2>5. Goto(a, k) BY <1>6 DEF i
  <2> HIDE DEF k
  <2>6. Moved(job, job', a) /\ job'[a] = k BY <2>4, <2>5, GotoGives
  <2>7. j.mode \in {"reserve", "commit"}
    BY <1>2, <1>6, <2>1 DEF BrokerInv, Good, Shaped, Writing, Jobs
  <2>8. Good(o.disk.live, o.disk.durable, job', spends, origin, nextToken, nextAttempt)
    BY <1>2, <1>3, <1>6, <2>3, <2>4, <2>6, <2>7, RebaseKeeps DEF GoodWith
  <2>9. Moves(o.disk, spends, origin, nextToken, nextAttempt)
    BY <1>3, <2>4, <2>5, <2>8, GotoMoves
  <2> QED BY <1>1, <1>2, <1>3, <2>9, KeepsRest
<1> QED BY <1>1, <1>4, <1>5, <1>6

-----------------------------------------------------------------------------
(* The adapter.                                                            *)

\* The store stays as it is.
LEMMA SameDisk ==
    ASSUME BrokerInv
    PROVE  disk \in Disks /\ GoodWith(disk, job) /\ Grows(disk, disk)
BY DEF BrokerInv, BrokerTypeOK, GoodWith, Grows, Disks, Records

\* #commitAfterDispatch writes under the generation of the reservation.
LEMMA CommitJob ==
    ASSUME BrokerInv, NEW a \in Actors, job[a].pc \in {"adapter", "dispatched"},
           NEW w \in PayloadType, CommitAfterDispatch(a, w)
    PROVE  \E k \in Jobs :
             /\ Goto(a, k) /\ Moved(job, job', a) /\ job'[a] = k
             /\ k.pc = "cas" /\ k.mode = "commit" /\ k.before = job[a].before
             /\ k.want = w /\ k.generation = job[a].generation
<1> DEFINE k == CompareAndRead(job[a], job[a].generation, w)
<1>1. job[a] \in Jobs /\ job[a].generation \in Nat BY DEF BrokerInv, BrokerTypeOK, Jobs
<1>2. job[a].mode = "commit" BY DEF BrokerInv, Good, Shaped
<1>3. /\ k \in Jobs /\ k.pc = "cas" /\ k.mode = "commit" /\ k.before = job[a].before
      /\ k.want = w /\ k.generation = job[a].generation
  BY <1>1, <1>2, SwapJob
<1>4. Goto(a, k) BY DEF CommitAfterDispatch
<1> HIDE DEF k
<1>5. Moved(job, job', a) /\ job'[a] = k BY <1>3, <1>4, GotoGives
<1> QED BY <1>3, <1>4, <1>5

LEMMA BeforeTypes ==
    ASSUME BrokerInv, NEW a \in Actors
    PROVE  /\ job[a].before \in PayloadType /\ job[a].before.token \in Nat
           /\ job[a].before.reservation \in Nat
BY DEF BrokerInv, BrokerTypeOK, Jobs, PayloadType

LEMMA AdapterFailsKeeps ==
    ASSUME BrokerInv, NEW a \in Actors, AdapterFailsBeforeDispatch(a)
    PROVE  BrokerInv'
<1>1. /\ job[a].pc = "adapter" /\ CommitAfterDispatch(a, ReadyPayload(job[a].before.token))
      /\ UNCHANGED <<disk, spends, origin, nextToken, nextAttempt>>
  BY DEF AdapterFailsBeforeDispatch
<1>2. ReadyPayload(job[a].before.token) \in PayloadType BY BeforeTypes, PayloadTypes
<1>3. PICK k \in Jobs :
        /\ Goto(a, k) /\ Moved(job, job', a) /\ job'[a] = k
        /\ k.pc = "cas" /\ k.mode = "commit" /\ k.before = job[a].before
        /\ k.want = ReadyPayload(job[a].before.token) /\ k.generation = job[a].generation
  BY <1>1, <1>2, CommitJob
<1>4. disk \in Disks /\ GoodWith(disk, job) /\ Grows(disk, disk) BY SameDisk
<1>5. Good(disk.live, disk.durable, job', spends, origin, nextToken, nextAttempt)
  BY <1>1, <1>3, <1>4, RestoreKeeps DEF GoodWith
<1>6. Moves(disk, spends, origin, nextToken, nextAttempt) BY <1>3, <1>4, <1>5, GotoMoves
<1> QED BY <1>1, <1>4, <1>6, KeepsRest

\* sq counts one more sending of credential t than sp.
Sent(sp, sq, t) == sq[t] = sp[t] + 1 /\ \A u \in Tokens : u # t => sq[u] = sp[u]

LEMMA SentKeeps ==
    ASSUME NEW l, NEW d, NEW J, NEW sp, NEW og, NEW nt, NEW na,
           Good(l, d, J, sp, og, nt, na),
           NEW a \in Actors, NEW K, Moved(J, K, a),
           J[a].pc = "adapter", K[a].pc = "dispatched", K[a].mode = J[a].mode,
           K[a].before = J[a].before, K[a].generation = J[a].generation,
           NEW sq, Sent(sp, sq, J[a].before.token)
    PROVE  Good(l, d, K, sq, og, nt, na)
<1>1. /\ sq[J[a].before.token] = sp[J[a].before.token] + 1
      /\ \A t \in Tokens : t # J[a].before.token => sq[t] = sp[t]
  BY DEF Sent
<1> QED BY <1>1, DispatchKeeps

LEMMA AdapterDispatchesKeeps ==
    ASSUME BrokerInv, NEW a \in Actors, AdapterDispatches(a)
    PROVE  BrokerInv'
<1> DEFINE k == [job[a] EXCEPT !.pc = "dispatched"]
           t == job[a].before.token
<1>1. /\ job[a].pc = "adapter" /\ Goto(a, k)
      /\ spends' = [spends EXCEPT ![t] = @ + 1]
      /\ UNCHANGED <<disk, origin, nextToken, nextAttempt>>
  BY DEF AdapterDispatches
<1>2. job[a] \in Jobs /\ spends \in [Tokens -> Nat] BY DEF BrokerInv, BrokerTypeOK
<1>3. t \in Tokens /\ spends[t] = 0 BY <1>1 DEF BrokerInv, Good, Reserved
<1>4. /\ spends' \in [Tokens -> Nat] /\ spends'[t] = spends[t] + 1
      /\ \A u \in Tokens : u # t => spends'[u] = spends[u]
  BY <1>1, <1>2, <1>3
<1>5. \A u \in Tokens : spends'[u] <= 1 BY <1>3, <1>4 DEF BrokerInv, SpentOnce
<1>6. /\ k \in Jobs /\ k.pc = "dispatched" /\ k.mode = job[a].mode
      /\ k.before = job[a].before /\ k.generation = job[a].generation
  BY <1>2 DEF Jobs, Phases
<1> HIDE DEF k
<1>7. Moved(job, job', a) /\ job'[a] = k BY <1>1, <1>6, GotoGives
<1>8. disk \in Disks /\ GoodWith(disk, job) /\ Grows(disk, disk) BY SameDisk
<1>9. Good(disk.live, disk.durable, job', spends', origin, nextToken, nextAttempt)
  <2>1. /\ job'[a].pc = "dispatched" /\ job'[a].mode = job[a].mode
        /\ job'[a].before = job[a].before /\ job'[a].generation = job[a].generation
    BY <1>6, <1>7
  <2>2. Sent(spends, spends', job[a].before.token) BY <1>4 DEF Sent
  <2>3. Good(disk.live, disk.durable, job, spends, origin, nextToken, nextAttempt)
    BY <1>8 DEF GoodWith
  <2> HIDE DEF t
  <2> QED BY <1>1, <1>7, <2>1, <2>2, <2>3, SentKeeps
<1>10. Moves(disk, spends', origin, nextToken, nextAttempt)
  BY <1>1, <1>6, <1>8, <1>9, GotoMoves
<1> QED BY <1>1, <1>4, <1>5, <1>8, <1>10, Keeps DEF BrokerInv, BrokerTypeOK

\* What the next credential is.
LEMMA NextCredential ==
    ASSUME BrokerInv, nextToken <= MaxTokens
    PROVE  /\ nextToken \in Tokens /\ nextToken \in Nat
           /\ nextToken + 1 \in 1 .. MaxTokens + 1
           /\ ReadyPayload(nextToken) \in PayloadType
<1>1. nextToken \in 1 .. MaxTokens + 1 /\ MaxTokens \in Nat
  BY AuthBrokerAssumption DEF BrokerInv, BrokerTypeOK
<1>2. /\ nextToken \in Tokens /\ nextToken + 1 \in 1 .. MaxTokens + 1 /\ nextToken \in Nat
  BY <1>1 DEF Tokens
<1> QED BY <1>2, PayloadTypes

LEMMA AdapterReturnsKeeps ==
    ASSUME BrokerInv, NEW a \in Actors, AdapterReturns(a)
    PROVE  BrokerInv'
<1>1. job[a].pc = "dispatched" /\ UNCHANGED <<disk, spends, nextAttempt>>
  BY DEF AdapterReturns
<1>2. disk \in Disks /\ GoodWith(disk, job) /\ Grows(disk, disk) BY SameDisk
<1>3. /\ job[a].before \in PayloadType /\ job[a].before.token \in Nat
      /\ job[a].before.reservation \in Nat
  BY BeforeTypes
<1>4. CASE /\ nextToken <= MaxTokens /\ nextToken' = nextToken + 1
           /\ origin' = [origin EXCEPT ![nextToken] = job[a].before.reservation]
           /\ CommitAfterDispatch(a, ReadyPayload(nextToken))
  <2>1. /\ nextToken \in Tokens /\ nextToken + 1 \in 1 .. MaxTokens + 1
        /\ ReadyPayload(nextToken) \in PayloadType
        /\ origin' \in [Tokens -> Nat] /\ origin'[nextToken] = job[a].before.reservation
        /\ \A t \in Tokens : t # nextToken => origin'[t] = origin[t]
    <3>1. nextToken <= MaxTokens /\ job[a].before.reservation \in Nat BY <1>3, <1>4
    <3>2. origin' = [origin EXCEPT ![nextToken] = job[a].before.reservation] BY <1>4
    <3>3. /\ nextToken \in Tokens /\ nextToken + 1 \in 1 .. MaxTokens + 1
          /\ ReadyPayload(nextToken) \in PayloadType
      BY <3>1, NextCredential
    <3>4. origin \in [Tokens -> Nat] BY DEF BrokerInv, BrokerTypeOK
    <3>5. /\ origin' \in [Tokens -> Nat] /\ origin'[nextToken] = job[a].before.reservation
          /\ \A t \in Tokens : t # nextToken => origin'[t] = origin[t]
      BY <3>1, <3>2, <3>3, <3>4
    <3> QED BY <3>3, <3>5
  <2>2. PICK k \in Jobs :
          /\ Goto(a, k) /\ Moved(job, job', a) /\ job'[a] = k
          /\ k.pc = "cas" /\ k.mode = "commit" /\ k.before = job[a].before
          /\ k.want = ReadyPayload(nextToken) /\ k.generation = job[a].generation
    BY <1>1, <1>4, <2>1, CommitJob
  <2>3. \A t \in Tokens : origin'[t] \in Nat BY <2>1
  <2>4. Good(disk.live, disk.durable, job', spends, origin', nextToken + 1, nextAttempt)
    BY <1>1, <1>2, <2>1, <2>2, <2>3, RefreshedKeeps DEF GoodWith
  <2>5. Moves(disk, spends, origin', nextToken + 1, nextAttempt)
    BY <1>2, <2>2, <2>4, GotoMoves
  <2> QED BY <1>1, <1>2, <1>4, <2>1, <2>5, Keeps DEF BrokerInv, BrokerTypeOK, SpentOnce
<1>5. CASE /\ \E status \in {"recovery", "reauth"} :
                CommitAfterDispatch(a, BlockedPayload(status, job[a].before))
           /\ UNCHANGED <<nextToken, origin>>
  <2>1. PICK status \in {"recovery", "reauth"} :
                CommitAfterDispatch(a, BlockedPayload(status, job[a].before))
    BY <1>5
  <2>2. BlockedPayload(status, job[a].before) \in PayloadType BY <1>3, PayloadTypes
  <2>3. PICK k \in Jobs :
          /\ Goto(a, k) /\ Moved(job, job', a) /\ job'[a] = k
          /\ k.pc = "cas" /\ k.mode = "commit" /\ k.before = job[a].before
          /\ k.want = BlockedPayload(status, job[a].before)
          /\ k.generation = job[a].generation
    BY <1>1, <2>1, <2>2, CommitJob
  <2>4. Good(disk.live, disk.durable, job', spends, origin, nextToken, nextAttempt)
    BY <1>1, <1>2, <2>3, BlockKeeps DEF GoodWith
  <2>5. Moves(disk, spends, origin, nextToken, nextAttempt) BY <1>2, <2>3, <2>4, GotoMoves
  <2> QED BY <1>1, <1>2, <1>5, <2>5, KeepsRest
<1> QED BY <1>4, <1>5 DEF AdapterReturns

-----------------------------------------------------------------------------
(* Callers.                                                                *)

Kinds == {"none", "login", "refresh", "worker"}

LEMMA ReturnMoves ==
    ASSUME BrokerInv, NEW c \in Callers, NEW kind, NEW grant \in Grants,
           Return(c, kind, grant),
           NEW x \in Disks, Grows(disk, x), GoodWith(x, job),
           grant.generation <= x.durable.generation
    PROVE  Moves(x, spends, origin, nextToken, nextAttempt)
<1>1. /\ job \in [Actors -> Jobs] /\ call \in [Callers -> Calls]
      /\ held \in [Callers -> Grants]
  BY DEF BrokerInv, BrokerTypeOK
<1>2. job' = job /\ call' = [call EXCEPT ![c] = Answered(grant)] BY DEF Return
<1>3. held' \in {held, [held EXCEPT ![c] = grant]} BY DEF Return
<1>4. call' \in [Callers -> Calls] BY <1>1, <1>2, JobTypes
<1>5. /\ held' \in [Callers -> Grants]
      /\ \A d \in Callers : held'[d] \in {held[d], grant}
  BY <1>1, <1>3
<1>6. \A d \in Callers : held'[d].generation <= x.durable.generation BY <1>5, HeldStays
<1> QED BY <1>1, <1>2, <1>4, <1>5, <1>6 DEF Moves, GoodWith

LEMMA SharedMoves ==
    ASSUME BrokerInv, NEW c \in Callers, NEW kind \in Kinds,
           NEW expected \in Grants, RefreshShared(c, kind, expected),
           NEW x \in Disks, Grows(disk, x), GoodWith(x, job)
    PROVE  Moves(x, spends, origin, nextToken, nextAttempt)
<1> DEFINE a == Home[c]
<1>1. /\ job \in [Actors -> Jobs] /\ call \in [Callers -> Calls]
      /\ held \in [Callers -> Grants]
  BY DEF BrokerInv, BrokerTypeOK
<1>2. a \in Actors BY AuthBrokerAssumption DEF Actors
<1>3. /\ held' = held
      /\ call' = [call EXCEPT ![c] = [IdleCall EXCEPT !.pc = "shared", !.kind = kind,
                                                      !.expected = expected]]
      /\ job' \in {job, [job EXCEPT ![a] = RefreshOnce(expected)]}
  BY DEF RefreshShared
<1>4. [IdleCall EXCEPT !.pc = "shared", !.kind = kind, !.expected = expected] \in Calls
  BY DEF IdleCall, Calls, Kinds
<1>5. call' \in [Callers -> Calls] BY <1>1, <1>3, <1>4
<1>6. CASE job' = job BY <1>1, <1>3, <1>5, <1>6, HeldStays DEF Moves, GoodWith
<1>7. CASE job' = [job EXCEPT ![a] = RefreshOnce(expected)]
  <2>1. /\ RefreshOnce(expected) \in Jobs /\ RefreshOnce(expected).pc = "before"
        /\ RefreshOnce(expected).mode = "reserve"
    BY JobTypes
  <2>2. job' \in [Actors -> Jobs] /\ Moved(job, job', a) /\ job'[a] = RefreshOnce(expected)
    BY <1>1, <1>2, <1>7, <2>1 DEF Moved
  <2>3. Good(x.live, x.durable, job', spends, origin, nextToken, nextAttempt)
    BY <1>2, <2>1, <2>2, BlankKeeps DEF GoodWith
  <2> QED BY <1>1, <1>3, <1>5, <2>2, <2>3, HeldStays DEF Moves
<1> QED BY <1>3, <1>6, <1>7

LEMMA JoinMoves ==
    ASSUME BrokerInv, NEW c \in Callers, NEW kind \in Kinds,
           NEW record, record.payload.token \in Nat, JoinActiveRefresh(c, kind, record),
           NEW x \in Disks, Grows(disk, x), GoodWith(x, job)
    PROVE  Moves(x, spends, origin, nextToken, nextAttempt)
<1>1. /\ job \in [Actors -> Jobs] /\ call \in [Callers -> Calls]
      /\ held \in [Callers -> Grants]
  BY DEF BrokerInv, BrokerTypeOK
<1>2. job' = job /\ held' = held BY DEF JoinActiveRefresh
<1>3. /\ [IdleCall EXCEPT !.pc = "join", !.kind = kind] \in Calls
      /\ [IdleCall EXCEPT !.pc = "reread", !.kind = kind,
                          !.source = record.payload.token] \in Calls
  BY JobTypes DEF IdleCall, Calls, Kinds
<1>4. call' \in [Callers -> Calls] BY <1>1, <1>3 DEF JoinActiveRefresh
<1> QED BY <1>1, <1>2, <1>4, HeldStays DEF Moves, GoodWith

LEMMA ReadCanonicalKeeps ==
    ASSUME BrokerInv, NEW c \in Callers, NEW kind \in Kinds,
           ReadCanonical(c, kind)
    PROVE  BrokerInv'
<1>1. PICK o \in ReadOutcomes(disk) :
        /\ disk' = o.disk
        /\ \/ Return(c, kind, NoGrant)
           \/ o.reply = "ok" /\ UseReady(c, kind, o.record)
           \/ o.reply = "ok" /\ JoinActiveRefresh(c, kind, o.record)
  BY DEF ReadCanonical, Happens
<1>2. UNCHANGED <<spends, origin, nextToken, nextAttempt>> BY DEF ReadCanonical
<1>3. o.disk \in Disks /\ GoodWith(o.disk, job) /\ Grows(disk, o.disk) BY ReadWorks
<1> SUFFICES Moves(o.disk, spends, origin, nextToken, nextAttempt)
  BY <1>1, <1>2, <1>3, KeepsRest
<1>4. CASE Return(c, kind, NoGrant)
  <2>1. NoGrant \in Grants /\ NoGrant.generation = 0 BY JobTypes DEF NoGrant
  <2>2. o.disk.durable.generation \in Nat BY <1>3 DEF Disks, Records
  <2> QED BY <1>3, <1>4, <2>1, <2>2, ReturnMoves
<1>5. CASE o.reply = "ok" /\ UseReady(c, kind, o.record)
  <2> DEFINE g == Grant(o.record)
  <2>1. /\ o.record = o.disk.durable /\ o.record.payload.token \in Nat
        /\ o.record.generation \in Nat
    BY <1>5, RecordRead
  <2>2. g \in Grants /\ g.generation = o.disk.durable.generation BY <2>1 DEF Grant, Grants
  <2>3. g.generation <= o.disk.durable.generation BY <2>1, <2>2
  <2>4. held[c] \in Grants BY <1>3, HeldStays
  <2>5. \/ Return(c, kind, g) \/ RefreshShared(c, kind, g)
        \/ RefreshShared(c, kind, held[c])
    BY <1>5 DEF UseReady
  <2> HIDE DEF g
  <2> QED BY <1>3, <2>2, <2>3, <2>4, <2>5, ReturnMoves, SharedMoves
<1>6. CASE o.reply = "ok" /\ JoinActiveRefresh(c, kind, o.record)
  <2>1. o.record.payload.token \in Nat BY <1>6, RecordRead
  <2> QED BY <1>3, <1>6, <2>1, JoinMoves
<1> QED BY <1>1, <1>4, <1>5, <1>6

LEMMA CallKeeps ==
    ASSUME BrokerInv, NEW c \in Callers, NEW kind \in Requests[c], Call(c, kind)
    PROVE  BrokerInv'
<1>1. kind \in Kinds BY AuthBrokerAssumption DEF Kinds
<1> QED BY <1>1, ReadCanonicalKeeps DEF Call

LEMMA RereadKeeps ==
    ASSUME BrokerInv, NEW c \in Callers, Reread(c)
    PROVE  BrokerInv'
<1>1. call[c].kind \in Kinds BY DEF BrokerInv, BrokerTypeOK, Calls, Kinds
<1> QED BY <1>1, ReadCanonicalKeeps DEF Reread

-----------------------------------------------------------------------------
(* The administrator, key rotation, and what can go wrong.                 *)

LEMMA InstallCredentialKeeps ==
    ASSUME BrokerInv, InstallCredential
    PROVE  BrokerInv'
<1> DEFINE i == [IdleJob EXCEPT !.mode = "install"]
<1>1. PICK o \in ReadOutcomes(disk) :
        o.reply = "ok" /\ disk' = o.disk /\ BeginInstall(o.record)
  BY DEF InstallCredential, Happens
<1>2. /\ job[Admin].pc = "idle" /\ UNCHANGED <<spends, origin, nextAttempt>>
      /\ Admin \in Actors
  BY DEF InstallCredential, AdminCalls, Actors
<1>3. o.disk \in Disks /\ GoodWith(o.disk, job) /\ Grows(disk, o.disk) BY ReadWorks
<1>4. /\ o.record = o.disk.live /\ o.record = o.disk.durable
      /\ o.record.generation \in Nat /\ o.record.payload \in PayloadType
      /\ o.record.payload.status = "ready" =>
            o.record.payload = ReadyPayload(o.record.payload.token)
  BY <1>1, RecordRead
<1>5. i \in Jobs /\ i.mode = "install" BY JobTypes DEF Jobs, IdleJob
<1>6. ~Owns(job[Admin]) /\ ~Writing(job[Admin]) BY <1>2, Quiet
<1> HIDE DEF i
<1>7. CASE /\ o.record.payload.status \notin BlockedStatuses
           /\ nextToken <= MaxTokens /\ nextToken' = nextToken + 1
           /\ Goto(Admin, CompareAndRead(i, o.record.generation, ReadyPayload(nextToken)))
  <2> DEFINE k == CompareAndRead(i, o.record.generation, ReadyPayload(nextToken))
  <2>1. /\ nextToken \in Tokens /\ nextToken + 1 \in 1 .. MaxTokens + 1
        /\ ReadyPayload(nextToken) \in PayloadType
    BY <1>7, NextCredential
  <2>2. /\ k \in Jobs /\ k.pc = "cas" /\ k.mode = "install"
        /\ k.want = ReadyPayload(nextToken) /\ k.generation = o.record.generation
    <3>1. ReadyPayload(nextToken) \in PayloadType BY <2>1
    <3>2. o.record.generation \in Nat BY <1>4
    <3> QED BY <1>5, <3>1, <3>2, SwapJob
  <2> HIDE DEF k
  <2>3. Moved(job, job', Admin) /\ job'[Admin] = k /\ Goto(Admin, k)
    BY <1>2, <1>7, <2>2, GotoGives DEF k
  <2>4. Good(o.disk.live, o.disk.durable, job', spends, origin, nextToken + 1, nextAttempt)
    BY <1>2, <1>3, <1>4, <1>6, <1>7, <2>1, <2>2, <2>3, InstallKeeps DEF GoodWith
  <2>5. Moves(o.disk, spends, origin, nextToken + 1, nextAttempt)
    BY <1>2, <1>3, <2>2, <2>3, <2>4, GotoMoves
  <2> QED BY <1>1, <1>2, <1>3, <1>7, <2>1, <2>5, Keeps DEF BrokerInv, BrokerTypeOK,
    SpentOnce
<1>8. CASE /\ o.record.payload.status \notin BlockedStatuses
           /\ o.record.payload.status = "ready" /\ UNCHANGED nextToken
           /\ Goto(Admin, CompareAndRead(i, o.record.generation, o.record.payload))
  <2> DEFINE k == CompareAndRead(i, o.record.generation, o.record.payload)
  <2>1. /\ k \in Jobs /\ k.pc = "cas" /\ k.mode = "install"
        /\ k.want = o.record.payload /\ k.generation = o.record.generation
    BY <1>4, <1>5, SwapJob
  <2> HIDE DEF k
  <2>2. Moved(job, job', Admin) /\ job'[Admin] = k /\ Goto(Admin, k)
    BY <1>2, <1>8, <2>1, GotoGives DEF k
  <2>3. Good(o.disk.live, o.disk.durable, job', spends, origin, nextToken, nextAttempt)
    BY <1>2, <1>3, <1>4, <1>6, <1>8, <2>1, <2>2, ReinstallKeeps DEF GoodWith
  <2>4. Moves(o.disk, spends, origin, nextToken, nextAttempt)
    BY <1>2, <1>3, <2>1, <2>2, <2>3, GotoMoves
  <2> QED BY <1>1, <1>2, <1>3, <1>8, <2>4, KeepsRest
<1> QED BY <1>1, <1>7, <1>8 DEF BeginInstall, i

LEMMA RecoverRefreshReservationKeeps ==
    ASSUME BrokerInv, RecoverRefreshReservation
    PROVE  BrokerInv'
<1>1. PICK o \in ReadOutcomes(disk) :
        /\ o.reply = "ok" /\ disk' = o.disk
        /\ Goto(Admin, [IdleJob EXCEPT !.pc = "before", !.mode = "recover",
                                       !.before = o.record.payload,
                                       !.generation = o.record.generation])
  BY DEF RecoverRefreshReservation, Happens
<1> DEFINE k == [IdleJob EXCEPT !.pc = "before", !.mode = "recover",
                                !.before = o.record.payload,
                                !.generation = o.record.generation]
<1>2. /\ UNCHANGED <<spends, origin, nextToken, nextAttempt>> /\ Admin \in Actors
  BY DEF RecoverRefreshReservation, Actors
<1>3. o.disk \in Disks /\ GoodWith(o.disk, job) /\ Grows(disk, o.disk) BY ReadWorks
<1>4. o.record.generation \in Nat /\ o.record.payload \in PayloadType BY <1>1, RecordRead
<1>5. k \in Jobs /\ k.pc = "before" /\ k.mode = "recover"
  BY <1>4, JobTypes DEF Jobs, IdleJob, Phases
<1> HIDE DEF k
<1>6. Moved(job, job', Admin) /\ job'[Admin] = k /\ Goto(Admin, k)
  BY <1>1, <1>2, <1>5, GotoGives DEF k
<1>7. Good(o.disk.live, o.disk.durable, job', spends, origin, nextToken, nextAttempt)
  BY <1>2, <1>3, <1>5, <1>6, BlankKeeps DEF GoodWith
<1>8. Moves(o.disk, spends, origin, nextToken, nextAttempt)
  BY <1>2, <1>3, <1>5, <1>6, <1>7, GotoMoves
<1> QED BY <1>1, <1>2, <1>3, <1>8, KeepsRest

\* A step that only the store takes.
LEMMA DiskMoves ==
    ASSUME BrokerInv, NEW x \in Disks, Grows(disk, x), GoodWith(x, job),
           UNCHANGED <<job, call, held>>
    PROVE  Moves(x, spends, origin, nextToken, nextAttempt)
<1>1. /\ job' \in [Actors -> Jobs] /\ call' \in [Callers -> Calls]
      /\ held' \in [Callers -> Grants]
  BY DEF BrokerInv, BrokerTypeOK
<1>2. \A c \in Callers : held'[c].generation <= x.durable.generation BY HeldStays
<1> QED BY <1>1, <1>2 DEF Moves, GoodWith

LEMMA RotateEncryptionKeeps ==
    ASSUME BrokerInv, RotateEncryption
    PROVE  BrokerInv'
<1> DEFINE r == [generation |-> disk.live.generation + 1,
                 commitId   |-> <<"rotation", disk.live.generation>>,
                 payload    |-> disk.live.payload]
<1>1. PICK o \in CommitOutcomes(disk, r) : disk' = o.disk
  BY DEF RotateEncryption, Happens, RotateEncryptionOutcomes
<1>2. UNCHANGED <<job, call, held, spends, origin, nextToken, nextAttempt>>
  BY DEF RotateEncryption
<1>3. disk \in Disks /\ GoodWith(disk, job) BY SameDisk
<1>4. disk.live \in Records /\ disk.durable \in Records BY <1>3 DEF Disks
<1>5. /\ r \in Records /\ r.generation = disk.live.generation + 1
      /\ r.payload = disk.live.payload
  BY <1>4 DEF Records, CommitIds
<1> HIDE DEF r
<1>6. Written(disk, o.disk, r) BY <1>3, <1>5, CommitGives
<1>7. /\ Good(disk.live, disk.live, job, spends, origin, nextToken, nextAttempt)
      /\ Good(disk.live, disk.durable, job, spends, origin, nextToken, nextAttempt)
  BY <1>3, SyncKeeps DEF GoodWith
<1>8. Good(r, disk.durable, job, spends, origin, nextToken, nextAttempt)
  BY <1>5, <1>7, RotateKeeps
<1>9. Good(r, r, job, spends, origin, nextToken, nextAttempt) BY <1>8, SyncKeeps
<1>10. o.disk \in Disks /\ GoodWith(o.disk, job)
  BY <1>6, <1>7, <1>8, <1>9 DEF Written, GoodWith
<1>11. Grows(disk, o.disk)
  BY <1>4, <1>6, <1>7, <1>8 DEF Written, Grows, Good, Durable, Records
<1> QED BY <1>1, <1>2, <1>10, <1>11, DiskMoves, KeepsRest

LEMMA RemoveCandidateKeeps ==
    ASSUME BrokerInv, RemoveCandidate
    PROVE  BrokerInv'
<1>1. disk \in Disks /\ GoodWith(disk, job) BY SameDisk
<1>2. /\ disk' = [disk EXCEPT !.candidate = FALSE]
      /\ UNCHANGED <<job, call, held, spends, origin, nextToken, nextAttempt>>
  BY DEF RemoveCandidate
<1>3. disk' \in Disks /\ disk'.live = disk.live /\ disk'.durable = disk.durable
  BY <1>1, <1>2 DEF Disks
<1>4. GoodWith(disk', job) /\ Grows(disk, disk')
  BY <1>1, <1>3 DEF GoodWith, Grows, Disks, Records
<1> QED BY <1>2, <1>3, <1>4, DiskMoves, KeepsRest

\* The memory of some processes is gone.
LEMMA ForgetGives ==
    ASSUME BrokerInv, NEW A, Forget(A), NEW x \in Disks, Grows(disk, x)
    PROVE  /\ job' \in [Actors -> Jobs] /\ call' \in [Callers -> Calls]
           /\ held' \in [Callers -> Grants]
           /\ \A a \in Actors : job'[a] = IF a \in A THEN IdleJob ELSE job[a]
           /\ \A c \in Callers : held'[c].generation <= x.durable.generation
<1>1. /\ job \in [Actors -> Jobs] /\ call \in [Callers -> Calls]
      /\ held \in [Callers -> Grants]
  BY DEF BrokerInv, BrokerTypeOK
<1>2. /\ job' \in [Actors -> Jobs]
      /\ \A a \in Actors : job'[a] = IF a \in A THEN IdleJob ELSE job[a]
  BY <1>1, JobTypes DEF Forget
<1>3. call' \in [Callers -> Calls] BY <1>1, JobTypes DEF Forget
<1>4. /\ held' \in [Callers -> Grants]
      /\ \A c \in Callers : held'[c] \in {held[c], NoGrant}
  BY <1>1, JobTypes DEF Forget
<1>5. NoGrant.generation = 0 /\ x.durable.generation \in Nat BY DEF NoGrant, Disks, Records
<1>6. \A c \in Callers : held'[c].generation <= x.durable.generation
  BY <1>4, <1>5, HeldStays
<1> QED BY <1>2, <1>3, <1>4, <1>6

LEMMA CrashKeeps ==
    ASSUME BrokerInv, NEW a \in Actors, Crash(a)
    PROVE  BrokerInv'
<1>1. Forget({a}) /\ UNCHANGED <<spends, origin, nextToken, nextAttempt>> BY DEF Crash
<1>2. disk' \in Disks /\ GoodWith(disk', job) /\ Grows(disk, disk')
  <2>1. CASE disk' = disk BY <2>1, SameDisk
  <2>2. CASE /\ job[a].pc = "cas"
             /\ \E o \in CompareAndSwapOutcomes(disk, job[a].generation,
                            CommitId(a, job[a].generation), job[a].want) : disk' = o.disk
    BY <2>2, SwapWorks
  <2> QED BY <2>1, <2>2 DEF Crash
<1>3. /\ job' \in [Actors -> Jobs] /\ call' \in [Callers -> Calls]
      /\ held' \in [Callers -> Grants]
      /\ \A b \in Actors : job'[b] = IF b \in {a} THEN IdleJob ELSE job[b]
      /\ \A c \in Callers : held'[c].generation <= disk'.durable.generation
  BY <1>1, <1>2, ForgetGives
<1>4. Moved(job, job', a) /\ job'[a].pc = "idle" /\ job'[a].mode = "none"
  BY <1>3, JobTypes DEF Moved
<1>5. Good(disk'.live, disk'.durable, job', spends, origin, nextToken, nextAttempt)
  BY <1>2, <1>4, BlankKeeps DEF GoodWith
<1> QED BY <1>1, <1>2, <1>3, <1>5, KeepsRest DEF Moves

LEMMA PowerLossKeeps ==
    ASSUME BrokerInv, PowerLoss
    PROVE  BrokerInv'
<1>1. /\ Forget(Actors) /\ UNCHANGED <<spends, origin, nextToken, nextAttempt>>
      /\ disk' \in PowerLossOutcomes(disk)
  BY DEF PowerLoss
<1>2. disk \in Disks /\ GoodWith(disk, job) BY SameDisk
<1>3. disk' \in Disks /\ disk'.live = disk.durable /\ disk'.durable = disk.durable
  <2>1. PICK left \in {FALSE, disk.candidate \/ disk.live # disk.durable} :
          disk' = [live |-> disk.durable, durable |-> disk.durable, candidate |-> left]
    BY <1>1 DEF PowerLossOutcomes
  <2>2. left \in BOOLEAN BY <1>2 DEF Disks
  <2>3. disk.durable \in Records BY <1>2 DEF Disks
  <2> QED BY <2>1, <2>2, <2>3 DEF Disks
<1>4. Grows(disk, disk') BY <1>2, <1>3 DEF Grows, Disks, Records
<1>5. /\ job' \in [Actors -> Jobs] /\ call' \in [Callers -> Calls]
      /\ held' \in [Callers -> Grants]
      /\ \A b \in Actors : job'[b] = IF b \in Actors THEN IdleJob ELSE job[b]
      /\ \A c \in Callers : held'[c].generation <= disk'.durable.generation
  BY <1>1, <1>3, <1>4, ForgetGives
<1>6. \A b \in Actors : job'[b] = IdleJob /\ job'[b] \in Jobs BY <1>5
<1>7. Good(disk'.live, disk'.durable, job', spends, origin, nextToken, nextAttempt)
  BY <1>2, <1>3, <1>6, LossKeeps DEF GoodWith
<1> QED BY <1>1, <1>3, <1>5, <1>7, KeepsRest DEF Moves

-----------------------------------------------------------------------------
(* The theorems.                                                           *)

LEMMA InitGood == Init => BrokerInv
<1> SUFFICES ASSUME Init PROVE BrokerInv
  OBVIOUS
<1> DEFINE empty == [generation |-> 0, commitId |-> <<>>, payload |-> Uninitialized]
<1>1. empty \in Records /\ empty.payload = Uninitialized /\ empty.generation = 0
  BY JobTypes DEF Records, CommitIds
<1>2. disk \in Disks /\ disk.live = empty /\ disk.durable = empty BY <1>1 DEF Init, Disks
<1> HIDE DEF empty
<1>3. \A a \in Actors : job[a] = IdleJob BY DEF Init
<1>4. /\ job \in [Actors -> Jobs] /\ call \in [Callers -> Calls]
      /\ held \in [Callers -> Grants]
  BY JobTypes DEF Init
<1>5. /\ spends \in [Tokens -> Nat] /\ origin \in [Tokens -> Nat]
      /\ nextToken \in 1 .. MaxTokens + 1 /\ nextAttempt \in Nat \ {0}
  BY AuthBrokerAssumption DEF Init
<1>6. BrokerTypeOK BY <1>2, <1>4, <1>5 DEF BrokerTypeOK
<1>7. \A t \in Tokens : spends[t] = 0 /\ origin[t] = 0 BY DEF Init
<1>8. nextToken = 1 /\ nextAttempt = 1 BY DEF Init
<1>9. \A c \in Callers : held[c].generation = 0 BY DEF Init, NoGrant
<1>10. /\ Uninitialized.status = "none" /\ Uninitialized.token = 0
       /\ Uninitialized.reservation = 0
  BY DEF Uninitialized, Payload
<1>11. \A a \in Actors : /\ ~Writing(job[a]) /\ ~Reserving(job[a]) /\ ~Owns(job[a])
                         /\ job[a].pc = "idle" /\ job[a].mode = "none"
  BY <1>3, JobTypes DEF Writing, Reserving, Owns
<1>12. Typed(disk.live, disk.durable, job, spends, origin, nextToken, nextAttempt)
  BY <1>1, <1>2, <1>4, <1>7, <1>8 DEF Typed
<1>13. Shaped(job) /\ Distinct(job) BY <1>11 DEF Shaped, Distinct
<1>14. Bounded(disk.live, disk.durable, job, spends, origin, nextToken, nextAttempt)
  BY <1>1, <1>2, <1>7, <1>8, <1>10, <1>11 DEF Bounded
<1>15. Based(disk.live, disk.durable, job, spends, origin) BY <1>11 DEF Based, BasedAt
<1>16. /\ Reserved(disk.live, disk.durable, job, spends)
       /\ SentIsClosed(disk.live, disk.durable, job, spends)
  BY <1>7, <1>11 DEF Reserved, SentIsClosed
<1>17. Durable(disk.live, disk.durable) /\ SpentOnce /\ DeliveredIsDurable
  BY <1>1, <1>2, <1>7, <1>9 DEF Durable, SpentOnce, DeliveredIsDurable
<1> QED BY <1>6, <1>12, <1>13, <1>14, <1>15, <1>16, <1>17 DEF BrokerInv, Good

LEMMA NextGood == BrokerInv /\ [Next]_vars => BrokerInv'
<1> SUFFICES ASSUME BrokerInv, [Next]_vars PROVE BrokerInv'
  OBVIOUS
<1>1. ASSUME NEW a \in Actors, JobStep(a) PROVE BrokerInv'
  BY <1>1, ReadBeforeKeeps, CompareAndSwapKeeps, VerifyKeeps, ReadLatestKeeps DEF JobStep
<1>2. ASSUME NEW a \in Actors, Crash(a) PROVE BrokerInv'
  BY <1>2, CrashKeeps
<1>3. ASSUME NEW p \in Procs, AdapterStep(p) PROVE BrokerInv'
  <2>1. p \in Actors BY DEF Actors
  <2> QED BY <1>3, <2>1, AdapterFailsKeeps, AdapterDispatchesKeeps, AdapterReturnsKeeps DEF
    AdapterStep
<1>4. ASSUME NEW c \in Callers, Reread(c) PROVE BrokerInv'
  BY <1>4, RereadKeeps
<1>5. ASSUME NEW c \in Callers, NEW kind \in Requests[c], Call(c, kind) PROVE BrokerInv'
  BY <1>5, CallKeeps
<1>6. CASE \/ InstallCredential \/ RecoverRefreshReservation \/ RotateEncryption
           \/ RemoveCandidate \/ PowerLoss
  BY <1>6, InstallCredentialKeeps, RecoverRefreshReservationKeeps, RotateEncryptionKeeps,
     RemoveCandidateKeeps, PowerLossKeeps
<1>7. CASE UNCHANGED vars
  <2>1. /\ UNCHANGED <<job, call, held>> /\ disk' = disk
        /\ UNCHANGED <<spends, origin, nextToken, nextAttempt>>
    BY <1>7 DEF vars
  <2> QED BY <2>1, SameDisk, DiskMoves, KeepsRest
<1> QED BY <1>1, <1>2, <1>3, <1>4, <1>5, <1>6, <1>7 DEF Next

(* The invariant: a reservation belongs to one process, what was read is   *)
(* what a swap replaces, and the credential that was sent stays fenced     *)
(* (auth-broker.mjs #compareAndRead, #reserveRefresh).                     *)
THEOREM BrokerInvariant == Spec => []BrokerInv
BY InitGood, NextGood, PTL DEF Spec

(* A refresh token is sent to the provider at most once, whatever races,   *)
(* crashes and power losses there are (auth-broker.mjs #refreshOnce).      *)
THEOREM BrokerSpendsOnce == Spec => []SpentOnce
<1>1. BrokerInv => SpentOnce BY DEF BrokerInv
<1> QED BY <1>1, BrokerInvariant, PTL

(* A grant that was given survives a power loss                            *)
(* (encrypted-auth-state-store.mjs read).                                  *)
THEOREM BrokerDeliversDurable == Spec => []DeliveredIsDurable
<1>1. BrokerInv => DeliveredIsDurable BY DEF BrokerInv
<1> QED BY <1>1, BrokerInvariant, PTL

(* A credential that was sent is never canonical again: its reservation    *)
(* stays on the disk until another credential replaces it                  *)
(* (auth-broker.mjs #commitAfterDispatch).                                 *)
THEOREM BrokerNeverReusesSpent == Spec => []SpentNeverReady
<1>1. BrokerInv => SpentNeverReady
  <2> SUFFICES ASSUME BrokerInv, NEW r \in {disk.live, disk.durable},
                      r.payload.status = "ready"
               PROVE  spends[r.payload.token] = 0
    BY DEF SpentNeverReady
  <2>1. r.payload.token \in Tokens BY DEF BrokerInv, Good, Bounded
  <2>2. spends[r.payload.token] \in Nat BY <2>1 DEF BrokerInv, BrokerTypeOK
  <2>3. ASSUME NEW n \in Nat, Fenced(r.payload.token, n, disk.live, disk.durable)
        PROVE  FALSE
    BY <2>3 DEF Fenced, BlockedStatuses
  <2> QED BY <2>1, <2>2, <2>3 DEF BrokerInv, Good, SentIsClosed, Closed
<1> QED BY <1>1, BrokerInvariant, PTL

\* A swap that takes place replaces a payload as it may be replaced.
LEMMA SwapSucceeds ==
    ASSUME BrokerInv, NEW a \in Actors, job[a].pc = "cas",
           job[a].generation = disk.live.generation
    PROVE  Succession(disk.live.payload, job[a].want)
<1> DEFINE j == job[a]
           old == disk.live.payload
           t == j.before.token
<1>1. Swaps(a, disk.live, disk.durable, job, spends, origin) BY SwapWrites DEF BrokerInv
<1>2. old.status \in Statuses BY DEF BrokerInv, BrokerTypeOK, Disks, Records, PayloadType
<1>3. j.mode = "commit" => j.before.status = "in_progress" BY DEF BrokerInv, Good, Shaped
<1>4. CASE j.mode = "commit" /\ old = j.before /\ j.want = ReadyPayload(t)
  <2>1. Owns(j) /\ Writing(j) /\ Attempt(j) = j.before.reservation
    BY <1>4 DEF Owns, Writing, Attempt
  <2>2. t \in Tokens BY <2>1 DEF BrokerInv, Good, Bounded
  <2>3. spends[t] = 0
    <3>1. spends[t] \in Nat BY <2>2 DEF BrokerInv, BrokerTypeOK
    <3>2. ASSUME NEW n \in Nat, Closed(t, n, disk.live, disk.durable, job) PROVE FALSE
      <4>1. j.before.reservation = n BY <1>4, <3>2 DEF Closed, Fenced
      <4> QED BY <1>4, <2>1, <3>2, <4>1 DEF Closed
    <3>3. spends[t] > 0 => \E n \in Nat : Closed(t, n, disk.live, disk.durable, job)
      BY <2>2 DEF BrokerInv, Good, SentIsClosed
    <3> QED BY <3>1, <3>2, <3>3
  <2> QED BY <1>3, <1>4, <2>3 DEF Succession, BlockedStatuses, ReadyPayload, Payload
<1>5. CASE ~(j.mode = "commit" /\ old = j.before /\ j.want = ReadyPayload(t))
  <2>1. CASE j.mode = "reserve" BY <1>1, <2>1 DEF Swaps, Succession, ReadyPayload, Payload
  <2>2. CASE j.mode = "commit"
    BY <1>1, <1>3, <1>5, <2>2 DEF Swaps, Succession, BlockedStatuses, ReadyPayload, Payload
  <2>3. CASE j.mode = "recover" BY <1>1, <2>3 DEF Swaps, Succession, ReadyPayload, Payload
  <2>4. CASE j.mode = "install"
    BY <1>1, <1>2, <2>4 DEF Swaps, Succession, Statuses, ReadyPayload, Payload
  <2> QED BY <1>1, <2>1, <2>2, <2>3, <2>4 DEF Swaps
<1> QED BY <1>4, <1>5

LEMMA SwapLive ==
    ASSUME BrokerInv, NEW a \in Actors, job[a].pc = "cas",
           NEW o \in CompareAndSwapOutcomes(disk, job[a].generation,
                        CommitId(a, job[a].generation), job[a].want)
    PROVE  Succession(disk.live.payload, o.disk.live.payload)
<1> DEFINE j == job[a]
           r == [generation |-> j.generation + 1, commitId |-> CommitId(a, j.generation),
                 payload |-> j.want]
<1>1. disk \in Disks /\ j \in Jobs BY DEF BrokerInv, BrokerTypeOK
<1>2. j.generation \in Nat /\ j.want \in PayloadType /\ CommitId(a, j.generation) \in CommitIds
  BY <1>1 DEF Jobs, CommitId, CommitIds
<1>3. r.payload = j.want
  OBVIOUS
<1>4. \/ Written(disk, o.disk, disk.live)
      \/ j.generation = disk.live.generation /\ Written(disk, o.disk, r)
  BY <1>1, <1>2, SwapGives
<1> HIDE DEF r
<1>5. CASE o.disk.live = disk.live BY <1>5 DEF Succession
<1>6. CASE j.generation = disk.live.generation /\ o.disk.live = r
  BY <1>3, <1>6, SwapSucceeds
<1> QED BY <1>4, <1>5, <1>6 DEF Written

\* A step that only reads the store, or does not touch it.
LEMMA ReadLive ==
    ASSUME BrokerInv, disk' = disk \/ \E o \in ReadOutcomes(disk) : disk' = o.disk
    PROVE  Succession(disk.live.payload, disk'.live.payload)
<1>1. disk'.live = disk.live BY ReadWorks
<1> QED BY <1>1 DEF Succession

LEMMA NextSucceeds ==
    ASSUME BrokerInv, [Next]_vars
    PROVE  [\/ Succession(disk.live.payload, disk'.live.payload)
            \/ disk'.live = disk.durable]_vars
<1> DEFINE S == Succession(disk.live.payload, disk'.live.payload)
<1>1. ASSUME NEW a \in Actors, ReadBefore(a) \/ Verify(a) \/ ReadLatest(a) PROVE S
  BY <1>1, ReadLive DEF ReadBefore, Verify, ReadLatest, Happens
<1>2. ASSUME NEW a \in Actors, CompareAndSwap(a) PROVE S
  BY <1>2, SwapLive DEF CompareAndSwap, Happens
<1>3. ASSUME NEW a \in Actors, Crash(a) PROVE S
  <2>1. CASE disk' = disk BY <2>1, ReadLive
  <2>2. CASE /\ job[a].pc = "cas"
             /\ \E o \in CompareAndSwapOutcomes(disk, job[a].generation,
                            CommitId(a, job[a].generation), job[a].want) : disk' = o.disk
    BY <2>2, SwapLive
  <2> QED BY <1>3, <2>1, <2>2 DEF Crash
<1>4. ASSUME NEW p \in Procs, AdapterStep(p) PROVE S
  BY <1>4, ReadLive DEF AdapterStep, AdapterFailsBeforeDispatch, AdapterDispatches,
     AdapterReturns
<1>5. ASSUME NEW c \in Callers, NEW kind, ReadCanonical(c, kind) PROVE S
  BY <1>5, ReadLive DEF ReadCanonical, Happens
<1>6. CASE InstallCredential \/ RecoverRefreshReservation
  BY <1>6, ReadLive DEF InstallCredential, RecoverRefreshReservation, Happens
<1>7. CASE RotateEncryption
  <2> DEFINE r == [generation |-> disk.live.generation + 1,
                   commitId   |-> <<"rotation", disk.live.generation>>,
                   payload    |-> disk.live.payload]
  <2>1. PICK o \in CommitOutcomes(disk, r) : disk' = o.disk
    BY <1>7 DEF RotateEncryption, Happens, RotateEncryptionOutcomes
  <2>2. disk \in Disks BY SameDisk
  <2>3. r \in Records /\ r.payload = disk.live.payload BY <2>2 DEF Records, CommitIds, Disks
  <2> HIDE DEF r
  <2>4. disk'.live \in {disk.live, r} BY <2>1, <2>2, <2>3, CommitGives DEF Written
  <2> QED BY <2>3, <2>4 DEF Succession
<1>8. CASE RemoveCandidate
  <2>1. disk'.live = disk.live BY <1>8, SameDisk DEF RemoveCandidate, Disks
  <2> QED BY <2>1 DEF Succession
<1>9. CASE PowerLoss BY <1>9 DEF PowerLoss, PowerLossOutcomes
<1> QED BY <1>1, <1>2, <1>3, <1>4, <1>5, <1>6, <1>7, <1>8, <1>9 DEF Next, JobStep, Reread,
  Call

(* The canonical payload is only replaced by one that may follow it, or    *)
(* taken back by a power loss: a late outcome of another attempt never     *)
(* lands (auth-broker.mjs #commitAfterDispatch, #recoverReservationCommit, *)
(* installCredential).                                                     *)
THEOREM BrokerPayloadsSucceed == Spec => PayloadsSucceed
<1>1. BrokerInv /\ [Next]_vars =>
        [\/ Succession(disk.live.payload, disk'.live.payload)
         \/ disk'.live = disk.durable]_vars
  BY NextSucceeds
<1> QED BY <1>1, BrokerInvariant, PTL DEF Spec, PayloadsSucceed

=============================================================================
