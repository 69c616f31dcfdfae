------------------------ MODULE StorageBackendProofs ------------------------
(***************************************************************************)
(* Proofs about the storage of a session: the checkpoints of its directory *)
(* and the ext4 image backend.                                             *)
(*                                                                         *)
(* The argument for the checkpoints is about epochs.  A writer that has    *)
(* stopped never runs again under its epoch, so what the directory held    *)
(* when it stopped is fixed.  Every call says at each place where it waits *)
(* what it has established (Fits), what is established is kept by every    *)
(* step of any process (Grows), and a row commits what its publication     *)
(* holds.                                                                  *)
(*                                                                         *)
(* The argument for the backend is about programs.  What is left of the    *)
(* program of a driver call tells how far the host has come (OnCourse,     *)
(* Built, Remounts); what is recorded of a storage bounds what a failure   *)
(* or a loss of power may leave (Hosted); and the lock of the image with   *)
(* the one prepared operation of a storage keep the calls Apart.           *)
(***************************************************************************)
EXTENDS Ext4ImageBackend, CheckpointCapture, TLAPS, FiniteSetTheorems, SequenceTheorems

-----------------------------------------------------------------------------
(* The checkpoints: types and the inductive invariant. *)

RowStates == {"absent", "prepared", "starting", "uncertain", "committed", "cancelled"}
Contents == 0 .. MaxWrites \cup {Unknown}
Rows ==
    [state : RowStates, revision : Nat, base : Nat, epoch : 0 .. LastEpoch,
     source : Captures \cup {NoOperation}, handoff : BOOLEAN, attempt : Nat,
     content : Contents]
SessionRows ==
    [revision : Nat, epoch : 0 .. LastEpoch, expired : BOOLEAN,
     active : Operations \cup {NoOperation}]
Publications == [state : {"none", "left", "committed"}, epoch : 0 .. LastEpoch, content : Contents]
Directories == [content : 0 .. MaxWrites, live : 0 .. LastEpoch, still : [1 .. LastEpoch -> Contents]]
Stations ==
    {"idle", "enter", "failed", "session", "prepared", "attempt", "restore", "reserve",
     "claim", "cancel", "cancelling", "prepared-read", "claim-prepared", "verify",
     "verifying", "reserve-restore", "claim-restore", "read-restore", "publish",
     "publishing", "published", "finalizing", "unanswered", "readback", "mark", "done"}
Requests == {"capture", "resume", "reconcile", "restore"}
Visits ==
    [at : Stations, kind : Requests \cup {"none"}, o : Operations \cup {NoOperation},
     epoch : 0 .. LastEpoch, attempt : Nat, base : Nat, expected : Int,
     began : BOOLEAN, content : Contents,
     context : [epoch : 0 .. LastEpoch, expired : BOOLEAN],
     source : Captures \cup {NoOperation}]
WriterStates ==
    {"none", "running", "stopping", "issued", "stop-uncertain", "consuming", "consumed",
     "revoked", "snapshot-uncertain"}
Writers ==
    [state : WriterStates, a : 1 .. LastEpoch \cup {"none"}, established : BOOLEAN,
     revoking : BOOLEAN, fenced : 0 .. LastEpoch]

CaptureTyped ==
    /\ session \in SessionRows /\ operation \in [Operations -> Rows]
    /\ published \in [Operations -> Publications] /\ directory \in Directories
    /\ advisory \in [Operations -> Hosts \cup {Nowhere}]
    /\ inFlight \in [Hosts -> Visits] /\ writer \in [Hosts -> Writers]
    /\ minted \in Nat /\ mishaps \in Nat /\ told \in [Operations -> Contents]

\* The writer of epoch e has stopped for good.
Quiet(e) == e \in 1 .. session.epoch /\ directory.live # e

UnderWay == {"prepared", "starting", "uncertain"}
Published == {"starting", "uncertain", "committed"}

\* What the last writer left is what the directory holds until the next one.
Still ==
    /\ directory.live \in {0, session.epoch}
    /\ directory.live = 0 /\ session.epoch > 0 =>
         directory.still[session.epoch] = directory.content

WriterOk(h) ==
    /\ writer[h].state # "none" => writer[h].a \in 1 .. session.epoch
    /\ writer[h].state = "issued" => Quiet(writer[h].a)

\* The row of an operation and what was published for it.
RowOk(o) ==
    LET row == operation[o]
        p == published[o]
    IN
    /\ row.state = "absent" => row = NoRow
    /\ row.state \in UnderWay => session.active = o /\ row.epoch = session.epoch
    /\ o \in Captures /\ row.state \in UnderWay \cup Published => Quiet(row.epoch)
    /\ o \in Restores /\ row.state # "absent" => row.source \in Captures
    /\ o \in Restores /\ row.state \in Published =>
         operation[row.source].state = "committed"
    /\ p.state = "none" => p = NoPublication
    /\ p.state # "none" =>
         /\ row.state \in Published
         /\ o \in Captures => p.content = directory.still[row.epoch]
         /\ o \in Restores => p.content = operation[row.source].content
    /\ row.state = "committed" => p.state = "committed" /\ row.content = p.content

ToldOk(o) ==
    told[o] # Unknown => operation[o].state = "committed" /\ operation[o].content = told[o]

\* What a call knows where it stands.
Fits(h, m) ==
    m.at # "idle" =>
      /\ m.o \in Operations /\ m.kind \in Requests
      /\ (m.kind = "restore") <=> (m.o \in Restores)
      /\ m.kind = "restore" => m.source \in Captures
      /\ m.kind = "capture" => Quiet(m.epoch) /\ writer[h].state = "consuming"
      /\ m.at \in {"session", "reserve"} => m.kind = "capture"
      /\ m.at = "reserve" => /\ m.base <= session.revision
                             /\ m.base = session.revision => m.epoch = session.epoch
      /\ m.at \in {"restore", "reserve-restore", "claim-restore", "read-restore"} =>
           m.kind = "restore"
      /\ m.at \in {"prepared", "prepared-read", "claim", "claim-prepared"} =>
           m.kind # "restore"
      /\ m.at \in {"publish", "publishing"} => operation[m.o].state \in Published
      /\ m.at \in {"published", "finalizing"} =>
           published[m.o].state = "committed" /\ published[m.o].content = m.content
      /\ m.at = "done" =>
           operation[m.o].state = "committed" /\ operation[m.o].content = m.content

CaptureInv ==
    /\ CaptureTyped /\ Still
    /\ \A h \in Hosts : WriterOk(h) /\ Fits(h, inFlight[h])
    /\ \A o \in Operations : RowOk(o) /\ ToldOk(o)

CaptureSpec == CaptureInit /\ [][CaptureNext]_captureVars

-----------------------------------------------------------------------------
\* What every step keeps: the session goes on, a writer that stopped stays
\* stopped, and rows and publications that are decided stay as they are.
Grows ==
    /\ session.revision <= session'.revision /\ session.epoch <= session'.epoch
    /\ session'.revision = session.revision => session'.epoch = session.epoch
    /\ \A e \in 1 .. session.epoch : directory.live # e =>
         directory'.live # e /\ directory'.still[e] = directory.still[e]
    /\ \A o \in Operations :
         /\ operation[o].state \in Published => operation'[o].state \in Published
         /\ operation[o].state = "committed" => operation'[o] = operation[o]
         /\ published[o].state = "committed" =>
              published'[o].state = "committed" /\ published'[o].content = published[o].content

\* Evidence that is being consumed stays so.
Consumes(h) == writer[h].state = "consuming" => writer'[h].state = "consuming"

LEMMA FitsPersists ==
    ASSUME NEW h \in Hosts, NEW m \in Visits, Fits(h, m), CaptureTyped,
           session' \in SessionRows, Grows, Consumes(h)
    PROVE  Fits(h, m)'
BY DEF Quiet, Grows, CaptureTyped, SessionRows, Fits, Consumes, Visits

LEMMA Carried ==
    ASSUME CaptureInv, CaptureTyped', Still', Grows,
           \A h \in Hosts :
              /\ WriterOk(h)'
              /\ (inFlight'[h] = inFlight[h] /\ Consumes(h)) \/ Fits(h, inFlight[h])',
           \A o \in Operations : RowOk(o)' /\ ToldOk(o)'
    PROVE  CaptureInv'
<1>1. ASSUME NEW h \in Hosts PROVE Fits(h, inFlight[h])'
  <2>1. inFlight[h] \in Visits /\ Fits(h, inFlight[h]) BY DEF CaptureInv, CaptureTyped
  <2>2. CASE inFlight'[h] = inFlight[h] /\ Consumes(h)
    <3>1. PICK m \in Visits : m = inFlight[h] BY <2>1
    <3>2. Fits(h, m) BY <2>1, <3>1 DEF Fits
    <3>3. Fits(h, m)' BY <2>2, <3>2, FitsPersists DEF CaptureInv, CaptureTyped
    <3> QED BY <2>2, <3>1, <3>3 DEF Fits
  <2> QED BY <2>2
<1> QED BY <1>1 DEF CaptureInv

\* Only a call goes on, and with it its lock, its writer's record and what its
\* caller is told: the rows and the publications are as they were.
LEMMA CallGoesOn ==
    ASSUME CaptureInv, NEW h \in Hosts, NEW n \in Visits, Fits(h, n)',
           UNCHANGED <<rows, published, directory>>,
           inFlight' = [inFlight EXCEPT ![h] = n],
           advisory' \in [Operations -> Hosts \cup {Nowhere}],
           writer' \in [Hosts -> Writers], \A g \in Hosts : WriterOk(g)',
           \A g \in Hosts : g # h => writer'[g] = writer[g],
           minted' \in Nat, mishaps' \in Nat, told' \in [Operations -> Contents],
           \A o \in Operations : \/ told'[o] = told[o]
                                 \/ /\ operation[o].state = "committed"
                                    /\ operation[o].content = told'[o]
    PROVE  CaptureInv'
<1>1. CaptureTyped /\ Still /\ inFlight \in [Hosts -> Visits]
  BY DEF CaptureInv, CaptureTyped
<1>2. inFlight' \in [Hosts -> Visits] BY <1>1
<1>3. CaptureTyped' BY <1>1, <1>2 DEF CaptureTyped, rows
<1>4. Still' BY <1>1 DEF Still, rows
<1>5. Grows BY <1>1 DEF Grows, rows, CaptureTyped, SessionRows
<1>6. ASSUME NEW g \in Hosts
      PROVE  (inFlight'[g] = inFlight[g] /\ Consumes(g)) \/ Fits(g, inFlight[g])'
  BY <1>1 DEF Consumes, Fits
<1>7. ASSUME NEW o \in Operations PROVE RowOk(o)' /\ ToldOk(o)'
  BY DEF CaptureInv, RowOk, Quiet, rows, ToldOk
<1> QED BY <1>3, <1>4, <1>5, <1>6, <1>7, Carried

\* The writers' records are as they were.
LEMMA WritersStay ==
    ASSUME CaptureInv, UNCHANGED <<session, directory, writer>>
    PROVE  /\ writer' \in [Hosts -> Writers]
           /\ \A g \in Hosts : WriterOk(g)' /\ writer'[g] = writer[g]
  BY DEF CaptureInv, CaptureTyped, WriterOk, Quiet

LEMMA QuestionKeeps ==
    ASSUME CaptureInv, NEW h \in Hosts, NEW next, NEW failed, Question(h, next, failed),
           next \in Visits /\ Fits(h, next), failed \in Visits /\ Fits(h, failed)
    PROVE  CaptureInv'
<1>1. UNCHANGED <<rows, published, directory, advisory, minted, told, writer>>
  BY DEF Question
<1>2. mishaps' \in Nat BY DEF Question, Mishap, CaptureInv, CaptureTyped
<1>3. /\ writer' \in [Hosts -> Writers]
      /\ \A g \in Hosts : WriterOk(g)' /\ writer'[g] = writer[g]
  BY <1>1, WritersStay DEF rows
<1>4. PICK n \in Visits : Fits(h, n) /\ inFlight' = [inFlight EXCEPT ![h] = n]
  BY DEF Fits, Question
<1>5. /\ advisory' \in [Operations -> Hosts \cup {Nowhere}]
      /\ minted' \in Nat /\ told' \in [Operations -> Contents] /\ told' = told
  BY <1>1 DEF CaptureInv, CaptureTyped
<1>6. Fits(h, n)' BY <1>1, <1>4 DEF Fits, Quiet, rows
<1> QED BY <1>1, <1>2, <1>3, <1>4, <1>5, <1>6, CallGoesOn

\* The row that a transaction writes for operation o may follow the one there is.
Follows(o, row, active) ==
    /\ row \in Rows /\ active \in Operations \cup {NoOperation}
    /\ row.state # "absent" /\ operation[o].state \notin {"committed", "cancelled"}
    /\ session.active \in {o, NoOperation}
    /\ IF row.state \in UnderWay THEN active = o /\ row.epoch = session.epoch
                                 ELSE active = NoOperation
    /\ o \in Captures /\ row.state \in UnderWay \cup Published => Quiet(row.epoch)
    /\ o \in Restores => row.source \in Captures
    /\ o \in Restores /\ row.state \in Published =>
         operation[row.source].state = "committed"
    /\ operation[o].state \in Published =>
         /\ row.state \in Published
         /\ row.epoch = operation[o].epoch /\ row.source = operation[o].source
    /\ row.state = "committed" =>
         published[o].state = "committed" /\ row.content = published[o].content

\* A transaction that is applied.
Writes(o, row, active) ==
    /\ operation' = [operation EXCEPT ![o] = row]
    /\ session' = [session EXCEPT !.revision = @ + 1, !.active = active]
    /\ UNCHANGED <<published, directory, writer>>

LEMMA AppliedRows ==
    ASSUME CaptureInv, NEW o \in Operations, NEW row, NEW active,
           Follows(o, row, active), Writes(o, row, active)
    PROVE  /\ session' \in SessionRows /\ operation' \in [Operations -> Rows]
           /\ Grows /\ Still'
           /\ \A q \in Operations : RowOk(q)' /\ (told' = told => ToldOk(q)')
<1> USE CaptureAssumption
<1>1. /\ session \in SessionRows /\ operation \in [Operations -> Rows]
      /\ RowOk(o) /\ Still
  BY DEF CaptureInv, CaptureTyped
<1>2. /\ session' \in SessionRows /\ session'.revision = session.revision + 1
      /\ session'.epoch = session.epoch /\ session'.active = active
      /\ session.revision \in Nat /\ session.epoch \in Nat
  <2>1. active \in Operations \cup {NoOperation} BY DEF Follows
  <2>2. session' = [session EXCEPT !.revision = @ + 1, !.active = active] BY DEF Writes
  <2>3. /\ session.revision \in Nat /\ session.epoch \in 0 .. LastEpoch
        /\ session.expired \in BOOLEAN
    BY <1>1 DEF SessionRows
  <2>4. session' = [revision |-> session.revision + 1, epoch |-> session.epoch,
                    expired |-> session.expired, active |-> active]
    BY <1>1, <2>2 DEF SessionRows
  <2>5. session.epoch \in Nat BY <2>3
  <2> QED BY <2>1, <2>3, <2>4, <2>5 DEF SessionRows
<1>3. /\ operation' \in [Operations -> Rows]
      /\ operation'[o] = row /\ \A q \in Operations : q # o => operation'[q] = operation[q]
  BY <1>1 DEF Writes, Follows
<1>4. published' = published /\ directory' = directory BY DEF Writes
<1>5. Grows BY <1>2, <1>3, <1>4 DEF Grows, Follows
<1>6. Still' BY <1>1, <1>2, <1>4 DEF Still
<1>7. ASSUME NEW q \in Operations PROVE RowOk(q)' /\ (told' = told => ToldOk(q)')
  BY <1>2, <1>4, <1>3 DEF CaptureInv, Quiet, Follows, RowOk, Operations, UnderWay,
     Published, ToldOk
<1> QED BY <1>2, <1>3, <1>5, <1>6, <1>7

\* The outcomes of a transaction, whatever the receipt is found to say.
Transacts(h, can, o, row, active, next, failed) ==
    /\ UNCHANGED <<published, directory, advisory, minted, told, writer>>
    /\ mishaps' = mishaps \/ Mishap
    /\ \/ UNCHANGED rows /\ inFlight' = [inFlight EXCEPT ![h] = failed]
       \/ /\ can /\ operation' = [operation EXCEPT ![o] = row]
          /\ session' = [session EXCEPT !.revision = @ + 1, !.active = active]
          /\ \/ inFlight' = [inFlight EXCEPT ![h] = next]
             \/ inFlight' = [inFlight EXCEPT ![h] = failed]

LEMMA TransactionKeeps ==
    ASSUME CaptureInv, NEW h \in Hosts, NEW o \in Operations,
           NEW can, NEW row, NEW active, NEW next, NEW failed,
           Transacts(h, can, o, row, active, next, failed),
           can => Follows(o, row, active),
           next \in Visits, failed \in Visits, Fits(h, failed),
           Fits(h, next) \/ (Writes(o, row, active) => Fits(h, next)')
    PROVE  CaptureInv'
<1>1. /\ UNCHANGED <<published, directory, advisory, minted, told, writer>>
      /\ mishaps' = mishaps \/ Mishap
  BY DEF Transacts
<1>2. /\ writer' \in [Hosts -> Writers] /\ mishaps' \in Nat /\ minted' \in Nat
      /\ advisory' \in [Operations -> Hosts \cup {Nowhere}]
      /\ told' \in [Operations -> Contents] /\ told' = told
      /\ inFlight \in [Hosts -> Visits] /\ directory' \in Directories
      /\ published' \in [Operations -> Publications]
  BY <1>1 DEF CaptureInv, CaptureTyped, Mishap
<1>3. CASE UNCHANGED rows /\ inFlight' = [inFlight EXCEPT ![h] = failed]
  BY <1>1, <1>3, WritersStay, <1>2, CallGoesOn DEF rows, Fits, Quiet
<1>4. CASE /\ can /\ operation' = [operation EXCEPT ![o] = row]
           /\ session' = [session EXCEPT !.revision = @ + 1, !.active = active]
           /\ \/ inFlight' = [inFlight EXCEPT ![h] = next]
              \/ inFlight' = [inFlight EXCEPT ![h] = failed]
  <2>1. Writes(o, row, active) /\ Follows(o, row, active) BY <1>1, <1>4 DEF Writes
  <2>2. /\ session' \in SessionRows /\ operation' \in [Operations -> Rows]
        /\ Grows /\ Still'
        /\ \A q \in Operations : RowOk(q)' /\ ToldOk(q)'
    BY <2>1, <1>2, AppliedRows
  <2>3. inFlight' \in [Hosts -> Visits] BY <1>2, <1>4
  <2>4. CaptureTyped' BY <1>2, <2>2, <2>3 DEF CaptureTyped
  <2>5. ASSUME NEW g \in Hosts
        PROVE  /\ WriterOk(g)'
               /\ (inFlight'[g] = inFlight[g] /\ Consumes(g)) \/ Fits(g, inFlight[g])'
    <3>1. session'.epoch = session.epoch BY <1>4 DEF CaptureInv, CaptureTyped, SessionRows
    <3>2. WriterOk(g)' BY <1>1, <3>1 DEF CaptureInv, WriterOk, Quiet
    <3>3. Consumes(g) /\ Consumes(h) /\ (g # h => inFlight'[g] = inFlight[g])
      BY <1>1, <1>2, <1>4 DEF Consumes
    <3>4. g = h => inFlight'[g] = next \/ inFlight'[g] = failed BY <1>2, <1>4
    <3>5. CaptureTyped /\ session' \in SessionRows /\ Grows BY <2>2 DEF CaptureInv
    <3>6. Fits(h, failed)' BY <3>3, <3>5, FitsPersists
    <3>7. Fits(h, next)' BY <2>1, <3>3, <3>5, FitsPersists
    <3>8. g = h /\ inFlight'[g] = next => Fits(g, inFlight[g])' BY <3>7 DEF Fits
    <3>9. g = h /\ inFlight'[g] = failed => Fits(g, inFlight[g])' BY <3>6 DEF Fits
    <3> QED BY <3>2, <3>3, <3>4, <3>8, <3>9
  <2> QED BY <2>2, <2>4, <2>5, Carried
<1> QED BY <1>3, <1>4 DEF Transacts

-----------------------------------------------------------------------------
(* The calls. *)

\* Where a call needs to know nothing.
Free == {"enter", "failed", "mark", "cancel", "cancelling", "unanswered", "readback",
         "verify", "verifying", "attempt"}

LEMMA GoneVisits ==
    ASSUME CaptureInv, NEW h \in Hosts, NEW at \in Stations
    PROVE  /\ inFlight[h] \in Visits /\ Gone(h, at) \in Visits
           /\ Gone(h, at) = [inFlight[h] EXCEPT !.at = at] /\ Gone(h, at).at = at
           /\ Gone(h, at).o = inFlight[h].o /\ Gone(h, at).kind = inFlight[h].kind
           /\ Gone(h, at).source = inFlight[h].source
           /\ Gone(h, at).epoch = inFlight[h].epoch
           /\ Gone(h, at).base = inFlight[h].base
           /\ Gone(h, at).content = inFlight[h].content
BY SMTT(30) DEF CaptureInv, CaptureTyped, Gone, Visits

\* What the call of h is, wherever it goes.
Known(m, h) ==
    /\ m.o = inFlight[h].o /\ m.kind = inFlight[h].kind
    /\ m.source = inFlight[h].source /\ m.epoch = inFlight[h].epoch

LEMMA FreeFits ==
    ASSUME CaptureInv, NEW h \in Hosts, inFlight[h].at # "idle", NEW m,
           Known(m, h), m.at \in Free
    PROVE  Fits(h, m)
BY DEF CaptureInv, Fits, Free, Known

\* Where a call goes when its next step fails.
LEMMA FailureFits ==
    ASSUME CaptureInv, NEW h \in Hosts, inFlight[h].at # "idle"
    PROVE  /\ \A at \in Free : Gone(h, at) \in Visits /\ Fits(h, Gone(h, at))
           /\ AfterFailure(h) \in Visits /\ Fits(h, AfterFailure(h))
BY GoneVisits, FreeFits DEF Free, Stations, Known, AfterFailure

LEMMA IdleFits == NotRunning \in Visits /\ \A h : Fits(h, NotRunning)
<1> USE CaptureAssumption
<1>1. NotRunning.at = "idle" BY DEF NotRunning
<1>2. NotRunning \in Visits BY SMTT(30) DEF NotRunning, NoContext, Visits, Stations, Contents
<1> QED BY <1>1, <1>2 DEF Fits

\* A call is taken up, with the writer's record that it leaves.
LEMMA TakenUp ==
    ASSUME CaptureInv, NEW h \in Hosts, NEW n \in Visits, Fits(h, n),
           inFlight' = [inFlight EXCEPT ![h] = n],
           UNCHANGED <<rows, published, directory, advisory, told, mishaps, writer>>,
           minted' \in Nat
    PROVE  CaptureInv'
BY WritersStay, CallGoesOn DEF rows, CaptureInv, CaptureTyped, Fits, Quiet

LEMMA BeginsKeeps ==
    ASSUME CaptureInv, NEW h \in Hosts, NEW o \in Captures, NEW kind \in {"resume", "reconcile"},
           Begins(h, o, kind)
    PROVE  CaptureInv'
<1> USE CaptureAssumption
<1> DEFINE m == [NotRunning EXCEPT !.at = "enter", !.kind = kind, !.o = o,
                                   !.epoch = operation[o].epoch]
<1>1. operation[o].epoch \in 0 .. LastEpoch
  BY DEF CaptureInv, CaptureTyped, Rows, Operations
<1>2. m \in Visits BY <1>1, IdleFits DEF Visits, Requests, Stations, Operations
<1>3. m.at = "enter" /\ m.o = o /\ m.kind = kind BY DEF NotRunning
<1>4. Fits(h, m) BY <1>3 DEF Fits, Requests, Operations
<1>5. inFlight' = [inFlight EXCEPT ![h] = m] /\ minted' \in Nat
      /\ UNCHANGED <<rows, published, directory, advisory, told, mishaps, writer>>
  BY DEF Begins, CaptureInv, CaptureTyped
<1> HIDE DEF m
<1>6. PICK n \in Visits : n = m BY <1>2
<1>7. Fits(h, n) BY <1>4, <1>6 DEF Fits
<1> QED BY <1>5, <1>6, <1>7, TakenUp

LEMMA RestoreRequested ==
    ASSUME CaptureInv, NEW h \in Hosts, NEW r \in Restores, NEW c \in Captures, NEW storage,
           restoreCheckpoint(h, r, c, storage)
    PROVE  CaptureInv'
<1> USE CaptureAssumption
<1> DEFINE e == IF operation[r] = NoRow THEN session.epoch ELSE operation[r].epoch
           m == [NotRunning EXCEPT !.at = "enter", !.kind = "restore", !.o = r, !.epoch = e,
                                   !.source = c]
<1>1. e \in 0 .. LastEpoch BY DEF CaptureInv, CaptureTyped, Rows, SessionRows, Operations
<1> HIDE DEF e
<1>2. m \in Visits BY <1>1, IdleFits DEF Visits, Requests, Stations, Operations
<1>3. m.at = "enter" /\ m.o = r /\ m.kind = "restore" /\ m.source = c BY DEF NotRunning
<1>4. Fits(h, m) BY <1>3 DEF Fits, Requests, Operations
<1>5. inFlight' = [inFlight EXCEPT ![h] = m] /\ minted' \in Nat
      /\ UNCHANGED <<rows, published, directory, advisory, told, mishaps, writer>>
  BY DEF restoreCheckpoint, CaptureInv, CaptureTyped, e
<1> HIDE DEF m
<1>6. PICK n \in Visits : n = m BY <1>2
<1>7. Fits(h, n) BY <1>4, <1>6 DEF Fits
<1> QED BY <1>5, <1>6, <1>7, TakenUp

\* The evidence is of a writer that stopped, and it is consumed.
LEMMA CaptureRequested ==
    ASSUME CaptureInv, NEW h \in Hosts, NEW o \in Captures, NEW place, NEW class,
           NEW e \in 0 .. LastEpoch, captureCheckpoint(h, o, place, e, class)
    PROVE  CaptureInv'
<1> USE CaptureAssumption
<1> DEFINE m == [NotRunning EXCEPT !.at = "enter", !.kind = "capture", !.o = o, !.epoch = e,
                                   !.attempt = minted + 1]
<1>1. minted \in Nat /\ minted' = minted + 1
  BY DEF captureCheckpoint, Mint, CaptureInv, CaptureTyped
<1>2. m \in Visits
  <2>1. PICK k \in Nat : k = minted + 1 BY <1>1
  <2>2. [NotRunning EXCEPT !.at = "enter", !.kind = "capture", !.o = o, !.epoch = e,
                           !.attempt = k] \in Visits
    BY IdleFits DEF Visits, Requests, Stations, Operations
  <2> QED BY <2>1, <2>2
<1>3. m.at = "enter" /\ m.o = o /\ m.kind = "capture" /\ m.epoch = e BY DEF NotRunning
<1>4. Quiet(e)
  <2>1. writer[h].state = "issued" /\ Epoch[writer[h].a] = e
    BY DEF captureCheckpoint, EvidenceConsumed, consumeCapability, normalizeResolvedWriter,
       At
  <2>2. WriterOk(h) /\ session.epoch \in 0 .. LastEpoch
    BY DEF CaptureInv, CaptureTyped, SessionRows
  <2>3. Quiet(writer[h].a) /\ writer[h].a \in 1 .. LastEpoch
    BY <2>1, <2>2 DEF WriterOk, Quiet
  <2> QED BY <2>1, <2>3
<1>5. /\ inFlight' = [inFlight EXCEPT ![h] = m]
      /\ UNCHANGED <<rows, published, directory, advisory, told, mishaps>>
      /\ writer' = [writer EXCEPT ![h].state = "consuming"] /\ writer[h].state = "issued"
  BY DEF captureCheckpoint, EvidenceConsumed, consumeCapability
<1>6. writer' \in [Hosts -> Writers] /\ \A g \in Hosts : WriterOk(g)'
  <2>1. writer \in [Hosts -> Writers] BY DEF CaptureInv, CaptureTyped
  <2>2. "consuming" \in WriterStates /\ writer[h] \in Writers BY <2>1 DEF WriterStates
  <2>3. [writer[h] EXCEPT !.state = "consuming"] \in Writers BY <2>2 DEF Writers
  <2>4. writer' \in [Hosts -> Writers] BY <2>1, <2>3, <1>5
  <2>5. ASSUME NEW g \in Hosts PROVE WriterOk(g)'
    BY <2>1, <1>5, <2>2 DEF CaptureInv, Writers, WriterOk, Quiet, rows
  <2> QED BY <2>4, <2>5
<1>7. /\ advisory' \in [Operations -> Hosts \cup {Nowhere}]
      /\ mishaps' \in Nat /\ minted' \in Nat /\ told' \in [Operations -> Contents]
      /\ told' = told
  BY <1>1, <1>5 DEF CaptureInv, CaptureTyped
<1> HIDE DEF m
<1>8. PICK n \in Visits : n = m BY <1>2
<1>9. Fits(h, n)'
  BY <1>3, <1>8, <1>5, <1>6, <1>4 DEF CaptureInv, CaptureTyped, Writers, Quiet, rows, Fits,
     Requests, Operations
<1>10. \A g \in Hosts : g # h => writer'[g] = writer[g] BY <1>5 DEF CaptureInv, CaptureTyped
<1> QED BY <1>5, <1>6, <1>7, <1>8, <1>9, <1>10, CallGoesOn

LEMMA GuardEntered ==
    ASSUME CaptureInv, NEW h \in Hosts, invokeOperationGuard(h)
    PROVE  CaptureInv'
<1> DEFINE m == inFlight[h]
           first == CASE m.kind = "capture" -> "session"
                      [] m.kind = "resume" -> "prepared"
                      [] m.kind = "reconcile" -> "attempt"
                      [] m.kind = "restore" -> "restore"
<1>1. m \in Visits /\ Fits(h, m) /\ m.at = "enter"
  BY DEF CaptureInv, CaptureTyped, invokeOperationGuard, Running
<1>2. m.kind \in Requests /\ m.o \in Operations BY <1>1 DEF Fits
<1>3. /\ first \in {"session", "prepared", "attempt", "restore"}
      /\ first = "session" => m.kind = "capture"
      /\ first = "restore" => m.kind = "restore"
      /\ first = "prepared" => m.kind # "restore"
  BY <1>2 DEF Requests
<1>4. Gone(h, first) \in Visits /\ Fits(h, Gone(h, first))
  <2>1. first \in Stations BY <1>3 DEF Stations
  <2> HIDE DEF first
  <2>2. /\ Gone(h, first) \in Visits
        /\ Gone(h, first).at = first
        /\ Gone(h, first).o = m.o /\ Gone(h, first).kind = m.kind
        /\ Gone(h, first).source = m.source /\ Gone(h, first).epoch = m.epoch
    BY <2>1, GoneVisits
  <2> QED BY <2>2, <1>1, <1>3 DEF Fits
<1>5. /\ \/ inFlight' = [inFlight EXCEPT ![h] = Gone(h, first)]
         \/ inFlight' = [inFlight EXCEPT ![h] = Gone(h, "failed")]
      /\ UNCHANGED <<rows, published, directory, minted, told, writer>>
  BY DEF invokeOperationGuard, Gone, Onward
<1>6. /\ advisory' \in [Operations -> Hosts \cup {Nowhere}] /\ mishaps' \in Nat
      /\ minted' \in Nat /\ told' \in [Operations -> Contents] /\ told' = told
  BY <1>2, <1>5 DEF invokeOperationGuard, Mishap, CaptureInv, CaptureTyped
<1>7. /\ writer' \in [Hosts -> Writers]
      /\ \A g \in Hosts : WriterOk(g)' /\ writer'[g] = writer[g]
  BY <1>5, WritersStay DEF rows
<1>8. Gone(h, "failed") \in Visits /\ Fits(h, Gone(h, "failed"))
  BY SMTT(30), <1>1, FailureFits DEF Free
<1>9. PICK n \in Visits : Fits(h, n) /\ inFlight' = [inFlight EXCEPT ![h] = n]
  BY <1>4, <1>8, <1>5 DEF Fits
<1>10. Fits(h, n)' BY <1>5, <1>9 DEF Fits, Quiet, rows
<1> QED BY <1>5, <1>6, <1>7, <1>9, <1>10, CallGoesOn

\* A question: what the call goes on with is right if the answer is.
LEMMA Asked ==
    ASSUME CaptureInv, NEW h \in Hosts, inFlight[h].at # "idle", NEW next, NEW at \in Free,
           Question(h, next, Gone(h, at)), next \in Visits, Fits(h, next)
    PROVE  CaptureInv'
<1>1. Gone(h, at) \in Visits /\ Fits(h, Gone(h, at)) BY FailureFits
<1> DEFINE f == Gone(h, at)
<1>2. f \in Visits /\ Fits(h, f) /\ Question(h, next, f) BY <1>1
<1> HIDE DEF f
<1> QED BY <1>2, QuestionKeeps

LEMMA SessionRead ==
    ASSUME CaptureInv, NEW h \in Hosts, readSession(h)
    PROVE  CaptureInv'
<1> DEFINE m == inFlight[h]
           n == [Gone(h, "reserve") EXCEPT !.base = session.revision]
           next == IF checkpointCaptureAdmission(h) THEN n ELSE Gone(h, "failed")
<1>1. m \in Visits /\ Fits(h, m) /\ m.at = "session" /\ session.revision \in Nat
  BY DEF CaptureInv, CaptureTyped, SessionRows, readSession, Running
<1>2. "failed" \in Free /\ "reserve" \in Stations BY DEF Free, Stations
<1>3. Gone(h, "failed") \in Visits /\ Fits(h, Gone(h, "failed")) BY <1>1, <1>2, FailureFits
<1>4. ASSUME session.epoch = m.epoch PROVE n \in Visits /\ Fits(h, n)
  <2>1. Gone(h, "reserve") = [m EXCEPT !.at = "reserve"] /\ Gone(h, "reserve") \in Visits
    BY <1>2, GoneVisits
  <2>2. n \in Visits BY <2>1, <1>1 DEF Visits
  <2>3. /\ n.at = "reserve" /\ n.o = m.o /\ n.kind = m.kind /\ n.epoch = m.epoch
        /\ n.base = session.revision /\ n.source = m.source
    BY <2>1, <1>1 DEF Visits
  <2>4. n.base <= session.revision BY <2>3, <1>1
  <2> HIDE DEF n
  <2> QED BY <2>2, <2>3, <2>4, <1>1, <1>4 DEF Fits
<1>5. next \in Visits /\ Fits(h, next) BY <1>3, <1>4 DEF checkpointCaptureAdmission
<1>6. Question(h, next, Gone(h, "failed")) BY DEF readSession
<1> HIDE DEF next
<1> QED BY <1>1, <1>2, <1>5, <1>6, Asked

LEMMA PreparedReconciled ==
    ASSUME CaptureInv, NEW h \in Hosts, reconcilePrepared(h)
    PROVE  CaptureInv'
<1> DEFINE next == IF operation[inFlight[h].o].state = "prepared"
                      /\ operation[inFlight[h].o].attempt = inFlight[h].attempt
                   THEN Gone(h, "cancelling") ELSE Gone(h, "failed")
<1>1. inFlight[h].at # "idle" /\ Question(h, next, Gone(h, "failed"))
  BY DEF reconcilePrepared, Running
<1>2. "failed" \in Free /\ "cancelling" \in Free BY DEF Free
<1>3. next \in Visits /\ Fits(h, next) BY <1>1, <1>2, FailureFits
<1> HIDE DEF next
<1> QED BY <1>1, <1>2, <1>3, Asked

LEMMA PreparedRead ==
    ASSUME CaptureInv, NEW h \in Hosts, readPreparedAttempt(h)
    PROVE  CaptureInv'
<1> DEFINE m == inFlight[h]
           row == operation[m.o]
           n == [Gone(h, "prepared-read") EXCEPT !.attempt = row.attempt, !.base = row.base]
           next == IF /\ readCheckpointCaptureAttempt(row)
                      /\ normalizePreparedCaptureReadReceipt(m, row, session)
                   THEN n ELSE Gone(h, "failed")
<1>1. m \in Visits /\ Fits(h, m) /\ m.at = "prepared" /\ m.o \in Operations
  BY DEF CaptureInv, CaptureTyped, readPreparedAttempt, Running, Fits
<1>2. "failed" \in Free /\ "prepared-read" \in Stations BY DEF Free, Stations
<1>3. Gone(h, "failed") \in Visits /\ Fits(h, Gone(h, "failed")) BY <1>1, <1>2, FailureFits
<1>4. n \in Visits /\ Fits(h, n)
  <2>1. Gone(h, "prepared-read") = [m EXCEPT !.at = "prepared-read"]
        /\ Gone(h, "prepared-read") \in Visits
    BY <1>2, GoneVisits
  <2>2. row \in Rows BY <1>1 DEF CaptureInv, CaptureTyped
  <2>3. n \in Visits BY <2>1, <2>2 DEF Visits, Rows
  <2>4. n.at = "prepared-read" /\ n.o = m.o /\ n.kind = m.kind /\ n.epoch = m.epoch
        /\ n.source = m.source
    BY <2>1, <1>1 DEF Visits
  <2> HIDE DEF n
  <2> QED BY <2>3, <2>4, <1>1 DEF Fits
<1>5. Question(h, next, Gone(h, "failed")) BY DEF readPreparedAttempt
<1>6. next \in Visits /\ Fits(h, next) BY <1>3, <1>4
<1> HIDE DEF next
<1> QED BY <1>1, <1>2, <1>5, <1>6, Asked

\* What a reconciliation, a verification and a readback go on with is the call
\* with other numbers: it knows nothing new.
LEMMA Renumbered ==
    ASSUME CaptureInv, NEW h \in Hosts, inFlight[h].at # "idle", NEW at \in Free,
           NEW attempt \in Nat, NEW base \in Nat, NEW expected \in Int, NEW began \in BOOLEAN,
           NEW n,
           n = [Gone(h, at) EXCEPT !.attempt = attempt, !.base = base, !.expected = expected,
                                   !.began = began]
    PROVE  n \in Visits /\ Fits(h, n)
<1>1. at \in Stations BY DEF Free, Stations
<1>2. /\ Gone(h, at) \in Visits
      /\ Gone(h, at) = [inFlight[h] EXCEPT !.at = at] /\ inFlight[h] \in Visits
  BY <1>1, GoneVisits
<1>3. n \in Visits /\ n.at = at BY <1>1, <1>2 DEF Visits
<1>4. Known(n, h) BY <1>2 DEF Visits, Known
<1> QED BY <1>3, <1>4, FreeFits

LEMMA AttemptRead ==
    ASSUME CaptureInv, NEW h \in Hosts, readAttempt(h)
    PROVE  CaptureInv'
<1> DEFINE m == inFlight[h]
           row == operation[m.o]
           committed == row.state = "committed"
           n == [Gone(h, "verify") EXCEPT
                   !.attempt = row.attempt, !.base = row.base,
                   !.expected = IF committed THEN row.revision - 1 ELSE row.revision,
                   !.began = row.state = "starting"]
           next == IF /\ readCheckpointCaptureAttempt(row)
                      /\ normalizeReconciliationReadReceipt(m, row, session)
                   THEN n ELSE Gone(h, "failed")
<1>1. m.at # "idle" /\ m.o \in Operations BY DEF CaptureInv, readAttempt, Running, Fits
<1>2. "failed" \in Free /\ "verify" \in Free BY DEF Free
<1>3. Gone(h, "failed") \in Visits /\ Fits(h, Gone(h, "failed")) BY <1>1, <1>2, FailureFits
<1>4. /\ row.attempt \in Nat /\ row.base \in Nat
      /\ (IF committed THEN row.revision - 1 ELSE row.revision) \in Int
      /\ (row.state = "starting") \in BOOLEAN
  BY <1>1 DEF CaptureInv, CaptureTyped, Rows
<1>5. n \in Visits /\ Fits(h, n)
  <2>1. PICK k \in Int : k = IF committed THEN row.revision - 1 ELSE row.revision BY <1>4
  <2>2. PICK b \in BOOLEAN : b = (row.state = "starting")
    OBVIOUS
  <2>3. n = [Gone(h, "verify") EXCEPT !.attempt = row.attempt, !.base = row.base,
                                      !.expected = k, !.began = b]
    BY <2>1, <2>2
  <2>4. PICK a \in Nat, c \in Nat : a = row.attempt /\ c = row.base BY <1>4
  <2>5. PICK q : q = n
    OBVIOUS
  <2> HIDE DEF n
  <2>6. q = [Gone(h, "verify") EXCEPT !.attempt = a, !.base = c, !.expected = k, !.began = b]
    BY <2>3, <2>4, <2>5
  <2>7. q \in Visits /\ Fits(h, q) BY <2>6, <1>1, <1>2, Renumbered, Zenon
  <2> QED BY <2>5, <2>7 DEF Fits
<1>6. Question(h, next, Gone(h, "failed")) BY DEF readAttempt
<1>7. next \in Visits /\ Fits(h, next) BY <1>3, <1>5
<1> HIDE DEF next
<1> QED BY <1>1, <1>2, <1>6, <1>7, Asked

-----------------------------------------------------------------------------
(* The transactions.  A row moves on; what its call knows goes with it. *)

LEMMA CaptureReserved ==
    ASSUME CaptureInv, NEW h \in Hosts, reserveCapture(h)
    PROVE  CaptureInv'
<1> USE CaptureAssumption
<1> DEFINE m == inFlight[h]
           can == operation[m.o] = NoRow /\ session.active = NoOperation
                  /\ session.revision = m.base
           new == [NoRow EXCEPT !.state = "prepared", !.epoch = m.epoch,
                                !.base = m.base, !.attempt = m.attempt]
<1>1. m \in Visits /\ Fits(h, m) /\ m.at = "reserve" /\ m.o \in Operations
  BY DEF CaptureInv, CaptureTyped, reserveCapture, Running, Fits
<1>2. "cancel" \in Free /\ "claim" \in Stations BY DEF Free, Stations
<1>3. PICK o \in Operations : o = m.o BY <1>1
<1>4. PICK row : row = new
  OBVIOUS
<1>5. can => Follows(o, row, o)
  <2>1. row = [state |-> "prepared", revision |-> 0, base |-> m.base, epoch |-> m.epoch,
               source |-> NoOperation, handoff |-> FALSE, attempt |-> m.attempt,
               content |-> Unknown]
    BY <1>4 DEF NoRow
  <2>2. m.base \in Nat /\ m.attempt \in Nat /\ m.epoch \in 0 .. LastEpoch BY <1>1 DEF Visits
  <2>3. "prepared" \in RowStates /\ Unknown \in Contents BY DEF RowStates, Contents
  <2>4. row \in Rows /\ row.state = "prepared" /\ row.epoch = m.epoch
    BY <2>1, <2>2, <2>3 DEF Rows
  <2>5. o \in Captures /\ Quiet(m.epoch) /\ o \notin Restores
    BY <1>1, <1>3 DEF Fits, Operations
  <2>6. can => m.epoch = session.epoch /\ operation[o].state = "absent"
    BY <1>1, <1>3 DEF Fits, NoRow
  <2> HIDE DEF new
  <2> QED BY <2>4, <2>5, <2>6, <1>3 DEF Follows, UnderWay, Published
<1>6. PICK next \in Visits : next = Gone(h, "claim") /\ Fits(h, next)
  BY <1>2, GoneVisits, <1>1 DEF Fits
<1>7. PICK f \in Visits : f = Gone(h, "cancel") /\ Fits(h, f)
  BY <1>1, <1>2, FailureFits DEF Fits
<1>8. Transacts(h, can, o, row, o, next, f)
  BY <1>3, <1>4, <1>6, <1>7 DEF reserveCapture, Transaction, Transacts
<1>9. PICK able : able = can
  OBVIOUS
<1>10. Transacts(h, able, o, row, o, next, f) /\ (able => Follows(o, row, o))
  BY <1>5, <1>8, <1>9 DEF Transacts
<1> QED BY <1>6, <1>7, <1>10, TransactionKeeps

\* A row that moves on keeps what it is a row of.
Moved(o, state) == [operation[o] EXCEPT !.state = state, !.revision = @ + 1]

LEMMA RowMoves ==
    ASSUME CaptureInv, NEW o \in Operations, NEW state \in RowStates
    PROVE  /\ Moved(o, state) \in Rows /\ Moved(o, state).state = state
           /\ Moved(o, state).epoch = operation[o].epoch
           /\ Moved(o, state).source = operation[o].source
<1>1. operation[o] \in Rows BY DEF CaptureInv, CaptureTyped
<1>2. operation[o].revision + 1 \in Nat BY <1>1 DEF Rows
<1> QED BY <1>1, <1>2 DEF Rows, Moved

\* The claim: the row is dispatched, and the call may publish.
LEMMA Claimed ==
    ASSUME CaptureInv, NEW h \in Hosts, inFlight[h].at \in {"claim", "claim-prepared"},
           NEW at \in Free, Claim(h, at)
    PROVE  CaptureInv'
<1> USE CaptureAssumption
<1> DEFINE m == inFlight[h]
           n == [Gone(h, "publish") EXCEPT !.began = TRUE, !.expected = 1, !.context = Context]
<1>1. m \in Visits /\ Fits(h, m) /\ m.o \in Operations /\ m.kind # "restore" /\ m.at # "idle"
  BY DEF CaptureInv, CaptureTyped, Fits
<1>2. PICK o \in Operations : o = m.o BY <1>1
<1>3. PICK row : row = Moved(o, "starting")
  OBVIOUS
<1>4. CanClaim(h) => Follows(o, row, o)
  <2>1. "starting" \in RowStates BY DEF RowStates
  <2>2. /\ row \in Rows /\ row.state = "starting"
        /\ row.epoch = operation[o].epoch /\ row.source = operation[o].source
    BY <2>1, <1>2, <1>3, RowMoves
  <2>3. RowOk(o) /\ o \in Captures /\ o \notin Restores
    BY <1>1, <1>2 DEF CaptureInv, Fits, Operations
  <2>4. CanClaim(h) => operation[o].state = "prepared" BY <1>2 DEF CanClaim
  <2> QED BY <2>2, <2>3, <2>4 DEF Follows, RowOk, UnderWay, Published
<1>5. PICK next \in Visits : /\ next = n
                             /\ next.at = "publish" /\ next.o = m.o /\ next.kind = m.kind
                             /\ next.source = m.source /\ next.epoch = m.epoch
  <2>1. "publish" \in Stations BY DEF Stations
  <2>2. Gone(h, "publish") \in Visits /\ Gone(h, "publish") = [m EXCEPT !.at = "publish"]
    BY <2>1, GoneVisits
  <2>3. Context \in [epoch : 0 .. LastEpoch, expired : BOOLEAN]
    BY DEF Context, CaptureInv, CaptureTyped, SessionRows
  <2>4. n \in Visits
    <3>1. PICK g \in Visits, c \in [epoch : 0 .. LastEpoch, expired : BOOLEAN] :
            g = Gone(h, "publish") /\ c = Context
      BY <2>2, <2>3
    <3>2. PICK k \in Int : k = 1
      OBVIOUS
    <3>3. PICK b \in BOOLEAN : b = TRUE
      OBVIOUS
    <3>4. [g EXCEPT !.began = b, !.expected = k, !.context = c] \in Visits BY DEF Visits
    <3> QED BY <3>1, <3>2, <3>4, <3>3
  <2> QED BY <2>2, <2>4, <1>1 DEF Visits
<1>6. Writes(o, row, o) => Fits(h, next)'
  <2>1. operation \in [Operations -> Rows] /\ operation[o] \in Rows
        /\ session \in SessionRows
    BY DEF CaptureInv, CaptureTyped
  <2>2. row.state = "starting" BY <1>2, <1>3, RowMoves DEF RowStates
  <2>3. Writes(o, row, o) => operation'[o].state = "starting" BY <2>1, <2>2 DEF Writes
  <2>4. Writes(o, row, o) => /\ session'.epoch = session.epoch
                             /\ directory' = directory /\ writer' = writer
    BY <2>1 DEF Writes, SessionRows
  <2>5. Writes(o, row, o) => (next.kind = "capture" => /\ Quiet(next.epoch)'
                                                      /\ writer'[h].state = "consuming")
    BY <2>4, <1>1, <1>5 DEF Fits, Quiet
  <2> HIDE DEF n
  <2> QED BY <2>3, <2>5, <1>1, <1>2, <1>5 DEF Fits, Published
<1>7. PICK f \in Visits : f = Gone(h, at) /\ Fits(h, f) BY <1>1, FailureFits DEF Fits
<1>8. Transacts(h, CanClaim(h), o, row, o, next, f)
  BY <1>2, <1>3, <1>5, <1>7 DEF Claim, Transaction, Transacts, Moved
<1>9. PICK able : able = CanClaim(h)
  OBVIOUS
<1>10. Transacts(h, able, o, row, o, next, f) /\ (able => Follows(o, row, o))
  BY <1>4, <1>8, <1>9 DEF Transacts
<1> QED BY <1>6, <1>7, <1>10, TransactionKeeps

\* A transaction that only moves the row of the call, and whose call has failed
\* whether it was applied or not.
LEMMA RowAlone ==
    ASSUME CaptureInv, NEW h \in Hosts, inFlight[h].at # "idle",
           NEW can, NEW state \in RowStates, NEW active,
           Transacts(h, can, inFlight[h].o, Moved(inFlight[h].o, state), active,
                     Gone(h, "failed"), Gone(h, "failed")),
           \A row : /\ row \in Rows /\ row.state = state
                    /\ row.epoch = operation[inFlight[h].o].epoch
                    /\ row.source = operation[inFlight[h].o].source
                    /\ can
                    => Follows(inFlight[h].o, row, active)
    PROVE  CaptureInv'
<1>1. inFlight[h].o \in Operations BY DEF CaptureInv, Fits
<1>2. PICK o \in Operations : o = inFlight[h].o BY <1>1
<1>3. PICK row : row = Moved(o, state)
  OBVIOUS
<1>4. can => Follows(o, row, active) BY <1>2, <1>3, RowMoves
<1>5. PICK f \in Visits : f = Gone(h, "failed") /\ Fits(h, f) BY FailureFits DEF Free, Fits
<1>6. Transacts(h, can, o, row, active, f, f) BY <1>2, <1>3, <1>5
<1> QED BY <1>4, <1>5, <1>6, TransactionKeeps

LEMMA PreparedCancelled ==
    ASSUME CaptureInv, NEW h \in Hosts, cancelPrepared(h)
    PROVE  CaptureInv'
<1> USE CaptureAssumption
<1> DEFINE can == LET row == operation[inFlight[h].o]
                  IN  row.state = "prepared" /\ row.attempt = inFlight[h].attempt
                      /\ ~ row.handoff
<1>1. inFlight[h].at # "idle" /\ inFlight[h].o \in Operations
  BY DEF cancelPrepared, Running, CaptureInv, Fits
<1>2. Transacts(h, can, inFlight[h].o,
                Moved(inFlight[h].o, "cancelled"),
                NoOperation, Gone(h, "failed"), Gone(h, "failed"))
  BY DEF cancelPrepared, Transaction, Transacts, Moved
<1>3. PICK o \in Operations : o = inFlight[h].o BY <1>1
<1>4. ASSUME NEW row \in Rows, row.state = "cancelled",
             row.epoch = operation[o].epoch,
             row.source = operation[o].source, can
      PROVE  Follows(o, row, NoOperation)
  BY <1>3, <1>4 DEF CaptureInv, Follows, RowOk, UnderWay, Published
<1>5. "cancelled" \in RowStates BY DEF RowStates
<1>6. PICK able : able = can
  OBVIOUS
<1>7. Transacts(h, able, inFlight[h].o,
                Moved(inFlight[h].o, "cancelled"),
                NoOperation, Gone(h, "failed"), Gone(h, "failed"))
  BY <1>2, <1>6 DEF Transacts
<1> HIDE DEF can
<1> QED BY <1>1, <1>3, <1>4, <1>5, <1>6, <1>7, RowAlone

LEMMA MarkedUncertain ==
    ASSUME CaptureInv, NEW h \in Hosts, markUncertain(h)
    PROVE  CaptureInv'
<1> USE CaptureAssumption
<1> DEFINE can == operation[inFlight[h].o].state = "starting"
<1>1. inFlight[h].at # "idle" /\ inFlight[h].o \in Operations
  BY DEF markUncertain, Running, CaptureInv, Fits
<1>2. PICK o \in Operations : o = inFlight[h].o BY <1>1
<1>3. Transacts(h, can, inFlight[h].o,
                Moved(inFlight[h].o, "uncertain"),
                o, Gone(h, "failed"), Gone(h, "failed"))
  BY <1>2 DEF markUncertain, Transaction, Transacts, Moved
<1>4. ASSUME NEW row \in Rows, row.state = "uncertain",
             row.epoch = operation[o].epoch,
             row.source = operation[o].source, can
      PROVE  Follows(o, row, o)
  BY <1>2, <1>4 DEF CaptureInv, Follows, RowOk, UnderWay, Published
<1>5. "uncertain" \in RowStates BY DEF RowStates
<1>6. PICK able : able = can
  OBVIOUS
<1>7. Transacts(h, able, inFlight[h].o,
                Moved(inFlight[h].o, "uncertain"),
                o, Gone(h, "failed"), Gone(h, "failed"))
  BY <1>3, <1>6 DEF Transacts
<1> HIDE DEF can
<1> QED BY <1>1, <1>2, <1>4, <1>5, <1>6, <1>7, RowAlone

LEMMA RestoreReserved ==
    ASSUME CaptureInv, NEW h \in Hosts, reserveRestore(h)
    PROVE  CaptureInv'
<1> USE CaptureAssumption
<1> DEFINE m == inFlight[h]
           can == operation[m.o] = NoRow /\ session.active = NoOperation
                  /\ session.revision = m.base /\ session.epoch = m.epoch
           new == [NoRow EXCEPT !.state = "prepared", !.base = m.base,
                                !.epoch = m.epoch, !.source = m.source]
<1>1. m \in Visits /\ Fits(h, m) /\ m.at = "reserve-restore" /\ m.o \in Operations
  BY DEF CaptureInv, CaptureTyped, reserveRestore, Running, Fits
<1>2. "failed" \in Free /\ "claim-restore" \in Stations BY DEF Free, Stations
<1>3. PICK o \in Operations : o = m.o BY <1>1
<1>4. PICK row : row = new
  OBVIOUS
<1>5. can => Follows(o, row, o)
  <2>1. row = [state |-> "prepared", revision |-> 0, base |-> m.base, epoch |-> m.epoch,
               source |-> m.source, handoff |-> FALSE, attempt |-> 0, content |-> Unknown]
    BY <1>4 DEF NoRow
  <2>2. /\ m.base \in Nat /\ m.epoch \in 0 .. LastEpoch
        /\ m.source \in Captures \cup {NoOperation}
    BY <1>1 DEF Visits
  <2>3. "prepared" \in RowStates /\ Unknown \in Contents BY DEF RowStates, Contents
  <2>4. row \in Rows /\ row.state = "prepared" /\ row.epoch = m.epoch
        /\ row.source = m.source
    BY <2>1, <2>2, <2>3 DEF Rows
  <2>5. o \in Restores /\ m.source \in Captures /\ o \notin Captures
    BY <1>1, <1>3 DEF Fits, Operations
  <2>6. can => m.epoch = session.epoch /\ operation[o].state = "absent"
    BY <1>1, <1>3 DEF NoRow
  <2> HIDE DEF new
  <2> QED BY <2>4, <2>5, <2>6, <1>3 DEF Follows, UnderWay, Published
<1>6. PICK next \in Visits : next = Gone(h, "claim-restore") /\ Fits(h, next)
  BY <1>2, GoneVisits, <1>1 DEF Fits
<1>7. PICK f \in Visits : f = Gone(h, "failed") /\ Fits(h, f)
  BY <1>1, <1>2, FailureFits DEF Fits
<1>8. Transacts(h, can, o, row, o, next, f)
  BY <1>3, <1>4, <1>6, <1>7 DEF reserveRestore, Transaction, Transacts
<1>9. PICK able : able = can
  OBVIOUS
<1>10. Transacts(h, able, o, row, o, next, f) /\ (able => Follows(o, row, o))
  BY <1>5, <1>8, <1>9 DEF Transacts
<1> QED BY <1>6, <1>7, <1>10, TransactionKeeps

\* A restore is dispatched once its checkpoint is in the catalogue.
LEMMA RestoreClaimed ==
    ASSUME CaptureInv, NEW h \in Hosts, claimRestore(h)
    PROVE  CaptureInv'
<1> USE CaptureAssumption
<1> DEFINE m == inFlight[h]
           can == LET row == operation[m.o]
                  IN  /\ row.state = "prepared" /\ row.epoch = session.epoch
                      /\ operation[row.source].state = "committed"
                      /\ operation[row.source].epoch < session.epoch
                      /\ ~ session.expired
           n == [Gone(h, "publish") EXCEPT !.expected = 1, !.context.epoch = session.epoch]
<1>1. m \in Visits /\ Fits(h, m) /\ m.o \in Operations /\ m.kind = "restore"
      /\ m.at = "claim-restore"
  BY DEF CaptureInv, CaptureTyped, Fits, claimRestore, Running
<1>2. PICK o \in Operations : o = m.o BY <1>1
<1>3. PICK row : row = Moved(o, "starting")
  OBVIOUS
<1>4. can => Follows(o, row, o)
  <2>1. "starting" \in RowStates BY DEF RowStates
  <2>2. /\ row \in Rows /\ row.state = "starting"
        /\ row.epoch = operation[o].epoch /\ row.source = operation[o].source
    BY <2>1, <1>2, <1>3, RowMoves
  <2>3. RowOk(o) /\ o \in Restores /\ o \notin Captures
    BY <1>1, <1>2 DEF CaptureInv, Fits, Operations
  <2>4. can => /\ operation[o].state = "prepared"
               /\ operation[operation[o].source].state = "committed"
    BY <1>2
  <2> HIDE DEF can
  <2> QED BY <2>2, <2>3, <2>4 DEF Follows, RowOk, UnderWay, Published
<1>5. PICK next \in Visits : /\ next = n
                             /\ next.at = "publish" /\ next.o = m.o /\ next.kind = m.kind
                             /\ next.source = m.source /\ next.epoch = m.epoch
  <2>1. "publish" \in Stations BY DEF Stations
  <2>2. Gone(h, "publish") \in Visits /\ Gone(h, "publish") = [m EXCEPT !.at = "publish"]
    BY <2>1, GoneVisits
  <2>3. session.epoch \in 0 .. LastEpoch BY DEF CaptureInv, CaptureTyped, SessionRows
  <2>4. n \in Visits
    <3>1. PICK g \in Visits, e \in 0 .. LastEpoch :
            g = Gone(h, "publish") /\ e = session.epoch
      BY <2>2, <2>3
    <3>2. PICK k \in Int : k = 1
      OBVIOUS
    <3>3. [g EXCEPT !.expected = k, !.context.epoch = e] \in Visits BY DEF Visits
    <3> QED BY <3>1, <3>2, <3>3
  <2> QED BY <2>2, <2>4, <1>1 DEF Visits
<1>6. Writes(o, row, o) => Fits(h, next)'
  <2>1. operation \in [Operations -> Rows] BY DEF CaptureInv, CaptureTyped
  <2>2. row.state = "starting" BY <1>2, <1>3, RowMoves DEF RowStates
  <2>3. Writes(o, row, o) => operation'[o].state = "starting" BY <2>1, <2>2 DEF Writes
  <2> HIDE DEF n
  <2> QED BY <2>3, <1>1, <1>2, <1>5 DEF Fits, Published
<1>7. PICK f \in Visits : f = Gone(h, "read-restore") /\ Fits(h, f)
  BY SMTT(30), GoneVisits, <1>1 DEF Stations, Fits
<1>8. Transacts(h, can, o, row, o, next, f)
  BY <1>2, <1>3, <1>5, <1>7, SMTT(30) DEF claimRestore, Transaction, Transacts, Moved
<1>9. PICK able : able = can BY Zenon
<1>10. Transacts(h, able, o, row, o, next, f) /\ (able => Follows(o, row, o))
  BY <1>4, <1>8, <1>9, Zenon DEF Transacts
<1> QED BY SMTT(30), <1>6, <1>7, <1>10, TransactionKeeps

LEMMA RestoreRead ==
    ASSUME CaptureInv, NEW h \in Hosts, readRestore(h)
    PROVE  CaptureInv'
<1> DEFINE m == inFlight[h]
           row == operation[m.o]
           At1(at, b) == [Gone(h, at) EXCEPT !.base = b]
           next == CASE row = NoRow -> At1("reserve-restore", session.revision)
                     [] row.state = "prepared" -> At1("claim-restore", row.base)
                     [] OTHER -> Gone(h, "read-restore")
<1>1. m \in Visits /\ Fits(h, m) /\ m.at = "restore" /\ m.o \in Operations /\ m.kind = "restore"
  BY DEF CaptureInv, CaptureTyped, readRestore, Running, Fits
<1>2. session.revision \in Nat /\ row.base \in Nat
  BY <1>1 DEF CaptureInv, CaptureTyped, Rows, SessionRows
<1>3. ASSUME NEW at \in {"reserve-restore", "claim-restore", "read-restore"}
      PROVE  /\ Gone(h, at) \in Visits /\ Fits(h, Gone(h, at))
             /\ \A b \in Nat : At1(at, b) \in Visits /\ Fits(h, At1(at, b))
  <2>1. at \in Stations BY DEF Stations
  <2>2. /\ Gone(h, at) \in Visits /\ Gone(h, at).at = at
        /\ Gone(h, at).o = m.o /\ Gone(h, at).kind = m.kind
        /\ Gone(h, at).source = m.source
    BY <2>1, GoneVisits
  <2>3. PICK g \in Visits : g = Gone(h, at) BY <2>2
  <2>4. Fits(h, Gone(h, at)) BY <2>2, <1>1 DEF Fits
  <2>5. ASSUME NEW b \in Nat PROVE At1(at, b) \in Visits /\ Fits(h, At1(at, b))
    BY <2>2, <2>3, <1>1 DEF Visits, Fits
  <2> QED BY <2>2, <2>4, <2>5
<1>4. next \in Visits /\ Fits(h, next)
  <2> HIDE DEF At1
  <2> QED BY <1>2, <1>3
<1>5. Question(h, next, Gone(h, "failed")) BY DEF readRestore
<1>6. "failed" \in Free BY DEF Free
<1> HIDE DEF next
<1> QED BY <1>1, <1>4, <1>5, <1>6, Asked

LEMMA GenerationRead ==
    ASSUME CaptureInv, NEW h \in Hosts, readGenerationOptional(h)
    PROVE  CaptureInv'
<1> DEFINE m == inFlight[h]
           row == operation[m.o]
           n == [Gone(h, "verify") EXCEPT
                   !.base = row.base, !.context.epoch = session.epoch,
                   !.expected = IF row.state = "committed" THEN row.revision - 1
                                                          ELSE row.revision]
           next == IF row.state \in {"starting", "uncertain", "committed"}
                   THEN n ELSE Gone(h, "failed")
<1>1. m.at # "idle" /\ m.o \in Operations
  BY DEF CaptureInv, readGenerationOptional, Running, Fits
<1>2. "failed" \in Free /\ "verify" \in Free /\ "verify" \in Stations BY DEF Free, Stations
<1>3. Gone(h, "failed") \in Visits /\ Fits(h, Gone(h, "failed")) BY <1>1, <1>2, FailureFits
<1>4. n \in Visits /\ Fits(h, n)
  <2>1. row \in Rows /\ session.epoch \in 0 .. LastEpoch
    BY <1>1 DEF CaptureInv, CaptureTyped, SessionRows
  <2>2. PICK k \in Int : k = IF row.state = "committed" THEN row.revision - 1
                                                       ELSE row.revision
    BY <2>1 DEF Rows
  <2>3. PICK b \in Nat : b = row.base BY <2>1 DEF Rows
  <2>4. PICK e \in 0 .. LastEpoch : e = session.epoch BY <2>1
  <2>5. Gone(h, "verify") \in Visits BY <1>2, GoneVisits
  <2>6. PICK g \in Visits : g = Gone(h, "verify") BY <2>5
  <2>7. PICK v : v = [g EXCEPT !.base = b, !.context.epoch = e, !.expected = k]
    OBVIOUS
  <2>8. v = n BY <2>2, <2>3, <2>4, <2>6, <2>7
  <2>9. v \in Visits /\ v.at = g.at /\ v.o = g.o /\ v.kind = g.kind /\ v.source = g.source
        /\ v.epoch = g.epoch
    BY <2>7 DEF Visits
  <2>10. g.at = "verify" /\ Known(g, h) BY <1>2, <2>6, GoneVisits DEF Known
  <2>11. Known(v, h) /\ v.at \in Free BY <2>9, <2>10, <1>2 DEF Known
  <2>12. Fits(h, v) BY <2>11, <1>1, FreeFits
  <2> QED BY <2>8, <2>9, <2>12
<1>5. Question(h, next, Gone(h, "failed")) BY DEF readGenerationOptional
<1>6. next \in Visits /\ Fits(h, next) BY <1>3, <1>4
<1> HIDE DEF next
<1> QED BY <1>1, <1>2, <1>5, <1>6, Asked

-----------------------------------------------------------------------------
(* The publication, and what follows it. *)

\* The call has the content of the publication.
LEMMA ContentSeen ==
    ASSUME CaptureInv, NEW h \in Hosts, inFlight[h].at # "idle", NEW c \in Contents,
           published[inFlight[h].o].state = "committed",
           published[inFlight[h].o].content = c, NEW n,
           n = [Gone(h, "published") EXCEPT !.content = c]
    PROVE  n \in Visits /\ Fits(h, n)
<1>1. "published" \in Stations BY DEF Stations
<1>2. Fits(h, inFlight[h]) BY DEF CaptureInv
<1>3. Gone(h, "published") \in Visits BY <1>1, GoneVisits
<1>4. PICK g \in Visits : g = Gone(h, "published") BY <1>3
<1>5. Known(g, h) /\ g.at = "published" BY <1>1, <1>4, GoneVisits DEF Known
<1>6. n = [g EXCEPT !.content = c] BY <1>4
<1>7. n \in Visits /\ Known(n, h) /\ n.at = "published" /\ n.content = c
  BY <1>5, <1>6 DEF Visits, Known
<1> QED BY <1>2, <1>7 DEF Fits, Known

LEMMA Verified ==
    ASSUME CaptureInv, NEW h \in Hosts, verify(h)
    PROVE  CaptureInv'
<1> DEFINE m == inFlight[h]
           p == published[m.o]
           can == /\ p.state = "committed"
                  /\ m.kind = "restore" => normalizeRestoreContext(m)
           n == [Gone(h, "published") EXCEPT !.content = p.content]
           next == IF can THEN n ELSE AfterFailure(h)
<1>1. m.at # "idle" /\ m.o \in Operations BY DEF CaptureInv, verify, Running, Fits
<1>2. AfterFailure(h) \in Visits /\ Fits(h, AfterFailure(h)) BY <1>1, FailureFits
<1>3. ASSUME p.state = "committed" PROVE n \in Visits /\ Fits(h, n)
  BY <1>1, <1>3, ContentSeen DEF CaptureInv, CaptureTyped, Publications
<1>4. next \in Visits /\ Fits(h, next) BY <1>2, <1>3
<1>5. Question(h, next, AfterFailure(h)) BY DEF verify
<1> HIDE DEF next
<1> QED BY <1>2, <1>4, <1>5, QuestionKeeps

LEMMA ReadBack ==
    ASSUME CaptureInv, NEW h \in Hosts, readback(h)
    PROVE  CaptureInv'
<1> DEFINE m == inFlight[h]
           row == operation[m.o]
           next == IF row.state = "committed" /\ row.content = m.content
                   THEN Gone(h, "done") ELSE AfterFailure(h)
<1>1. m.at # "idle" /\ m.o \in Operations /\ Fits(h, m)
  BY DEF CaptureInv, readback, Running, Fits
<1>2. AfterFailure(h) \in Visits /\ Fits(h, AfterFailure(h)) BY <1>1, FailureFits
<1>3. "done" \in Stations BY DEF Stations
<1>4. /\ Gone(h, "done") \in Visits /\ Gone(h, "done").at = "done"
      /\ Gone(h, "done").o = m.o /\ Gone(h, "done").kind = m.kind
      /\ Gone(h, "done").source = m.source /\ Gone(h, "done").epoch = m.epoch
      /\ Gone(h, "done").content = m.content
  BY <1>3, GoneVisits
<1>5. row.state = "committed" /\ row.content = m.content => Fits(h, Gone(h, "done"))
  BY <1>1, <1>4 DEF Fits
<1>6. next \in Visits /\ Fits(h, next) BY <1>2, <1>4, <1>5
<1>7. Question(h, next, AfterFailure(h)) BY DEF readback
<1> HIDE DEF next
<1> QED BY <1>2, <1>6, <1>7, QuestionKeeps

\* The lock is probed: the call knows what it knew, and goes on.
LEMMA ProbeKeeps ==
    ASSUME CaptureInv, NEW h \in Hosts, inFlight[h].at # "idle", NEW at \in Stations, NEW sure,
           NEW failed, failed \in Visits, Fits(h, failed),
           Fits(h, inFlight[h]) => Fits(h, Gone(h, at)),
           Question(h, IF sure THEN Gone(h, at) ELSE failed, failed)
    PROVE  CaptureInv'
<1> DEFINE next == IF sure THEN Gone(h, at) ELSE failed
<1>1. Gone(h, at) \in Visits /\ Fits(h, Gone(h, at)) BY GoneVisits DEF CaptureInv
<1>2. next \in Visits /\ Fits(h, next) BY <1>1
<1>3. Question(h, next, failed)
  OBVIOUS
<1> HIDE DEF next
<1> QED BY <1>2, <1>3, QuestionKeeps

LEMMA Probed ==
    ASSUME CaptureInv, NEW h \in Hosts,
           \/ probePrepared(h) \/ probeDispatched(h) \/ probeAttempt(h) \/ probePublished(h)
           \/ probeUnanswered(h)
    PROVE  CaptureInv'
<1> DEFINE m == inFlight[h]
           held == assertGuardHeld(h)
<1>1. m \in Visits /\ m.at # "idle" /\ Fits(h, m)
  BY DEF CaptureInv, CaptureTyped, probePrepared, probeDispatched, probeAttempt,
     probePublished, probeUnanswered, Probe, Running
<1>2. /\ \A at \in Free : Gone(h, at) \in Visits /\ Fits(h, Gone(h, at))
      /\ AfterFailure(h) \in Visits /\ Fits(h, AfterFailure(h))
  BY <1>1, FailureFits
<1>3. {"failed", "verifying", "readback"} \subseteq Free
      /\ {"claim-prepared", "publishing", "finalizing"} \cup Free \subseteq Stations
  BY DEF Free, Stations
<1>4. ASSUME NEW at \in Stations
      PROVE  /\ Gone(h, at).at = at /\ Gone(h, at).o = m.o /\ Gone(h, at).kind = m.kind
             /\ Gone(h, at).source = m.source /\ Gone(h, at).epoch = m.epoch
             /\ Gone(h, at).content = m.content
  BY GoneVisits
<1>5. CASE probePrepared(h)
  <2>1. m.at = "prepared-read" BY <1>5 DEF probePrepared, Probe, Running
  <2>2. Fits(h, Gone(h, "claim-prepared")) BY <1>1, <1>3, <1>4, <2>1 DEF Fits
  <2> QED BY <1>1, <1>2, <1>3, <1>5, <2>2, ProbeKeeps DEF probePrepared, Probe
<1>6. CASE probeDispatched(h)
  <2>1. m.at = "publish" BY <1>6 DEF probeDispatched, Probe, Running
  <2>2. Fits(h, Gone(h, "publishing")) BY <1>1, <1>3, <1>4, <2>1 DEF Fits
  <2> QED BY <1>1, <1>2, <1>3, <1>6, <2>2, ProbeKeeps DEF probeDispatched, Probe
<1>7. CASE probeAttempt(h) \/ probeUnanswered(h)
  BY <1>1, <1>2, <1>3, <1>7, ProbeKeeps DEF probeAttempt, probeUnanswered, Probe
<1>8. CASE probePublished(h)
  <2>1. m.at = "published" BY <1>8 DEF probePublished, Running
  <2>2. Fits(h, Gone(h, "finalizing")) BY <1>1, <1>3, <1>4, <2>1 DEF Fits
  <2> QED BY <1>1, <1>2, <1>3, <1>8, <2>2, ProbeKeeps DEF probePublished
<1> QED BY <1>5, <1>6, <1>7, <1>8

\* What may be published for o: what its writer left, or what its checkpoint holds.
Truthful(o, q) ==
    \/ q = published[o]
    \/ /\ q.state \in {"left", "committed"}
       /\ o \in Captures => q.content = directory.still[operation[o].epoch]
       /\ o \in Restores => q.content = operation[operation[o].source].content
       /\ published[o].state = "committed" => q.state = "committed" /\ q.content = published[o].content

\* A writer that stopped left what the directory holds, as long as its capture is
\* under way.
LEMMA ContentIsTrue ==
    ASSUME CaptureInv, NEW o \in Operations, operation[o].state \in Published,
           o \in Captures => published[o].state = "none"
    PROVE  /\ Content(o) \in Contents
           /\ o \in Captures => Content(o) = directory.still[operation[o].epoch]
           /\ o \in Restores => Content(o) = operation[operation[o].source].content
           /\ published[o].state = "committed" => Content(o) = published[o].content
<1> USE CaptureAssumption
<1>1. RowOk(o) /\ Still /\ operation[o] \in Rows /\ directory \in Directories
      /\ published \in [Operations -> Publications]
  BY DEF CaptureInv, CaptureTyped
<1>2. CASE o \in Captures
  <2>1. o \notin Restores /\ Content(o) = directory.content BY <1>2 DEF Content
  <2>2. operation[o].state \in UnderWay BY <1>1, <1>2 DEF RowOk, UnderWay, Published
  <2>3. operation[o].epoch = session.epoch /\ Quiet(operation[o].epoch)
    BY <1>1, <1>2, <2>2 DEF RowOk
  <2>4. directory.live = 0 /\ session.epoch > 0
    BY <2>3, <1>1 DEF Quiet, CaptureInv, CaptureTyped, SessionRows, Still
  <2>5. directory.still[session.epoch] = directory.content BY <1>1, <2>4 DEF Still
  <2>6. directory.content \in Contents BY <1>1 DEF Directories, Contents
  <2> QED BY <1>2, <2>1, <2>3, <2>5, <2>6
<1>3. CASE o \in Restores
  BY <1>3, <1>1 DEF RowOk, Published, Operations, CaptureInv, Content, Publications
<1> QED BY <1>2, <1>3 DEF Operations

LEMMA PublicationKeeps ==
    ASSUME CaptureInv, NEW h \in Hosts, NEW o \in Operations, NEW q \in Publications,
           NEW n \in Visits, Truthful(o, q), operation[o].state \in Published,
           published' = [published EXCEPT ![o] = q],
           inFlight' = [inFlight EXCEPT ![h] = n],
           published' = published => Fits(h, n),
           published' # published => Fits(h, n)',
           UNCHANGED <<rows, directory, advisory, minted, told, writer>>, mishaps' \in Nat
    PROVE  CaptureInv'
<1> USE CaptureAssumption
<1>1. CaptureTyped /\ Still /\ inFlight \in [Hosts -> Visits]
      /\ published \in [Operations -> Publications]
  BY DEF CaptureInv, CaptureTyped
<1>2. published' \in [Operations -> Publications] /\ inFlight' \in [Hosts -> Visits]
      /\ published'[o] = q /\ \A k \in Operations : k # o => published'[k] = published[k]
  BY <1>1
<1>3. CaptureTyped' /\ Still' BY <1>1, <1>2 DEF CaptureTyped, Still, rows
<1>4. ASSUME NEW k \in Operations PROVE RowOk(k)' /\ ToldOk(k)'
  BY <1>2 DEF CaptureInv, Quiet, rows, RowOk, Truthful, ToldOk
<1>5. Grows BY <1>1, <1>2 DEF Truthful, Grows, rows, CaptureTyped, SessionRows
<1>6. ASSUME NEW g \in Hosts
      PROVE  /\ WriterOk(g)'
             /\ (inFlight'[g] = inFlight[g] /\ Consumes(g)) \/ Fits(g, inFlight[g])'
  BY <1>1 DEF CaptureInv, WriterOk, Quiet, rows, Consumes, Fits
<1> QED BY <1>3, <1>4, <1>5, <1>6, Carried

LEMMA PublishKeeps ==
    ASSUME CaptureInv, NEW h \in Hosts, publish(h)
    PROVE  CaptureInv'
<1> USE CaptureAssumption
<1> DEFINE m == inFlight[h]
           p == published[m.o]
           can == Admitted(h) /\ Publishable(m.kind, p)
           tree == [state |-> "committed", epoch |-> m.epoch, content |-> Content(m.o)]
<1>1. m \in Visits /\ Fits(h, m) /\ m.at = "publishing" /\ m.o \in Operations
      /\ operation[m.o].state \in Published
  BY DEF CaptureInv, CaptureTyped, publish, Running, Fits
<1>2. PICK o \in Operations : o = m.o BY <1>1
<1>3. PICK f \in Visits : f = AfterFailure(h) /\ Fits(h, f) BY <1>1, FailureFits DEF Fits
<1>4. UNCHANGED <<rows, directory, advisory, minted, told, writer>> BY DEF publish
<1>5. mishaps' \in Nat BY DEF publish, Mishap, CaptureInv, CaptureTyped
<1>6. published \in [Operations -> Publications] /\ published[o] \in Publications
  BY DEF CaptureInv, CaptureTyped
<1>7. CASE ~can
  <2>1. UNCHANGED published /\ inFlight' = [inFlight EXCEPT ![h] = f]
    BY <1>3, <1>7 DEF publish
  <2>2. published' = [published EXCEPT ![o] = published[o]] BY <1>6, <2>1
  <2>3. PICK q \in Publications : q = published[o] BY <1>6
  <2>4. Truthful(o, q) BY <2>3 DEF Truthful
  <2> QED BY <1>1, <1>2, <1>3, <1>4, <1>5, <2>1, <2>2, <2>3, <2>4, PublicationKeeps
<1>8. CASE can
  <2>1. o \in Captures => published[o].state = "none"
    BY <1>1, <1>2, <1>8 DEF Publishable, Fits, Operations
  <2>2. /\ Content(o) \in Contents
        /\ o \in Captures => Content(o) = directory.still[operation[o].epoch]
        /\ o \in Restores => Content(o) = operation[operation[o].source].content
        /\ published[o].state = "committed" => Content(o) = published[o].content
    BY <1>1, <1>2, <2>1, ContentIsTrue
  <2>3. PICK c \in Contents : c = Content(o) BY <2>2
  <2>4. ASSUME NEW st \in {"left", "committed"},
               published[o].state = "committed" => st = "committed"
        PROVE  /\ [tree EXCEPT !.state = st] \in Publications
               /\ Truthful(o, [tree EXCEPT !.state = st])
    <3>1. [tree EXCEPT !.state = st] = [state |-> st, epoch |-> m.epoch, content |-> c]
      BY <1>2, <2>3
    <3>2. m.epoch \in 0 .. LastEpoch BY <1>1 DEF Visits
    <3> HIDE DEF tree
    <3> QED BY <2>2, <2>3, <2>4, <3>1, <3>2 DEF Publications, Truthful
  <2>5. tree = [tree EXCEPT !.state = "committed"]
    OBVIOUS
  <2>6. tree \in Publications /\ Truthful(o, tree) BY <2>4, <2>5
  <2>7. CASE /\ published' = [published EXCEPT ![m.o] = tree]
             /\ inFlight' = [inFlight EXCEPT ![h] = [Gone(h, "published") EXCEPT
                                                     !.content = tree.content]]
    <3>1. PICK q \in Publications : q = tree BY <2>6
    <3>2. PICK n : n = [Gone(h, "published") EXCEPT !.content = c]
      OBVIOUS
    <3>3. inFlight' = [inFlight EXCEPT ![h] = n] BY <1>2, <2>3, <2>7, <3>2
    <3>4. /\ n \in Visits /\ n.at = "published" /\ n.content = c /\ Known(n, h)
      <4>1. "published" \in Stations BY DEF Stations
      <4>2. PICK g \in Visits : g = Gone(h, "published") BY <4>1, GoneVisits
      <4>3. g.at = "published" /\ Known(g, h) BY <4>1, <4>2, GoneVisits DEF Known
      <4>4. n = [g EXCEPT !.content = c] BY <3>2, <4>2
      <4> QED BY <4>3, <4>4 DEF Visits, Known
    <3>5. q.state = "committed" /\ q.content = c BY <1>2, <2>3, <3>1
    <3>6. published' = [published EXCEPT ![o] = q] /\ published'[o] = q
      BY <1>2, <1>6, <2>7, <3>1
    <3>7. \A e : Quiet(e)' <=> Quiet(e) BY <1>4 DEF Quiet, rows
    <3>8. Fits(h, n)' BY <1>1, <1>2, <1>4, <3>4, <3>5, <3>6, <3>7 DEF Fits, Known
    <3>9. published' = published => Fits(h, n) BY <3>8, <1>4 DEF Fits, Quiet, rows
    <3>10. Truthful(o, q) BY <2>6, <3>1 DEF Truthful
    <3> QED BY <1>1, <1>2, <1>4, <1>5, <3>3, <3>4, <3>6, <3>8, <3>9, <3>10, PublicationKeeps
  <2>8. CASE /\ inFlight' = [inFlight EXCEPT ![h] = AfterFailure(h)]
             /\ \E left \in {p, [tree EXCEPT !.state = "left"], tree} :
                  published' = [published EXCEPT ![m.o] =
                                  IF p.state = "committed" THEN p ELSE left]
    <3>1. PICK left \in {p, [tree EXCEPT !.state = "left"], tree} :
            published' = [published EXCEPT ![m.o] =
                            IF p.state = "committed" THEN p ELSE left]
      BY <2>8
    <3>2. PICK q : q = IF p.state = "committed" THEN p ELSE left
      OBVIOUS
    <3>3. q \in Publications /\ Truthful(o, q)
      <4>1. p \in Publications /\ Truthful(o, p) BY <1>2, <1>6 DEF Truthful
      <4>2. p.state # "committed" => /\ [tree EXCEPT !.state = "left"] \in Publications
                                     /\ Truthful(o, [tree EXCEPT !.state = "left"])
        BY <2>4, <1>2
      <4>3. q = p \/ q = tree \/ (p.state # "committed" /\ q = [tree EXCEPT !.state = "left"])
        BY <3>1, <3>2
      <4> HIDE DEF tree, p
      <4>4. q = p => Truthful(o, q) BY <4>1 DEF Truthful
      <4>5. q = tree => Truthful(o, q) BY <2>6 DEF Truthful
      <4>6. q = [tree EXCEPT !.state = "left"] /\ p.state # "committed" => Truthful(o, q)
        BY <4>2 DEF Truthful
      <4> QED BY <2>6, <4>1, <4>2, <4>3, <4>4, <4>5, <4>6
    <3>4. published' = [published EXCEPT ![o] = q] BY <1>2, <3>1, <3>2
    <3>5. inFlight' = [inFlight EXCEPT ![h] = f] BY <1>3, <2>8
    <3>6. Fits(h, f)'
      <4>1. f.at \in {"mark", "failed"} BY <1>3, GoneVisits DEF AfterFailure, Stations
      <4> QED BY <1>3, <1>4, <4>1 DEF Fits, Quiet, rows
    <3> QED BY <1>1, <1>2, <1>3, <1>4, <1>5, <3>3, <3>4, <3>5, <3>6, PublicationKeeps
  <2> QED BY <1>8, <2>7, <2>8 DEF publish
<1> QED BY <1>7, <1>8

\* The row is committed with the content that the call saw published.
LEMMA FinalizeKeeps ==
    ASSUME CaptureInv, NEW h \in Hosts, finalize(h)
    PROVE  CaptureInv'
<1> USE CaptureAssumption
<1> DEFINE m == inFlight[h]
           row == operation[m.o]
           answered == IF m.kind = "restore" THEN Gone(h, "readback") ELSE Gone(h, "done")
           failed == CASE m.kind = "resume" -> Gone(h, "unanswered")
                       [] m.kind = "restore" -> Gone(h, "readback")
                       [] OTHER -> AfterFailure(h)
           d == Gone(h, "done")
<1>1. m \in Visits /\ Fits(h, m) /\ m.at = "finalizing" /\ m.o \in Operations
      /\ published[m.o].state = "committed" /\ published[m.o].content = m.content
  BY DEF CaptureInv, CaptureTyped, finalize, Running, Fits
<1>2. PICK o \in Operations : o = m.o BY <1>1
<1>3. RowOk(o) /\ operation[o] \in Rows BY DEF CaptureInv, CaptureTyped
<1>4. AfterFailure(h) \in Visits /\ Fits(h, AfterFailure(h))
      /\ Gone(h, "readback") \in Visits /\ Fits(h, Gone(h, "readback"))
      /\ Gone(h, "unanswered") \in Visits /\ Fits(h, Gone(h, "unanswered"))
  BY <1>1, FailureFits DEF Free
<1>5. failed \in Visits /\ Fits(h, failed) BY <1>4
<1>6. "done" \in Stations BY DEF Stations
<1>7. d \in Visits /\ d.at = "done" /\ d.o = m.o /\ d.kind = m.kind /\ d.source = m.source
      /\ d.epoch = m.epoch /\ d.content = m.content
  BY <1>6, GoneVisits
<1>8. answered \in Visits /\ (answered = d \/ Fits(h, answered)) BY <1>4, <1>7
<1> HIDE DEF failed, d, answered
<1>9. CASE /\ row.state = "committed"
           /\ Question(h, IF normalizeFinalizationReceipt(m, row, session, FALSE)
                          THEN answered ELSE failed,
                       failed)
  <2> DEFINE next == IF normalizeFinalizationReceipt(m, row, session, FALSE)
                     THEN answered ELSE failed
  <2>1. operation[o].content = m.content BY <1>1, <1>2, <1>3, <1>9 DEF RowOk
  <2>2. Fits(h, d) BY <1>1, <1>2, <1>7, <1>9, <2>1 DEF Fits
  <2>3. next \in Visits /\ Fits(h, next) BY <1>5, <1>8, <2>2
  <2>4. Question(h, next, failed) BY <1>9
  <2> HIDE DEF next
  <2> QED BY <1>5, <2>3, <2>4, QuestionKeeps
<1>10. CASE Transaction(h, /\ row.state \in {"starting", "uncertain"}
                           /\ row.revision = m.expected,
                        [row EXCEPT !.state = "committed", !.revision = @ + 1,
                                    !.content = m.content],
                        NoOperation,
                        normalizeFinalizationReceipt(m, operation'[m.o], session', TRUE),
                        answered, failed)
  <2> DEFINE can == /\ row.state \in {"starting", "uncertain"}
                    /\ row.revision = m.expected
             new == [row EXCEPT !.state = "committed", !.revision = @ + 1,
                                !.content = m.content]
  <2>1. PICK r : r = new
    OBVIOUS
  <2>2. PICK next \in Visits : next = answered BY <1>8
  <2>3. PICK f \in Visits : f = failed /\ Fits(h, f) BY <1>5 DEF Fits
  <2>4. PICK able : able = can
    OBVIOUS
  <2>5. Transacts(h, can, o, r, NoOperation, next, f)
    BY <1>2, <1>10, <2>1, <2>2, <2>3 DEF Transaction, Transacts
  <2>6. Transacts(h, able, o, r, NoOperation, next, f) BY <2>4, <2>5 DEF Transacts
  <2>7. /\ r \in Rows /\ r.state = "committed" /\ r.content = m.content
        /\ r.epoch = operation[o].epoch /\ r.source = operation[o].source
    <3>1. m.content \in Contents BY <1>1 DEF Visits
    <3>2. PICK c \in Contents : c = m.content BY <3>1
    <3>3. PICK k \in Nat : k = operation[o].revision + 1 BY <1>3 DEF Rows
    <3>4. "committed" \in RowStates BY DEF RowStates
    <3>5. r = [operation[o] EXCEPT !.state = "committed", !.revision = k, !.content = c]
      BY <1>2, <2>1, <3>2, <3>3
    <3> HIDE DEF new
    <3> QED BY <1>3, <3>2, <3>4, <3>5 DEF Rows
  <2>8. able => Follows(o, r, NoOperation)
    <3>1. able => operation[o].state \in {"starting", "uncertain"} BY <1>2, <2>4
    <3> HIDE DEF new, can
    <3> QED BY <1>1, <1>2, <1>3, <2>7, <3>1 DEF Follows, RowOk, UnderWay, Published
  <2>9. CASE next = d
    <3>1. operation \in [Operations -> Rows] /\ session \in SessionRows
      BY DEF CaptureInv, CaptureTyped
    <3>2. Writes(o, r, NoOperation) =>
            /\ operation'[o] = r /\ session'.epoch = session.epoch
            /\ directory' = directory /\ writer' = writer
      BY <3>1 DEF Writes, SessionRows
    <3>3. /\ next.at = "done" /\ next.o = o /\ next.kind = m.kind /\ next.source = m.source
          /\ next.epoch = m.epoch /\ next.content = m.content
      BY <1>2, <1>7, <2>9
    <3> HIDE DEF new
    <3>4. Writes(o, r, NoOperation) /\ next.kind = "capture" =>
            Quiet(next.epoch)' /\ writer'[h].state = "consuming"
      BY <3>2, <3>3, <1>1 DEF Fits, Quiet
    <3>5. Writes(o, r, NoOperation) => Fits(h, next)'
      BY <1>1, <1>2, <2>7, <3>2, <3>3, <3>4 DEF Fits
    <3> QED BY <2>3, <2>6, <2>8, <3>5, TransactionKeeps
  <2>10. CASE Fits(h, answered)
    <3>1. Fits(h, next) BY <2>2, <2>10 DEF Fits
    <3> QED BY <2>3, <2>6, <2>8, <3>1, TransactionKeeps
  <2> QED BY <1>8, <2>2, <2>9, <2>10
<1> QED BY <1>9, <1>10 DEF finalize, failed, answered

-----------------------------------------------------------------------------
(* The ends of calls. *)

\* The writer's record moves on without a new writer, and no capability is issued.
LEMMA WriterSettled ==
    ASSUME CaptureInv, NEW h \in Hosts, UNCHANGED <<session, directory>>,
           NEW st \in WriterStates \ {"issued"}, writer[h].state # "none",
           writer' = [writer EXCEPT ![h].state = st]
    PROVE  writer' \in [Hosts -> Writers] /\ \A g \in Hosts : WriterOk(g)'
BY DEF CaptureInv, CaptureTyped, Writers, WriterOk, Quiet

\* The callback has returned: its caller is told what the row says.
LEMMA ReturnsKeeps ==
    ASSUME CaptureInv, NEW h \in Hosts, NEW ok \in BOOLEAN, captureReturns(h, ok)
    PROVE  CaptureInv'
<1> DEFINE m == inFlight[h]
<1>1. m \in Visits /\ Fits(h, m) /\ m.at # "idle" /\ m.o \in Operations
      /\ (ok => m.at = "done")
  BY DEF CaptureInv, CaptureTyped, captureReturns, Running, Fits
<1>2. PICK n \in Visits : n = NotRunning /\ n.at = "idle" BY IdleFits DEF NotRunning
<1>3. /\ UNCHANGED <<rows, published, directory>>
      /\ inFlight' = [inFlight EXCEPT ![h] = n]
      /\ advisory' = [advisory EXCEPT ![m.o] = IF @ = h THEN Nowhere ELSE @]
      /\ told' = IF ok THEN [told EXCEPT ![m.o] = m.content] ELSE told
      /\ minted' = minted /\ mishaps' = mishaps
  BY <1>2 DEF captureReturns
<1>4. /\ advisory' \in [Operations -> Hosts \cup {Nowhere}]
      /\ minted' \in Nat /\ mishaps' \in Nat
  BY <1>1, <1>3 DEF CaptureInv, CaptureTyped
<1>5. /\ told' \in [Operations -> Contents]
      /\ \A o \in Operations : \/ told'[o] = told[o]
                               \/ /\ operation[o].state = "committed"
                                  /\ operation[o].content = told'[o]
  BY <1>1, <1>3 DEF Visits, CaptureInv, CaptureTyped, Fits
<1>6. /\ writer' \in [Hosts -> Writers]
      /\ \A g \in Hosts : WriterOk(g)' /\ (g # h => writer'[g] = writer[g])
  <2>1. CASE m.kind # "capture" BY <2>1, <1>3, WritersStay DEF captureReturns, rows
  <2>2. CASE m.kind = "capture"
    <3>1. writer[h].state # "none" BY <1>1, <2>2 DEF Fits
    <3>2. PICK st \in WriterStates \ {"issued"} : writer' = [writer EXCEPT ![h].state = st]
      BY <2>2 DEF WriterStates, captureReturns, snapshotSettled
    <3>3. writer' \in [Hosts -> Writers] /\ \A g \in Hosts : WriterOk(g)'
      BY <1>3, <3>1, <3>2, WriterSettled DEF rows
    <3>4. \A g \in Hosts : g # h => writer'[g] = writer[g]
      BY <3>2 DEF CaptureInv, CaptureTyped
    <3> QED BY <3>3, <3>4
  <2> QED BY <2>1, <2>2
<1>7. Fits(h, n)' BY <1>2 DEF Fits
<1> QED BY <1>3, <1>4, <1>5, <1>6, <1>7, CallGoesOn

\* A call goes on, or not, and its lock is given up.
LEMMA LockGoes ==
    ASSUME CaptureInv, NEW h \in Hosts, NEW n \in Visits, Fits(h, n),
           inFlight' = [inFlight EXCEPT ![h] = n],
           advisory' \in [Operations -> Hosts \cup {Nowhere}], Mishap,
           UNCHANGED <<rows, published, directory, minted, told, writer>>
    PROVE  CaptureInv'
<1>1. /\ writer' \in [Hosts -> Writers]
      /\ \A g \in Hosts : WriterOk(g)' /\ writer'[g] = writer[g]
  BY WritersStay DEF rows
<1>2. mishaps' \in Nat /\ minted' \in Nat /\ told' \in [Operations -> Contents] /\ told' = told
  BY DEF Mishap, CaptureInv, CaptureTyped
<1>3. Fits(h, n)' BY DEF Fits, Quiet, rows
<1> QED BY <1>1, <1>2, <1>3, CallGoesOn

LEMMA ReleaseFailed ==
    ASSUME CaptureInv, NEW h \in Hosts, ReleaseFails(h)
    PROVE  CaptureInv'
<1>1. inFlight[h].at # "idle" /\ inFlight[h].o \in Operations
  BY DEF CaptureInv, ReleaseFails, Running, Fits
<1>2. PICK n \in Visits : n = AfterFailure(h) /\ Fits(h, n) BY <1>1, FailureFits DEF Fits
<1>3. /\ inFlight' = [inFlight EXCEPT ![h] = n] /\ Mishap
      /\ advisory' = [advisory EXCEPT ![inFlight[h].o] = IF @ = h THEN Nowhere ELSE @]
      /\ UNCHANGED <<rows, published, directory, minted, told, writer>>
  BY <1>2 DEF ReleaseFails
<1>4. advisory' \in [Operations -> Hosts \cup {Nowhere}]
  BY <1>1, <1>3 DEF CaptureInv, CaptureTyped
<1> QED BY <1>2, <1>3, <1>4, LockGoes

LEMMA GuardLostKeeps ==
    ASSUME CaptureInv, NEW h \in Hosts, GuardLost(h)
    PROVE  CaptureInv'
BY LockGoes DEF CaptureInv, CaptureTyped, GuardLost, Fits

\* The process is gone with its call, its locks and its writer's record.
LEMMA HostDiesKeeps ==
    ASSUME CaptureInv, NEW h \in Hosts, HostDies(h)
    PROVE  CaptureInv'
<1>1. PICK n \in Visits : n = NotRunning /\ n.at = "idle" BY IdleFits DEF NotRunning
<1>2. /\ UNCHANGED <<rows, published, directory>> /\ told' = told /\ minted' = minted
      /\ inFlight' = [inFlight EXCEPT ![h] = n]
      /\ writer' = [writer EXCEPT ![h] = NoWriter]
      /\ advisory' = [o \in Operations |-> IF advisory[o] = h THEN Nowhere ELSE advisory[o]]
  BY <1>1 DEF HostDies
<1>3. /\ advisory' \in [Operations -> Hosts \cup {Nowhere}]
      /\ minted' \in Nat /\ mishaps' \in Nat /\ told' \in [Operations -> Contents]
  BY <1>2 DEF CaptureInv, CaptureTyped, HostDies, Mishap
<1>4. writer \in [Hosts -> Writers] /\ NoWriter \in Writers /\ NoWriter.state = "none"
  BY CaptureAssumption DEF NoWriter, Writers, WriterStates, CaptureInv, CaptureTyped
<1>5. writer' \in [Hosts -> Writers] BY <1>2, <1>4
<1>6. ASSUME NEW g \in Hosts PROVE WriterOk(g)' /\ (g # h => writer'[g] = writer[g])
  BY <1>2, <1>4 DEF CaptureInv, WriterOk, Quiet, rows
<1>7. Fits(h, n)' BY <1>1 DEF Fits
<1> QED BY <1>2, <1>3, <1>5, <1>6, <1>7, CallGoesOn

-----------------------------------------------------------------------------
(* The session, its directory and its writers, while rows and calls are as they *)
(* were. *)

LEMMA SessionGoesOn ==
    ASSUME CaptureInv, UNCHANGED <<operation, published, inFlight, advisory, told>>,
           session' \in SessionRows, directory' \in Directories,
           session'.active = session.active,
           session.active # NoOperation => session'.epoch = session.epoch,
           writer' \in [Hosts -> Writers], minted' \in Nat, mishaps' \in Nat,
           Grows, Still', \A h \in Hosts : WriterOk(h)' /\ Consumes(h)
    PROVE  CaptureInv'
<1> USE CaptureAssumption
<1>1. CaptureTyped' BY DEF CaptureInv, CaptureTyped
<1>2. \A e : Quiet(e) => /\ Quiet(e)'
                         /\ directory'.still[e] = directory.still[e]
  BY DEF CaptureInv, CaptureTyped, SessionRows, Grows, Quiet
<1>3. ASSUME NEW o \in Operations PROVE RowOk(o)' /\ ToldOk(o)'
  BY <1>2 DEF CaptureInv, RowOk, Operations, ToldOk
<1>4. inFlight' = inFlight
  OBVIOUS
<1> QED BY <1>1, <1>3, <1>4, Carried

\* A writer that is silenced has left what the directory holds.
LEMMA SilencedDirectory ==
    ASSUME CaptureInv, NEW e \in 0 .. LastEpoch
    PROVE  /\ Silenced(directory, e) \in Directories
           /\ Silenced(directory, e).content = directory.content
           /\ Silenced(directory, e).live \in {0, session.epoch}
           /\ e > 0 => Silenced(directory, e).live # e
           /\ Silenced(directory, e).live # directory.live => Silenced(directory, e).live = 0
           /\ Silenced(directory, e).live = 0 /\ session.epoch > 0 =>
                Silenced(directory, e).still[session.epoch] = directory.content
           /\ \A k \in 1 .. session.epoch : directory.live # k =>
                Silenced(directory, e).still[k] = directory.still[k]
<1>1. directory \in Directories /\ Still /\ session.epoch \in 0 .. LastEpoch
  BY DEF CaptureInv, CaptureTyped, SessionRows
<1>2. CASE directory.live = e /\ e > 0
  <2>1. Silenced(directory, e) = [directory EXCEPT !.live = 0, !.still[e] = directory.content]
    BY <1>2 DEF Silenced
  <2>2. /\ directory.content \in 0 .. MaxWrites /\ directory.content \in Contents
        /\ directory.still \in [1 .. LastEpoch -> Contents] /\ e \in 1 .. LastEpoch
    BY <1>1, <1>2 DEF Directories, Contents
  <2>3. 0 \in 0 .. LastEpoch BY CaptureAssumption
  <2>4. [directory.still EXCEPT ![e] = directory.content] \in [1 .. LastEpoch -> Contents]
    BY <2>2
  <2>5. Silenced(directory, e) =
          [content |-> directory.content, live |-> 0,
           still |-> [directory.still EXCEPT ![e] = directory.content]]
    BY <1>1, <2>1 DEF Directories
  <2>6. directory.live = session.epoch BY <1>1, <1>2 DEF Still
  <2>7. /\ Silenced(directory, e).content = directory.content
        /\ Silenced(directory, e).live = 0
        /\ Silenced(directory, e).still = [directory.still EXCEPT ![e] = directory.content]
    BY <2>5
  <2>8. Silenced(directory, e) \in Directories BY <2>2, <2>3, <2>4, <2>5 DEF Directories
  <2>9. Silenced(directory, e).still[session.epoch] = directory.content
    BY <1>2, <2>2, <2>6, <2>7
  <2>10. \A k \in 1 .. session.epoch : directory.live # k =>
           Silenced(directory, e).still[k] = directory.still[k]
    BY <1>1, CaptureAssumption, <1>2, <2>2, <2>7
  <2>11. e > 0 => e # 0 BY <2>2
  <2> QED BY <1>1, <1>2, <2>7, <2>8, <2>9, <2>10, <2>11
<1>3. CASE ~(directory.live = e /\ e > 0) BY <1>1, <1>3 DEF Silenced, Still
<1> QED BY <1>2, <1>3

LEMMA WriterAttached ==
    ASSUME CaptureInv, NEW h \in Hosts, AttachWriter(h)
    PROVE  CaptureInv'
<1> USE CaptureAssumption
<1>1. /\ session \in SessionRows /\ session.epoch \in 0 .. LastEpoch
      /\ session.epoch < LastEpoch /\ session.active = NoOperation
      /\ directory \in Directories /\ writer \in [Hosts -> Writers]
  BY DEF CaptureInv, CaptureTyped, SessionRows, AttachWriter
<1>2. PICK e \in 1 .. LastEpoch : e = session.epoch + 1 BY <1>1
<1>3. PICK d : d = Silenced(directory, session.epoch)
  OBVIOUS
<1>4. /\ d \in Directories /\ d.content = directory.content
      /\ \A k \in 1 .. session.epoch : directory.live # k => d.still[k] = directory.still[k]
  BY <1>1, <1>3, SilencedDirectory
<1>5. /\ session' = [session EXCEPT !.revision = @ + 1, !.epoch = e, !.expired = FALSE]
      /\ directory' = [d EXCEPT !.live = e]
      /\ UNCHANGED <<minted, operation, published, advisory, inFlight, told, mishaps>>
      /\ writer[h].state = "none"
      /\ writer' = [writer EXCEPT ![h] = [NoWriter EXCEPT !.state = "running", !.a = e,
                                                         !.fenced = writer[h].fenced]]
  BY <1>2, <1>3 DEF AttachWriter, registerWriter, assertWriterLaunchAvailable
<1>6. /\ session' \in SessionRows /\ session'.epoch = e /\ session'.active = session.active
      /\ session'.revision = session.revision + 1
  <2>1. session.revision \in Nat /\ e \in 0 .. LastEpoch BY <1>1, <1>2 DEF SessionRows
  <2>2. PICK k \in Nat : k = session.revision + 1 BY <2>1
  <2>3. PICK b \in BOOLEAN : b = FALSE
    OBVIOUS
  <2>4. session' = [session EXCEPT !.revision = k, !.epoch = e, !.expired = b]
    BY <1>5, <2>2, <2>3
  <2> QED BY <1>1, <2>1, <2>2, <2>4 DEF SessionRows
<1>7. directory' \in Directories /\ directory'.live = e /\ directory'.still = d.still
  <2>1. e \in 0 .. LastEpoch BY <1>2
  <2> QED BY <1>4, <1>5, <2>1 DEF Directories
<1>8. Grows BY <1>1, <1>2, <1>7, <1>4, <1>5, <1>6 DEF SessionRows, Grows
<1>9. Still' BY <1>2, <1>6, <1>7 DEF Still
<1>10. /\ writer' \in [Hosts -> Writers]
       /\ \A g \in Hosts : WriterOk(g)' /\ Consumes(g)
  <2> DEFINE w == [NoWriter EXCEPT !.state = "running", !.a = e, !.fenced = writer[h].fenced]
  <2>1. writer[h].fenced \in 0 .. LastEpoch BY <1>1 DEF Writers
  <2>2. PICK f \in 0 .. LastEpoch : f = writer[h].fenced BY <2>1
  <2>3. NoWriter \in Writers /\ "running" \in WriterStates
    BY DEF NoWriter, Writers, WriterStates
  <2>4. w = [NoWriter EXCEPT !.state = "running", !.a = e, !.fenced = f] BY <2>2
  <2>5. w \in Writers /\ w.state = "running" /\ w.a = e BY <2>3, <2>4 DEF Writers
  <2> HIDE DEF w
  <2>6. writer' \in [Hosts -> Writers] BY <1>1, <1>5, <2>5 DEF w
  <2>7. ASSUME NEW g \in Hosts PROVE WriterOk(g)' /\ Consumes(g)
    BY <1>1, <1>5, <1>2, <1>6, <1>7, <2>5 DEF w, CaptureInv, Consumes, Quiet, WriterOk
  <2> QED BY <2>6, <2>7
<1>11. minted' \in Nat /\ mishaps' \in Nat BY <1>5 DEF CaptureInv, CaptureTyped
<1> QED BY <1>1, <1>5, <1>6, <1>7, <1>8, <1>9, <1>10, <1>11, SessionGoesOn

LEMMA WriteKeeps ==
    ASSUME CaptureInv, WriterWrites
    PROVE  CaptureInv'
<1>1. /\ directory \in Directories /\ Still /\ session \in SessionRows
      /\ directory.live > 0 /\ directory.content < MaxWrites
      /\ directory' = [directory EXCEPT !.content = @ + 1]
      /\ UNCHANGED <<minted, rows, published, advisory, inFlight, told, mishaps, writer>>
  BY DEF CaptureInv, CaptureTyped, WriterWrites
<1>2. PICK c \in 0 .. MaxWrites : c = directory.content + 1
  BY <1>1, CaptureAssumption DEF Directories
<1>3. directory' \in Directories /\ directory'.live = directory.live
      /\ directory'.still = directory.still
  BY <1>1, <1>2 DEF Directories
<1>4. Grows BY <1>1, <1>3 DEF Grows, rows, SessionRows
<1>5. Still' BY <1>1, <1>3 DEF Still, rows
<1>6. \A h \in Hosts : WriterOk(h)' /\ Consumes(h)
  BY <1>1, <1>3 DEF CaptureInv, WriterOk, Quiet, Consumes, rows
<1>7. session' \in SessionRows /\ minted' \in Nat /\ mishaps' \in Nat
      /\ writer' \in [Hosts -> Writers]
  BY <1>1 DEF rows, CaptureInv, CaptureTyped
<1> QED BY <1>1, <1>3, <1>4, <1>5, <1>6, <1>7, SessionGoesOn DEF rows

LEMMA ExpiryKeeps ==
    ASSUME CaptureInv, LeaseRunsOut
    PROVE  CaptureInv'
<1>1. /\ directory \in Directories /\ Still /\ session \in SessionRows
      /\ session' = [session EXCEPT !.expired = TRUE]
      /\ UNCHANGED <<minted, operation, published, directory, advisory, inFlight, told,
                     mishaps, writer>>
  BY DEF CaptureInv, CaptureTyped, LeaseRunsOut
<1>2. /\ session' \in SessionRows /\ session'.epoch = session.epoch
      /\ session'.revision = session.revision /\ session'.active = session.active
  BY <1>1 DEF SessionRows
<1>3. Grows BY <1>1, <1>2 DEF Grows, SessionRows
<1>4. Still' BY <1>1, <1>2 DEF Still
<1>5. \A h \in Hosts : WriterOk(h)' /\ Consumes(h)
  BY <1>1, <1>2 DEF CaptureInv, WriterOk, Quiet, Consumes
<1>6. minted' \in Nat /\ mishaps' \in Nat /\ writer' \in [Hosts -> Writers]
      /\ directory' \in Directories
  BY <1>1 DEF CaptureInv, CaptureTyped
<1> QED BY <1>1, <1>2, <1>3, <1>4, <1>5, <1>6, SessionGoesOn

\* The stop begins, or the writer is let go: nothing else changes.
LEMMA StopBegun ==
    ASSUME CaptureInv, NEW h \in Hosts, BeginWriterStop(h)
    PROVE  CaptureInv'
<1>1. /\ writer[h].state = "running" /\ writer' = [writer EXCEPT ![h].state = "stopping"]
      /\ UNCHANGED <<minted, rows, published, directory, advisory, inFlight, told, mishaps>>
  BY DEF BeginWriterStop, beginStop
<1>2. PICK st \in WriterStates \ {"issued"} : st = "stopping" BY DEF WriterStates
<1>3. writer' \in [Hosts -> Writers] /\ \A g \in Hosts : WriterOk(g)'
  BY <1>1, <1>2, WriterSettled DEF rows
<1>4. \A g \in Hosts : Consumes(g) BY <1>1 DEF CaptureInv, CaptureTyped, Consumes
<1>5. Grows /\ Still' BY <1>1 DEF rows, Grows, Still, CaptureInv, CaptureTyped, SessionRows
<1>6. /\ session' \in SessionRows /\ directory' \in Directories
      /\ minted' \in Nat /\ mishaps' \in Nat
  BY <1>1 DEF rows, CaptureInv, CaptureTyped
<1> QED BY <1>1, <1>3, <1>4, <1>5, <1>6, SessionGoesOn DEF rows

LEMMA RetiredKeeps ==
    ASSUME CaptureInv, NEW h \in Hosts, WriterRetired(h)
    PROVE  CaptureInv'
<1>1. /\ writer[h].state \in {"consumed", "revoked"}
      /\ writer' = [writer EXCEPT ![h] = Retired(h)]
      /\ UNCHANGED <<minted, rows, published, directory, advisory, inFlight, told, mishaps>>
  BY DEF WriterRetired, retireWriter
<1>2. /\ writer \in [Hosts -> Writers] /\ session.epoch \in 0 .. LastEpoch
      /\ writer[h].a \in 1 .. session.epoch
  BY <1>1 DEF CaptureInv, CaptureTyped, WriterOk, SessionRows
<1>3. Retired(h) \in Writers /\ Retired(h).state = "none"
  <2>1. PICK f \in 0 .. LastEpoch : f = Epoch[writer[h].a] BY <1>2, CaptureAssumption
  <2>2. NoWriter \in Writers /\ NoWriter.state = "none"
    BY CaptureAssumption DEF NoWriter, Writers, WriterStates
  <2>3. Retired(h) = [NoWriter EXCEPT !.fenced = f] BY <2>1 DEF Retired
  <2> QED BY <2>2, <2>3 DEF Writers
<1>4. PICK r \in Writers : r = Retired(h) /\ r.state = "none" BY <1>3
<1>5. writer' \in [Hosts -> Writers] /\ \A g \in Hosts : WriterOk(g)' /\ Consumes(g)
  BY <1>1, <1>4, <1>2 DEF CaptureInv, WriterOk, Quiet, rows, Consumes
<1>6. Grows /\ Still' BY <1>1 DEF rows, Grows, Still, CaptureInv, CaptureTyped, SessionRows
<1>7. /\ session' \in SessionRows /\ directory' \in Directories
      /\ minted' \in Nat /\ mishaps' \in Nat
  BY <1>1 DEF rows, CaptureInv, CaptureTyped
<1> QED BY <1>1, <1>5, <1>6, <1>7, SessionGoesOn DEF rows

\* A capability is issued for a writer that changes the directory no more; a stop
\* that failed issues none.
LEMMA StopReturned ==
    ASSUME CaptureInv, NEW h \in Hosts, WriterStopReturns(h)
    PROVE  CaptureInv'
<1> USE CaptureAssumption
<1>1. /\ writer \in [Hosts -> Writers] /\ writer[h] \in Writers
      /\ session.epoch \in 0 .. LastEpoch /\ session \in SessionRows
      /\ writer[h].a \in 1 .. session.epoch /\ writer[h].state = "stopping"
      /\ directory \in Directories /\ Still
  BY DEF CaptureInv, CaptureTyped, WriterOk, SessionRows, WriterStopReturns
<1>2. PICK e \in 0 .. LastEpoch : e = writer[h].a /\ e > 0 BY <1>1
<1>3. PICK d : d = Silenced(directory, e)
  OBVIOUS
<1>4. /\ d \in Directories /\ d.content = directory.content
      /\ d.live \in {0, session.epoch} /\ d.live # e
      /\ (d.live # directory.live => d.live = 0)
      /\ (d.live = 0 /\ session.epoch > 0 => d.still[session.epoch] = directory.content)
      /\ \A k \in 1 .. session.epoch : directory.live # k => d.still[k] = directory.still[k]
  BY <1>2, <1>3, SilencedDirectory
<1>5. /\ UNCHANGED <<minted, rows, published, advisory, inFlight, told>>
      /\ directory' \in {directory, d} /\ mishaps' \in Nat
  BY <1>2, <1>3 DEF WriterStopReturns, Mishap, CaptureInv, CaptureTyped
<1>6. PICK w \in Writers : /\ writer' = [writer EXCEPT ![h] = w]
                           /\ w.a = e /\ w.state # "none"
                           /\ w.state = "issued" => directory' = d
  <2>1. CASE directory' = d /\ writer' = [writer EXCEPT ![h] = issueCapability(h)]
    <3>1. PICK b \in BOOLEAN : b = TRUE
      OBVIOUS
    <3>2. PICK st \in WriterStates : st = "issued" BY DEF WriterStates
    <3>3. issueCapability(h) = [writer[h] EXCEPT !.established = b, !.state = st]
      BY <1>1, <3>1, <3>2 DEF issueCapability, Writers
    <3>4. /\ issueCapability(h) \in Writers /\ issueCapability(h).a = e
          /\ issueCapability(h).state = "issued"
      BY <1>1, <1>2, <3>2, <3>3 DEF Writers
    <3> QED BY <2>1, <3>4
  <2>2. CASE writer' = [writer EXCEPT ![h] = stopFailed(h)]
    <3>1. PICK b \in BOOLEAN : b = FALSE
      OBVIOUS
    <3>2. PICK st \in WriterStates : st = "stop-uncertain" BY DEF WriterStates
    <3>3. stopFailed(h) = [writer[h] EXCEPT !.established = b, !.state = st]
      BY <1>1, <3>1, <3>2 DEF stopFailed, Writers
    <3>4. /\ stopFailed(h) \in Writers /\ stopFailed(h).a = e
          /\ stopFailed(h).state = "stop-uncertain"
      BY <1>1, <1>2, <3>2, <3>3 DEF Writers
    <3> QED BY <2>2, <3>4
  <2> QED BY <1>2, <1>3, <2>1, <2>2 DEF WriterStopReturns
<1>7. session' = session /\ session.revision \in Nat /\ session.epoch \in Nat
  BY <1>1, <1>5 DEF rows, SessionRows
<1>8. ASSUME NEW k, Quiet(k) PROVE Quiet(k)' /\ directory'.still[k] = directory.still[k]
  BY <1>8, <1>7, <1>4, <1>5 DEF Quiet
<1>9. Grows BY <1>8, <1>7, <1>5 DEF Quiet, Grows, rows
<1>10. Still' BY <1>1, <1>4, <1>5, <1>7 DEF Still
<1>11. writer' \in [Hosts -> Writers] /\ \A g \in Hosts : WriterOk(g)' /\ Consumes(g)
  BY <1>1, <1>6, <1>7, <1>8, <1>2, <1>4 DEF CaptureInv, WriterOk, Consumes, Quiet
<1>12. /\ session' \in SessionRows /\ directory' \in Directories /\ minted' \in Nat
  BY <1>1, <1>4, <1>5, <1>7 DEF CaptureInv, CaptureTyped
<1> QED BY <1>5, <1>7, <1>9, <1>10, <1>11, <1>12, SessionGoesOn DEF rows

\* What a stop leaves prepared is a capture of a writer that has stopped.
LEMMA CaptureLeft ==
    ASSUME CaptureInv, NEW o \in Captures, StopLeavesCapture(o)
    PROVE  CaptureInv'
<1> USE CaptureAssumption
<1>1. /\ session \in SessionRows /\ session.epoch \in 0 .. LastEpoch
      /\ session.revision \in Nat /\ minted \in Nat
      /\ session.epoch > 0 /\ directory.live # session.epoch
      /\ session.active = NoOperation /\ operation[o] = NoRow /\ o \in Operations
  BY DEF CaptureInv, CaptureTyped, SessionRows, StopLeavesCapture, Operations
<1>2. PICK b \in BOOLEAN : b = TRUE
  OBVIOUS
<1>3. PICK e \in 0 .. LastEpoch, v \in Nat, n \in Nat, st \in RowStates :
        e = session.epoch /\ v = session.revision /\ n = minted + 1 /\ st = "prepared"
  BY <1>1 DEF RowStates
<1>4. NoRow \in Rows BY DEF NoRow, Rows, RowStates, Contents
<1>5. PICK row \in Rows : /\ row = [NoRow EXCEPT !.state = st, !.epoch = e, !.handoff = b,
                                                  !.base = v, !.attempt = n]
                          /\ row.state = "prepared" /\ row.epoch = session.epoch
  <2> DEFINE row == [NoRow EXCEPT !.state = st, !.epoch = e, !.handoff = b, !.base = v,
                                  !.attempt = n]
  <2>1. row \in Rows BY <1>4 DEF Rows
  <2>2. row.state = st /\ row.epoch = e BY <1>4 DEF Rows
  <2> QED BY <1>3, <2>1, <2>2
<1>6. Writes(o, row, o) BY <1>2, <1>3, <1>5 DEF StopLeavesCapture, Writes
<1>7. Follows(o, row, o) BY <1>1, <1>5 DEF Quiet, NoRow, Follows, UnderWay, Published
<1>8. /\ session' \in SessionRows /\ operation' \in [Operations -> Rows]
      /\ Grows /\ Still'
      /\ \A q \in Operations : RowOk(q)' /\ (told' = told => ToldOk(q)')
  BY <1>1, <1>6, <1>7, AppliedRows
<1>9. /\ UNCHANGED <<published, directory, advisory, inFlight, told, mishaps, writer>>
      /\ minted' = minted + 1
  BY DEF StopLeavesCapture, Mint
<1>10. CaptureTyped' BY <1>1, <1>8, <1>9 DEF CaptureInv, CaptureTyped
<1>11. session'.epoch = session.epoch BY <1>1, <1>6 DEF Writes, SessionRows
<1>12. \A h \in Hosts : WriterOk(h)' /\ inFlight'[h] = inFlight[h] /\ Consumes(h)
  BY <1>9, <1>11 DEF CaptureInv, WriterOk, Quiet, Consumes
<1> QED BY <1>8, <1>9, <1>10, <1>12, Carried

-----------------------------------------------------------------------------
(* The invariant, and what follows of it. *)

LEMMA CaptureStarts == CaptureInit => CaptureInv
<1> USE CaptureAssumption
<1> SUFFICES ASSUME CaptureInit PROVE CaptureInv
  OBVIOUS
<1>1. NoRow \in Rows /\ NoRow.state = "absent" /\ NoRow.content = Unknown
  BY DEF NoRow, Rows, RowStates, Contents
<1>2. NoPublication \in Publications /\ NoPublication.state = "none"
  BY DEF NoPublication, Publications, Contents
<1>3. NoWriter \in Writers /\ NoWriter.state = "none" BY DEF NoWriter, Writers, WriterStates
<1>4. NotRunning \in Visits /\ \A h : Fits(h, NotRunning) BY IdleFits
<1>5. session \in SessionRows BY DEF CaptureInit, SessionRows
<1>6. directory \in Directories BY DEF CaptureInit, Directories, Contents
<1>7. /\ operation \in [Operations -> Rows] /\ published \in [Operations -> Publications]
      /\ advisory \in [Operations -> Hosts \cup {Nowhere}]
      /\ inFlight \in [Hosts -> Visits] /\ writer \in [Hosts -> Writers]
      /\ told \in [Operations -> Contents]
  BY <1>1, <1>2, <1>3, <1>4 DEF CaptureInit, CapabilityInit, Contents
<1>8. CaptureTyped BY <1>5, <1>6, <1>7 DEF CaptureInit, CaptureTyped
<1>9. Still BY DEF CaptureInit, Still
<1>10. \A h \in Hosts : WriterOk(h) /\ Fits(h, inFlight[h])
  BY <1>3 DEF CaptureInit, CapabilityInit, WriterOk, NotRunning, Fits
<1>11. \A o \in Operations : RowOk(o) /\ ToldOk(o)
  BY <1>1, <1>2 DEF CaptureInit, RowOk, ToldOk, UnderWay, Published
<1> QED BY <1>8, <1>9, <1>10, <1>11 DEF CaptureInv

LEMMA ClaimsKeep ==
    ASSUME CaptureInv, NEW h \in Hosts, claimCapture(h) \/ claimPreparedCapture(h)
    PROVE  CaptureInv'
BY Claimed DEF Free, claimCapture, Running, claimPreparedCapture

LEMMA StepsKeep ==
    ASSUME CaptureInv, NEW h \in Hosts, CaptureStep(h)
    PROVE  CaptureInv'
<1>1. CASE invokeOperationGuard(h) \/ readSession(h) \/ reserveCapture(h)
  BY <1>1, GuardEntered, SessionRead, CaptureReserved
<1>2. CASE claimCapture(h) \/ claimPreparedCapture(h) BY <1>2, ClaimsKeep
<1>3. CASE readPreparedAttempt(h) \/ reconcilePrepared(h) \/ cancelPrepared(h) \/ readAttempt(h)
  BY <1>3, PreparedRead, PreparedReconciled, PreparedCancelled, AttemptRead
<1>4. CASE readRestore(h) \/ reserveRestore(h) \/ claimRestore(h) \/ readGenerationOptional(h)
  BY <1>4, RestoreRead, RestoreReserved, RestoreClaimed, GenerationRead
<1>5. CASE \/ publish(h) \/ verify(h) \/ finalize(h) \/ readback(h) \/ markUncertain(h)
           \/ probePrepared(h) \/ probeDispatched(h) \/ probeAttempt(h) \/ probePublished(h)
           \/ probeUnanswered(h)
  BY <1>5, PublishKeeps, Verified, FinalizeKeeps, ReadBack, MarkedUncertain, Probed
<1>6. CASE captureReturns(h, TRUE) \/ captureReturns(h, FALSE) BY <1>6, ReturnsKeeps
<1>7. CASE ReleaseFails(h) \/ GuardLost(h) \/ HostDies(h)
  BY <1>7, ReleaseFailed, GuardLostKeeps, HostDiesKeeps
<1> QED BY <1>1, <1>2, <1>3, <1>4, <1>5, <1>6, <1>7 DEF CaptureStep

LEMMA NextKeeps ==
    ASSUME CaptureInv, [CaptureNext]_captureVars
    PROVE  CaptureInv'
<1>1. ASSUME NEW h \in Hosts,
             AttachWriter(h) \/ BeginWriterStop(h) \/ WriterStopReturns(h) \/ WriterRetired(h)
      PROVE  CaptureInv'
  BY <1>1, WriterAttached, StopBegun, StopReturned, RetiredKeeps
<1>2. ASSUME NEW h \in Hosts, NEW o \in Captures, NEW e \in 0 .. LastEpoch,
             \/ \E place \in Places, class \in {"clean", "crash"} :
                  captureCheckpoint(h, o, place, e, class)
             \/ resumePreparedCheckpointCapture(h, o, e)
             \/ reconcileCheckpointCapture(h, o, e)
      PROVE  CaptureInv'
  BY CaptureRequested, BeginsKeeps, <1>2 DEF resumePreparedCheckpointCapture,
     reconcileCheckpointCapture
<1>3. CASE UNCHANGED captureVars
  BY <1>3 DEF captureVars, RowOk, ToldOk, Quiet, WriterOk, Fits, CaptureInv, CaptureTyped,
     Still
<1>4. ASSUME NEW h \in Hosts, NEW r \in Restores, NEW c \in Captures,
             NEW storage \in {"ours", "theirs"}, restoreCheckpoint(h, r, c, storage)
      PROVE  CaptureInv'
  BY <1>4, RestoreRequested
<1>5. ASSUME NEW h \in Hosts, CaptureStep(h) PROVE CaptureInv'
  BY <1>5, StepsKeep
<1>6. CASE \E o \in Captures : StopLeavesCapture(o) BY <1>6, CaptureLeft
<1>7. CASE WriterWrites \/ LeaseRunsOut BY <1>7, WriteKeeps, ExpiryKeeps
<1> QED BY <1>1, <1>2, <1>3, <1>4, <1>5, <1>6, <1>7 DEF CaptureNext

\* A call stands where the rows, the publications and its writer's record allow, a
\* row under way is the session's own, and a publication holds what the writer of
\* its epoch left, whatever is lost and whoever dies.
THEOREM CaptureInvariant == CaptureSpec => []CaptureInv
<1>1. CaptureInv /\ [CaptureNext]_captureVars => CaptureInv' BY NextKeeps
<1> QED BY <1>1, CaptureStarts, PTL DEF CaptureSpec

\* A checkpoint in the catalogue holds what its writer left when it stopped,
\* whatever writer has changed the directory since, and a restored generation holds
\* what its checkpoint holds (the publication, between the claim and the
\* finalization of every capture, resume, reconciliation and restore).
THEOREM CheckpointsAreStill == CaptureSpec => []CapturedIsStill
<1>1. CaptureInv => CapturedIsStill BY DEF CaptureInv, RowOk, CapturedIsStill, Operations
<1> QED BY <1>1, CaptureInvariant, PTL

\* Whoever was told that a checkpoint was captured or restored finds its row
\* committed with the content that was published, and what was cancelled was never
\* published (the readback after a lost answer, and the calls of other processes).
THEOREM CaptureIsTold == CaptureSpec => []CaptureToldTrue
<1>1. CaptureInv => CaptureToldTrue
  BY DEF CaptureInv, CaptureToldTrue, RowOk, ToldOk, Published
<1> QED BY <1>1, CaptureInvariant, PTL
-----------------------------------------------------------------------------
(* The ext4 image backend: types. *)

StorageRows == [life : Lives, rev : Nat, epoch : 0 .. MaxEpoch, root : 0 .. MaxEpoch]
OpKinds == {"provision", "attach", "restore-attach", "detach", "destroy"}
OpRows ==
    [phase : {"none", "prepared", "committed"}, kind : OpKinds \cup {"none"},
     storage : Storages \cup {"none"}, before : StorageRows, after : StorageRows]
Images == {"none", "blank", "ext4"}
Trees == [Roots -> 0 .. MaxTree]
Views == [image : Images, dir : BOOLEAN, control : BOOLEAN, tree : Trees]
Disks == [live : Views, kept : Views, loops : {0, 1}, mounted : BOOLEAN]

(* The programs of the driver, and what is left of each as it goes on. *)
P1 == <<FdOn("publication-root", 0)>>
P2 == <<Fd("observe-mount"), FdOn("publication-root", 0)>>
P3 == <<Fd("mount-ext4"), Fd("observe-mount"), FdOn("publication-root", 0)>>
P4 == <<Fd("attach-loop"), Fd("mount-ext4"), Fd("observe-mount"),
        FdOn("publication-root", 0)>>
P5 == <<Fd("create-directory"), Fd("attach-loop"), Fd("mount-ext4"), Fd("observe-mount"),
        FdOn("publication-root", 0)>>
P6 == <<Fd("format-ext4"), Fd("create-directory"), Fd("attach-loop"), Fd("mount-ext4"),
        Fd("observe-mount"), FdOn("publication-root", 0)>>
ProvisionTodos == {<<>>, P1, P2, P3, P4, P5, P6, provision}
ObservesMount == <<Fd("observe-mount")>>
MakesRoot == <<FdOn("attachment-root", DataRoot)>>
ObservesRoot(r) == <<FdOn("observe-root", r)>>
Syncs == <<Fd("syncfs")>>
Q1 == <<Fd("remove-directory")>>
Q2 == <<Fd("remove-file"), Fd("remove-directory")>>
Q3 == <<Fd("detach-loop"), Fd("remove-file"), Fd("remove-directory")>>
Q4 == <<Fd("unmount-ext4"), Fd("detach-loop"), Fd("remove-file"), Fd("remove-directory")>>
Q5 == <<Fd("syncfs"), Fd("unmount-ext4"), Fd("detach-loop"), Fd("remove-file"),
        Fd("remove-directory")>>
DestroyTodos == {<<>>, Q1, Q2, Q3, Q4, Q5}
R1 == <<FdOn("publication-root", 1)>>
R2 == <<Fd("observe-mount"), FdOn("publication-root", 1)>>
R3 == <<Fd("mount-ext4"), Fd("observe-mount"), FdOn("publication-root", 1)>>
R4 == <<Fd("attach-loop"), Fd("mount-ext4"), Fd("observe-mount"),
        FdOn("publication-root", 1)>>
R5 == <<Fd("find-loop"), Fd("attach-loop"), Fd("mount-ext4"), Fd("observe-mount"),
        FdOn("publication-root", 1)>>
F4 == <<Fd("find-loop"), Fd("mount-ext4"), Fd("observe-mount"),
        FdOn("publication-root", 1)>>
RemountTodos == {<<>>, R1, R2, R3, R4, R5, F4}
C1 == <<Fd("detach-loop")>>
C2 == <<Fd("unmount-ext4"), Fd("detach-loop")>>
C3 == <<Fd("syncfs"), Fd("unmount-ext4"), Fd("detach-loop")>>
QuiesceTodos == {<<>>, C1, C2, C3}
Todos == ProvisionTodos \cup DestroyTodos \cup {ObservesMount, MakesRoot, Syncs}
           \cup {ObservesRoot(r) : r \in 0 .. MaxEpoch + 2}

Courses ==
    [pc : {"idle", "queued", "driver", "commit"}, op : Ops \cup {NoOp},
     again : BOOLEAN, last : BOOLEAN, todo : Todos]
Openings ==
    [pc : {"no", "opening", "yes", "closing", "failed"}, left : SUBSET Storages,
     at : Storages \cup {"none"}, todo : RemountTodos \cup QuiesceTodos, hurt : BOOLEAN]

BackendTyped ==
    /\ ops \in [Ops -> OpRows] /\ storages \in [Storages -> StorageRows]
    /\ disk \in [Storages -> Disks] /\ call \in [Calls -> Courses]
    /\ open \in Openings /\ faults \in Nat

-----------------------------------------------------------------------------
(* What is on the host: d is the disk of a storage and st its record; idle, no  *)
(* operation is prepared on it, and doomed, the one that is destroys it.        *)

Base(d) == /\ d.live.image = "ext4" /\ d.live.dir /\ d.live.control
           /\ d.kept.image = "ext4" /\ d.kept.dir /\ d.kept.control
Dead(d) == /\ d.loops = 0 /\ ~d.mounted
           /\ d.live.image = "none" /\ ~d.live.dir /\ d.kept.image = "none" /\ ~d.kept.dir
Durable(d, r) == d.live.tree[r] # Absent /\ d.kept.tree[r] = d.live.tree[r]
Bare(d) == d.loops = 0 /\ ~d.mounted
Lived == {"provisioned", "attached", "detached"}

Hosted(d, st, idle, doomed) ==
    /\ d.mounted => /\ d.live.image = "ext4" /\ d.kept.image = "ext4"
                    /\ d.live.dir /\ d.kept.dir /\ d.loops = 1
    /\ st.life = "none" /\ idle => Bare(d)
    /\ st.life \in Lived =>
         /\ d.live.image = "ext4" => d.kept.image = "ext4"
         /\ d.live.dir => d.kept.dir
         /\ ~doomed => Base(d)
    /\ AtRest(st) /\ ~doomed /\ st.root # 0 => Durable(d, st.root)
    /\ st.life = "attached" => st.root # 0 /\ (d.mounted => d.live.tree[st.root] # Absent)
    /\ st.life = "destroyed" => Dead(d)

DiskOk(s) == Hosted(disk[s], storages[s], Pending(s) = {}, Destroying(s))

(* The record of an operation r, and the storage st it is of. *)
OpFits(r, st) ==
    /\ r.phase = "none" => r = NoRecord
    /\ r.phase # "none" => r.storage \in Storages /\ r.kind \in OpKinds
    /\ r.phase = "prepared" =>
         /\ st = r.before
         /\ r.kind = "provision" => r.before.life = "none"
         /\ r.kind \in {"attach", "restore-attach", "destroy"} => AtRest(r.before)
         /\ r.kind \in {"attach", "restore-attach"} => r.before.epoch < MaxEpoch
         /\ r.kind = "restore-attach" => r.before.epoch + 2 \in Roots
         /\ r.kind = "detach" => r.before.life = "attached"
    /\ r.phase = "committed" => st.life # "none"
OpOk(o) == OpFits(ops[o], storages[ops[o].storage])
OneEach ==
    \A o, q \in Ops : /\ ops[o].phase = "prepared" /\ ops[q].phase = "prepared"
                      /\ ops[o].storage = ops[q].storage
                      => o = q

(* A call m of the operation that r records. *)
Active(m) == m.pc # "idle"
First(m, r) == /\ m.pc \in {"queued", "driver"} /\ r.kind = "provision"
               /\ ~m.again /\ ~m.last
Past(m) == m.last \/ m.pc = "commit" \/ (m.pc = "driver" /\ m.todo = <<>>)
Over(m) == m.pc = "commit" \/ (m.pc = "driver" /\ m.last /\ m.todo = <<>>)
NewRoot(r) ==
    IF r.kind = "attach" THEN IF r.before.root = 0 THEN DataRoot ELSE r.before.root
                         ELSE r.before.epoch + 2

(* What is left of the program of its driver call. *)
OnCourse(m, r) ==
    /\ r.kind = "provision" /\ m.last => m.todo \in {<<>>, P1}
    /\ r.kind = "provision" /\ ~m.last /\ m.again => m.todo \in {<<>>, ObservesMount}
    /\ r.kind = "provision" /\ ~m.last /\ ~m.again => m.todo \in ProvisionTodos
    /\ r.kind = "attach" =>
         m.todo \in {<<>>, IF r.before.root = 0 THEN MakesRoot ELSE ObservesRoot(r.before.root)}
    /\ r.kind = "restore-attach" => m.todo \in {<<>>, ObservesRoot(NewRoot(r))}
    /\ r.kind = "detach" => m.todo \in {<<>>, Syncs}
    /\ r.kind = "destroy" => m.todo \in DestroyTodos

(* How far a first provision has come. *)
Built(m, d) ==
    /\ m.pc = "queued" => Bare(d)
    /\ m.pc = "driver" =>
         /\ Len(m.todo) >= 3 => ~d.mounted
         /\ Len(m.todo) >= 4 => d.loops = 0
         /\ Len(m.todo) = 3 => d.loops = 1
         /\ Len(m.todo) <= 5 => d.live.image = "ext4" /\ d.kept.image = "ext4"
         /\ Len(m.todo) <= 4 => d.live.dir /\ d.kept.dir

(* What a call is about to commit. *)
Achieved(r, d) ==
    /\ r.kind = "provision" => Base(d)
    /\ r.kind \in {"attach", "restore-attach"} => d.live.tree[NewRoot(r)] # Absent
    /\ r.kind = "detach" => Durable(d, r.before.root)
    /\ r.kind = "destroy" => Dead(d)

CallFits(m, r, d) ==
    Active(m) =>
      /\ r.phase # "none"
      /\ r.kind # "provision" => m.last
      /\ m.pc = "commit" => m.last
      /\ r.kind \in {"detach", "destroy"} => r.phase = "prepared"
      /\ m.pc = "driver" => OnCourse(m, r)
      /\ First(m, r) => r.phase = "prepared" /\ Built(m, d)
      /\ r.kind = "destroy" /\ m.pc = "driver" /\ m.todo = Q1 =>
           d.live.image = "none" /\ d.kept.image = "none" /\ d.loops = 0
      /\ Over(m) /\ r.phase = "prepared" => Achieved(r, d)
CallOk(c) ==
    /\ ~Active(call[c]) => call[c] = NoCall
    /\ Active(call[c]) => call[c].op \in Ops
    /\ CallFits(call[c], ops[call[c].op], disk[ops[call[c].op].storage])

(* Two calls: m of the operation that r records, n of the one that q does. *)
Apart(m, r, n, q) ==
    Active(m) /\ Active(n) =>
      /\ m.op = n.op => /\ ~(First(m, r) /\ (First(n, q) \/ Past(n)))
                        /\ r.kind \notin {"detach", "destroy"}
      /\ ~(m.pc = "driver" /\ n.pc = "driver" /\ r.storage = q.storage)
PairOk(b, c) == b # c => Apart(call[b], ops[call[b].op], call[c], ops[call[c].op])

(* The opening of one storage, of which d is the disk and todo is to be done. *)
Remounts(d, todo) ==
    /\ todo \in RemountTodos
    /\ todo \in {R5, R4} => d.loops = 0
    /\ todo \in {F4, R3} => d.loops = 1
    /\ todo \in {R5, R4, F4, R3} => ~d.mounted
    /\ todo \in {R2, R1, <<>>} => d.mounted

OpenOk ==
    /\ open.pc # "yes" => \A c \in Calls : call[c] = NoCall
    /\ open.pc \in {"opening", "closing"} =>
         \A s \in open.left : storages[s].life \in Lived
    /\ open.at = "none" => open.todo = <<>>
    /\ open.at # "none" =>
         \/ /\ open.pc = "opening" /\ open.at \in open.left /\ AtRest(storages[open.at])
            /\ Remounts(disk[open.at], open.todo)
         \/ open.pc = "closing" /\ open.todo \in QuiesceTodos

BackendInv ==
    /\ BackendTyped
    /\ \A o \in Ops : OpOk(o)
    /\ OneEach
    /\ \A s \in Storages : DiskOk(s)
    /\ \A c \in Calls : CallOk(c)
    /\ \A b, c \in Calls : PairOk(b, c)
    /\ OpenOk
    /\ OpensUnlessCut

-----------------------------------------------------------------------------
(* Programs: what an invocation is of, and what is left after it. *)

LEMMA ProvisionGoesOn ==
    /\ Len(provision) = 7 /\ Head(provision) = Fd("create-image") /\ Tail(provision) = P6
    /\ Len(P6) = 6 /\ Head(P6) = Fd("format-ext4") /\ Tail(P6) = P5
    /\ Len(P5) = 5 /\ Head(P5) = Fd("create-directory") /\ Tail(P5) = P4
    /\ Len(P4) = 4 /\ Head(P4) = Fd("attach-loop") /\ Tail(P4) = P3
    /\ Len(P3) = 3 /\ Head(P3) = Fd("mount-ext4") /\ Tail(P3) = P2
    /\ Len(P2) = 2 /\ Head(P2) = Fd("observe-mount") /\ Tail(P2) = P1
    /\ Len(P1) = 1 /\ Head(P1) = FdOn("publication-root", 0) /\ Tail(P1) = <<>>
    /\ Len(<<>>) = 0
BY DEF provision, P6, P5, P4, P3, P2, P1

LEMMA DestroyGoesOn ==
    /\ Head(Q5) = Fd("syncfs") /\ Tail(Q5) = Q4
    /\ Head(Q4) = Fd("unmount-ext4") /\ Tail(Q4) = Q3
    /\ Head(Q3) = Fd("detach-loop") /\ Tail(Q3) = Q2
    /\ Head(Q2) = Fd("remove-file") /\ Tail(Q2) = Q1
    /\ Head(Q1) = Fd("remove-directory") /\ Tail(Q1) = <<>>
    /\ Len(Q5) = 5 /\ Len(Q4) = 4 /\ Len(Q3) = 3 /\ Len(Q2) = 2 /\ Len(Q1) = 1
BY DEF Q5, Q4, Q3, Q2, Q1

LEMMA ObservationGoesOn ==
    /\ Head(ObservesMount) = Fd("observe-mount") /\ Tail(ObservesMount) = <<>>
    /\ Head(MakesRoot) = FdOn("attachment-root", DataRoot) /\ Tail(MakesRoot) = <<>>
    /\ Head(Syncs) = Fd("syncfs") /\ Tail(Syncs) = <<>>
    /\ \A r : /\ Head(ObservesRoot(r)) = FdOn("observe-root", r)
              /\ Tail(ObservesRoot(r)) = <<>> /\ Len(ObservesRoot(r)) = 1
    /\ Len(ObservesMount) = 1 /\ Len(MakesRoot) = 1 /\ Len(Syncs) = 1
  BY DEF ObservesMount, MakesRoot, Syncs, ObservesRoot

LEMMA RemountGoesOn ==
    /\ Head(R5) = Fd("find-loop") /\ Tail(R5) = R4
    /\ Head(R4) = Fd("attach-loop") /\ Tail(R4) = R3
    /\ Head(F4) = Fd("find-loop") /\ Tail(F4) = R3
    /\ Head(R3) = Fd("mount-ext4") /\ Tail(R3) = R2
    /\ Head(R2) = Fd("observe-mount") /\ Tail(R2) = R1
    /\ Head(R1) = FdOn("publication-root", 1) /\ Tail(R1) = <<>>
    /\ Len(R5) = 5 /\ Len(R4) = 4 /\ Len(F4) = 4 /\ Len(R3) = 3 /\ Len(R2) = 2 /\ Len(R1) = 1
    /\ F4 # R4
BY DEF R5, R4, R3, F4, R2, R1, Fd

LEMMA QuiesceGoesOn ==
    /\ Head(C3) = Fd("syncfs") /\ Tail(C3) = C2
    /\ Head(C2) = Fd("unmount-ext4") /\ Tail(C2) = C1
    /\ Head(C1) = Fd("detach-loop") /\ Tail(C1) = <<>>
    /\ Len(C3) = 3 /\ Len(C2) = 2 /\ Len(C1) = 1
BY DEF C3, C2, C1

LEMMA Joined ==
    ASSUME NEW S, NEW s \in Seq(S), NEW t \in Seq(S), NEW u \in Seq(S),
           Len(u) = Len(s) + Len(t),
           \A i \in 1 .. Len(s) : u[i] = s[i], \A i \in 1 .. Len(t) : u[Len(s) + i] = t[i]
    PROVE  s \o t = u
<1>1. /\ s \o t \in Seq(S) /\ Len(s \o t) = Len(s) + Len(t)
      /\ \A i \in 1 .. Len(s) + Len(t) :
           (s \o t)[i] = IF i <= Len(s) THEN s[i] ELSE t[i - Len(s)]
  BY ConcatProperties
<1>2. Len(s) \in Nat /\ Len(t) \in Nat BY LenProperties
<1>3. ASSUME NEW i \in 1 .. Len(s) + Len(t) PROVE (s \o t)[i] = u[i]
  <2>1. CASE i <= Len(s) BY <1>1, <1>2, <2>1
  <2>2. CASE ~(i <= Len(s))
    <3>1. PICK j \in 1 .. Len(t) : i = Len(s) + j /\ j = i - Len(s)
      <4>1. i - Len(s) \in 1 .. Len(t) /\ i = Len(s) + (i - Len(s)) BY <1>2, <2>2
      <4> QED BY <4>1
    <3> QED BY <1>1, <2>2, <3>1
  <2> QED BY <2>1, <2>2
<1> QED BY <1>1, <1>3, SeqEqual

LEMMA OneAndOne ==
    ASSUME NEW S, NEW a \in S, NEW b \in S
    PROVE  <<a>> \o <<b>> = <<a, b>>
<1>1. PICK s \in Seq(S), t \in Seq(S), u \in Seq(S) :
        s = <<a>> /\ t = <<b>> /\ u = <<a, b>>
  <2>1. <<a>> \in Seq(S) /\ <<b>> \in Seq(S) /\ <<a, b>> \in Seq(S)
    OBVIOUS
  <2> QED BY <2>1, Zenon
<1>2. s \in Seq(S) /\ t \in Seq(S) /\ u \in Seq(S) BY <1>1
<1>3. Len(s) = 1 /\ Len(t) = 1 /\ Len(u) = 2 BY <1>1
<1>4. s[1] = a /\ t[1] = b BY <1>1
<1>5. u[1] = a /\ u[2] = b BY <1>1
<1>6. Len(u) = Len(s) + Len(t) BY <1>3
<1>7. \A i \in 1 .. Len(s) : u[i] = s[i] BY <1>3, <1>4, <1>5
<1>8. \A i \in 1 .. Len(t) : u[Len(s) + i] = t[i] BY <1>3, <1>4, <1>5
<1>9. s \o t = u BY <1>2, <1>6, <1>7, <1>8, Joined, Zenon
<1> QED BY <1>1, <1>9

LEMMA OneAndTwo ==
    ASSUME NEW S, NEW a \in S, NEW b \in S, NEW c \in S
    PROVE  <<a>> \o <<b, c>> = <<a, b, c>>
<1>1. PICK s \in Seq(S), t \in Seq(S), u \in Seq(S) :
        s = <<a>> /\ t = <<b, c>> /\ u = <<a, b, c>>
  <2>1. <<a>> \in Seq(S) /\ <<b, c>> \in Seq(S) /\ <<a, b, c>> \in Seq(S)
    OBVIOUS
  <2> QED BY <2>1, Zenon
<1>2. s \in Seq(S) /\ t \in Seq(S) /\ u \in Seq(S) BY <1>1
<1>3. Len(s) = 1 /\ Len(t) = 2 /\ Len(u) = 3 BY <1>1
<1>4. s[1] = a /\ t[1] = b /\ t[2] = c BY <1>1
<1>5. u[1] = a /\ u[2] = b /\ u[3] = c BY <1>1
<1>6. Len(u) = Len(s) + Len(t) BY <1>3
<1>7. \A i \in 1 .. Len(s) : u[i] = s[i] BY <1>3, <1>4, <1>5
<1>8. \A i \in 1 .. Len(t) : u[Len(s) + i] = t[i] BY <1>3, <1>4, <1>5
<1>9. s \o t = u BY <1>2, <1>6, <1>7, <1>8, Joined, Zenon
<1> QED BY <1>1, <1>9

LEMMA OneAndThree ==
    ASSUME NEW S, NEW a \in S, NEW b \in S, NEW c \in S, NEW d \in S
    PROVE  <<a>> \o <<b, c, d>> = <<a, b, c, d>>
<1>1. PICK s \in Seq(S), t \in Seq(S), u \in Seq(S) :
        s = <<a>> /\ t = <<b, c, d>> /\ u = <<a, b, c, d>>
  <2>1. <<a>> \in Seq(S) /\ <<b, c, d>> \in Seq(S) /\ <<a, b, c, d>> \in Seq(S)
    OBVIOUS
  <2> QED BY <2>1, Zenon
<1>2. s \in Seq(S) /\ t \in Seq(S) /\ u \in Seq(S) BY <1>1
<1>3. Len(s) = 1 /\ Len(t) = 3 /\ Len(u) = 4 BY <1>1
<1>4. s[1] = a /\ t[1] = b /\ t[2] = c /\ t[3] = d BY <1>1
<1>5. u[1] = a /\ u[2] = b /\ u[3] = c /\ u[4] = d BY <1>1
<1>6. Len(u) = Len(s) + Len(t) BY <1>3
<1>7. \A i \in 1 .. Len(s) : u[i] = s[i] BY <1>3, <1>4, <1>5
<1>8. \A i \in 1 .. Len(t) : u[Len(s) + i] = t[i] BY <1>3, <1>4, <1>5
<1>9. s \o t = u BY <1>2, <1>6, <1>7, <1>8, Joined, Zenon
<1> QED BY <1>1, <1>9

LEMMA TwoAndThree ==
    ASSUME NEW S, NEW a \in S, NEW b \in S, NEW c \in S, NEW d \in S, NEW e \in S
    PROVE  <<a, b>> \o <<c, d, e>> = <<a, b, c, d, e>>
<1>1. PICK s \in Seq(S), t \in Seq(S), u \in Seq(S) :
        s = <<a, b>> /\ t = <<c, d, e>> /\ u = <<a, b, c, d, e>>
  <2>1. <<a, b>> \in Seq(S) /\ <<c, d, e>> \in Seq(S) /\ <<a, b, c, d, e>> \in Seq(S)
    OBVIOUS
  <2> QED BY <2>1, Zenon
<1>2. s \in Seq(S) /\ t \in Seq(S) /\ u \in Seq(S) BY <1>1
<1>3. Len(s) = 2 /\ Len(t) = 3 /\ Len(u) = 5 BY <1>1
<1>4. s[1] = a /\ s[2] = b /\ t[1] = c /\ t[2] = d /\ t[3] = e BY <1>1
<1>5. u[1] = a /\ u[2] = b /\ u[3] = c /\ u[4] = d /\ u[5] = e BY <1>1
<1>6. Len(u) = Len(s) + Len(t) BY <1>3
<1>7. \A i \in 1 .. Len(s) : u[i] = s[i] BY <1>3, <1>4, <1>5
<1>8. \A i \in 1 .. Len(t) : u[Len(s) + i] = t[i] BY <1>3, <1>4, <1>5
<1>9. s \o t = u BY <1>2, <1>6, <1>7, <1>8, Joined, Zenon
<1> QED BY <1>1, <1>9

LEMMA ThreeAndTwo ==
    ASSUME NEW S, NEW a \in S, NEW b \in S, NEW c \in S, NEW d \in S, NEW e \in S
    PROVE  <<a, b, c>> \o <<d, e>> = <<a, b, c, d, e>>
<1>1. PICK s \in Seq(S), t \in Seq(S), u \in Seq(S) :
        s = <<a, b, c>> /\ t = <<d, e>> /\ u = <<a, b, c, d, e>>
  <2>1. <<a, b, c>> \in Seq(S) /\ <<d, e>> \in Seq(S) /\ <<a, b, c, d, e>> \in Seq(S)
    OBVIOUS
  <2> QED BY <2>1, Zenon
<1>2. s \in Seq(S) /\ t \in Seq(S) /\ u \in Seq(S) BY <1>1
<1>3. Len(s) = 3 /\ Len(t) = 2 /\ Len(u) = 5 BY <1>1
<1>4. s[1] = a /\ s[2] = b /\ s[3] = c /\ t[1] = d /\ t[2] = e BY <1>1
<1>5. u[1] = a /\ u[2] = b /\ u[3] = c /\ u[4] = d /\ u[5] = e BY <1>1
<1>6. Len(u) = Len(s) + Len(t) BY <1>3
<1>7. \A i \in 1 .. Len(s) : u[i] = s[i] BY <1>3, <1>4, <1>5
<1>8. \A i \in 1 .. Len(t) : u[Len(s) + i] = t[i] BY <1>3, <1>4, <1>5
<1>9. s \o t = u BY <1>2, <1>6, <1>7, <1>8, Joined, Zenon
<1> QED BY <1>1, <1>9

\* The programs that a driver call starts from.
LEMMA RemountStarts ==
    ASSUME NEW d
    PROVE  /\ d.loops = 0 => remount(d) = R5
           /\ d.loops # 0 => remount(d) = F4
<1> DEFINE f == Fd("find-loop")
           a == Fd("attach-loop")
           m == Fd("mount-ext4")
           o == Fd("observe-mount")
           p == FdOn("publication-root", 1)
           S == {f, a, m, o, p}
<1>1. f \in S /\ a \in S /\ m \in S /\ o \in S /\ p \in S
  OBVIOUS
<1>2. d.loops = 0 => remount(d) = (<<f>> \o <<a>>) \o <<m, o, p>>
  BY DEF remount, loopsForImage
<1>3. d.loops # 0 => remount(d) = (<<f>> \o <<>>) \o <<m, o, p>>
  BY DEF remount, loopsForImage
<1>4. R5 = <<f, a, m, o, p>> /\ F4 = <<f, m, o, p>> BY DEF R5, F4
<1> HIDE DEF f, a, m, o, p, S
<1>5. <<f>> \o <<a>> = <<f, a>> BY <1>1, OneAndOne, Zenon
<1>6. <<f, a>> \o <<m, o, p>> = <<f, a, m, o, p>> BY <1>1, TwoAndThree
<1>7. <<f>> \o <<m, o, p>> = <<f, m, o, p>> BY <1>1, OneAndThree, ZenonT(40)
<1>8. <<f>> \o <<>> = <<f>> BY <1>1, ConcatEmptySeq
<1>9. d.loops = 0 => remount(d) = R5 BY <1>2, <1>4, <1>5, <1>6, Zenon
<1>10. d.loops # 0 => remount(d) = F4 BY <1>3, <1>4, <1>7, <1>8, Zenon
<1> QED BY <1>9, <1>10

LEMMA DestroyStarts ==
    ASSUME NEW d \in Disks
    PROVE  quiesce(d) \in QuiesceTodos /\ destroy(d) \in DestroyTodos \ {<<>>, Q1}
<1> DEFINE y == Fd("syncfs")
           u == Fd("unmount-ext4")
           l == Fd("detach-loop")
           f == Fd("remove-file")
           r == Fd("remove-directory")
           S == {y, u, l, f, r}
<1>1. y \in S /\ u \in S /\ l \in S /\ f \in S /\ r \in S
  OBVIOUS
<1>2. Q5 \notin {<<>>, Q1} /\ Q3 \notin {<<>>, Q1} /\ Q2 \notin {<<>>, Q1}
  <2>1. Len(<<>>) = 0 /\ Len(Q5) = 5 /\ Len(Q3) = 3 /\ Len(Q2) = 2 /\ Len(Q1) = 1
    BY DestroyGoesOn, ProvisionGoesOn
  <2>2. /\ Len(Q5) # Len(<<>>) /\ Len(Q3) # Len(<<>>) /\ Len(Q2) # Len(<<>>)
        /\ Len(Q5) # Len(Q1) /\ Len(Q3) # Len(Q1) /\ Len(Q2) # Len(Q1)
    BY <2>1
  <2> QED BY <2>2, Zenon
<1>3. d.mounted \in BOOLEAN BY DEF Disks
<1>4. CASE d.mounted
  <2>1. quiesce(d) = <<y, u, l>> BY <1>4 DEF quiesce, readMountEvidence, quiesceMounted
  <2>2. destroy(d) = quiesce(d) \o <<f, r>> BY DEF destroy
  <2>3. C3 = <<y, u, l>> /\ Q5 = <<y, u, l, f, r>> BY DEF C3, Q5
  <2> HIDE DEF y, u, l, f, r, S
  <2>4. <<y, u, l>> \o <<f, r>> = <<y, u, l, f, r>> BY <1>1, ThreeAndTwo
  <2>5. quiesce(d) = C3 /\ destroy(d) = Q5 BY <2>1, <2>2, <2>3, <2>4, Zenon
  <2> QED BY <1>2, <2>5 DEF QuiesceTodos, DestroyTodos
<1>5. CASE ~d.mounted /\ d.loops = 0
  <2>1. quiesce(d) = <<>>
    BY <1>5 DEF quiesce, readMountEvidence, quiesceUnmounted, loopsForImage
  <2>2. destroy(d) = quiesce(d) \o <<f, r>> BY DEF destroy
  <2>3. Q2 = <<f, r>> BY DEF Q2
  <2>4. <<f, r>> \in Seq(S)
    OBVIOUS
  <2> HIDE DEF y, u, l, f, r, S
  <2>5. <<>> \o <<f, r>> = <<f, r>> BY <2>4, ConcatEmptySeq, Zenon
  <2>6. destroy(d) = Q2 BY <2>1, <2>2, <2>3, <2>5, Zenon
  <2> QED BY <1>2, <2>1, <2>6 DEF QuiesceTodos, DestroyTodos
<1>6. CASE ~d.mounted /\ d.loops # 0
  <2>1. quiesce(d) = <<l>>
    BY <1>6 DEF quiesce, readMountEvidence, quiesceUnmounted, loopsForImage
  <2>2. destroy(d) = quiesce(d) \o <<f, r>> BY DEF destroy
  <2>3. C1 = <<l>> /\ Q3 = <<l, f, r>> BY DEF C1, Q3
  <2> HIDE DEF y, u, l, f, r, S
  <2>4. <<l>> \o <<f, r>> = <<l, f, r>> BY <1>1, OneAndTwo, Zenon
  <2>5. quiesce(d) = C1 /\ destroy(d) = Q3 BY <2>1, <2>2, <2>3, <2>4, Zenon
  <2> QED BY <1>2, <2>5 DEF QuiesceTodos, DestroyTodos
<1> QED BY <1>3, <1>4, <1>5, <1>6

-----------------------------------------------------------------------------
(* What a helper invocation leaves on the host. *)

Unsynced(g, d) == [g EXCEPT !.kept = d.kept]

\* What of a disk an invocation may leave alone.
SameImage(g, d) == g.live.image = d.live.image /\ g.kept.image = d.kept.image
SameDir(g, d) == g.live.dir = d.live.dir /\ g.kept.dir = d.kept.dir
SameTree(g, d) == g.live.tree = d.live.tree /\ g.kept.tree = d.kept.tree
SameControl(g, d) == g.live.control = d.live.control /\ g.kept.control = d.kept.control
SameMount(g, d) == g.loops = d.loops /\ g.mounted = d.mounted
SameContent(g, d) == SameTree(g, d) /\ SameControl(g, d)

LEMMA UnsyncedFields ==
    ASSUME NEW d \in Disks, NEW g \in Disks
    PROVE  /\ Unsynced(g, d) \in Disks /\ Unsynced(g, d).live = g.live
           /\ Unsynced(g, d).kept = d.kept /\ SameMount(Unsynced(g, d), g)
           /\ g = d => Unsynced(g, d) = d
BY DEF Unsynced, Disks, SameMount

LEMMA PartlyIs ==
    ASSUME NEW d \in Disks, NEW f, NEW e \in Partly(d, f)
    PROVE  \/ e = d
           \/ \E g \in invokeFdOperation(d, f) : e = g \/ e = Unsynced(g, d)
  BY DEF Partly, Unsynced

LEMMA ImageCreated ==
    ASSUME NEW d \in Disks, NEW g \in createImage(d)
    PROVE  /\ g \in Disks /\ d.live.image = "none"
           /\ SameDir(g, d) /\ SameContent(g, d) /\ SameMount(g, d)
<1>1. /\ d.live.image = "none"
      /\ g = [d EXCEPT !.live.image = "blank", !.kept.image = "blank"]
  BY DEF createImage, openImageAuthority
<1>2. PICK i \in Images : i = "blank" BY DEF Images
<1>3. g = [d EXCEPT !.live.image = i, !.kept.image = i] BY <1>1, <1>2
<1>4. g \in Disks BY <1>3 DEF Disks, Views
<1> QED BY <1>1, <1>3, <1>4 DEF Disks, Views, SameDir, SameContent, SameTree, SameControl,
  SameMount

LEMMA ImageFormatted ==
    ASSUME NEW d \in Disks, NEW g \in formatExt4(d)
    PROVE  /\ g \in Disks /\ g.live.image = "ext4" /\ g.kept.image = "ext4"
           /\ SameDir(g, d) /\ SameContent(g, d) /\ SameMount(g, d)
<1>1. g = [d EXCEPT !.live.image = "ext4", !.kept.image = "ext4"] BY DEF formatExt4
<1>2. PICK i \in Images : i = "ext4" BY DEF Images
<1>3. g = [d EXCEPT !.live.image = i, !.kept.image = i] BY <1>1, <1>2
<1>4. g \in Disks BY <1>3 DEF Disks, Views
<1> QED BY <1>2, <1>3, <1>4 DEF Disks, Views, SameDir, SameContent, SameTree, SameControl,
  SameMount

LEMMA PathCreated ==
    ASSUME NEW d \in Disks, NEW g \in createMountPath(d)
    PROVE  /\ g \in Disks /\ ~d.live.dir /\ g.live.dir /\ g.kept.dir
           /\ SameImage(g, d) /\ SameContent(g, d) /\ SameMount(g, d)
<1>1. ~d.live.dir /\ g = [d EXCEPT !.live.dir = TRUE, !.kept.dir = TRUE]
  BY DEF createMountPath
<1>2. PICK b \in BOOLEAN : b = TRUE
  OBVIOUS
<1>3. g = [d EXCEPT !.live.dir = b, !.kept.dir = b] BY <1>1, <1>2
<1>4. g \in Disks BY <1>3 DEF Disks, Views
<1>5. /\ g.live.dir = b /\ g.kept.dir = b
      /\ SameImage(g, d) /\ SameContent(g, d) /\ SameMount(g, d)
  BY <1>3, <1>4 DEF Disks, Views, SameImage, SameContent, SameTree, SameControl, SameMount
<1> QED BY <1>1, <1>2, <1>4, <1>5

LEMMA LoopAttached ==
    ASSUME NEW d \in Disks, NEW g \in attachLoop(d), d.loops = 0
    PROVE  /\ g \in Disks /\ g.loops = 1 /\ g.live = d.live /\ g.kept = d.kept
           /\ g.mounted = d.mounted
BY DEF attachLoop, Disks

LEMMA Ext4Mounted ==
    ASSUME NEW d \in Disks, NEW g \in mountExt4(d)
    PROVE  /\ g \in Disks /\ d.live.image = "ext4" /\ d.live.dir /\ ~d.mounted
           /\ d.loops # 0 /\ g.mounted
           /\ g.live = d.live /\ g.kept = d.kept /\ g.loops = d.loops
BY DEF mountExt4, openDirectoryAuthority, Disks

LEMMA PublicationRooted ==
    ASSUME NEW d \in Disks, NEW expected, NEW g \in ensurePublicationRoot(d, expected)
    PROVE  /\ g \in Disks /\ observeMount(d) /\ g.live.control /\ g.kept.control
           /\ SameImage(g, d) /\ SameDir(g, d) /\ SameTree(g, d) /\ SameMount(g, d)
<1>1. /\ observeMount(d)
      /\ g = [d EXCEPT !.live.control = TRUE, !.kept.control = TRUE]
  BY DEF ensurePublicationRoot
<1>2. PICK b \in BOOLEAN : b = TRUE
  OBVIOUS
<1>3. g = [d EXCEPT !.live.control = b, !.kept.control = b] BY <1>1, <1>2
<1>4. g \in Disks BY <1>3 DEF Disks, Views
<1>5. /\ g.live.control = b /\ g.kept.control = b
      /\ SameImage(g, d) /\ SameDir(g, d) /\ SameTree(g, d) /\ SameMount(g, d)
  BY <1>3, <1>4 DEF Disks, Views, SameImage, SameDir, SameTree, SameMount
<1> QED BY <1>1, <1>2, <1>4, <1>5

\* A root that is new is empty and durable.
LEMMA RootMade ==
    ASSUME NEW d \in Disks, NEW r \in Roots, NEW g \in ensureAttachmentRoot(d, r)
    PROVE  /\ g \in Disks /\ observeMount(d) /\ g.live.tree[r] # Absent
           /\ \A q \in Roots : d.live.tree[q] # Absent => /\ g.live.tree[q] = d.live.tree[q]
                                                         /\ g.kept.tree[q] = d.kept.tree[q]
           /\ SameImage(g, d) /\ SameDir(g, d) /\ SameControl(g, d) /\ SameMount(g, d)
<1>1. observeMount(d) BY DEF ensureAttachmentRoot
<1>2. CASE d.live.tree[r] = Absent
  <2>1. g = [d EXCEPT !.live.tree[r] = 1, !.kept.tree[r] = 1]
    BY <1>1, <1>2 DEF ensureAttachmentRoot, Absent
  <2>2. PICK t \in 0 .. MaxTree : t = 1 BY ImageDriverAssumption
  <2>3. /\ d.live \in Views /\ d.kept \in Views
        /\ d.live.tree \in [Roots -> 0 .. MaxTree] /\ d.kept.tree \in [Roots -> 0 .. MaxTree]
    BY DEF Disks, Views, Trees
  <2>4. PICK l \in Trees, k \in Trees :
          l = [d.live.tree EXCEPT ![r] = 1] /\ k = [d.kept.tree EXCEPT ![r] = 1]
    BY <2>3, <2>2 DEF Trees
  <2>5. g = [d EXCEPT !.live.tree = l, !.kept.tree = k] BY <2>1, <2>3, <2>4 DEF Disks, Views
  <2>6. g \in Disks BY <2>5 DEF Disks, Views
  <2>7. /\ g.live.tree = l /\ g.kept.tree = k
        /\ SameImage(g, d) /\ SameDir(g, d) /\ SameControl(g, d) /\ SameMount(g, d)
    BY <2>5, <2>6 DEF Disks, Views, SameImage, SameDir, SameControl, SameMount
  <2>8. /\ l[r] # Absent
        /\ \A q \in Roots : d.live.tree[q] # Absent =>
             l[q] = d.live.tree[q] /\ k[q] = d.kept.tree[q]
    BY <1>2, <2>3, <2>4 DEF Absent
  <2> QED BY <1>1, <2>6, <2>7, <2>8
<1>3. CASE d.live.tree[r] # Absent
  BY <1>1, <1>3 DEF ensureAttachmentRoot, Absent, SameImage, SameDir, SameControl, SameMount
<1> QED BY <1>2, <1>3

LEMMA SyncedFields ==
    ASSUME NEW d \in Disks
    PROVE  /\ syncfs(d) \in Disks /\ syncfs(d).live = d.live
           /\ SameImage(syncfs(d), d) /\ SameDir(syncfs(d), d) /\ SameMount(syncfs(d), d)
           /\ syncfs(d).kept.control = d.live.control /\ syncfs(d).kept.tree = d.live.tree
BY DEF syncfs, Disks, Views, SameImage, SameDir, SameMount

LEMMA Synced ==
    ASSUME NEW d \in Disks, NEW g \in syncFilesystem(d)
    PROVE  /\ g \in Disks /\ observeMount(d) /\ g.live = d.live
           /\ SameImage(g, d) /\ SameDir(g, d) /\ SameMount(g, d)
           /\ g.kept.control = d.live.control /\ g.kept.tree = d.live.tree
  BY SyncedFields DEF syncFilesystem

\* The file system is written back, and its mount is gone.
LEMMA WrittenBack ==
    ASSUME NEW d \in Disks, NEW g, g = [syncfs(d) EXCEPT !.mounted = FALSE]
    PROVE  /\ g \in Disks /\ g.live = d.live /\ ~g.mounted /\ g.loops = d.loops
           /\ SameImage(g, d) /\ SameDir(g, d)
           /\ g.kept.control = d.live.control /\ g.kept.tree = d.live.tree
<1>1. PICK b \in BOOLEAN : b = FALSE
  OBVIOUS
<1>2. PICK y \in Disks : y = syncfs(d) BY SyncedFields
<1>3. g = [y EXCEPT !.mounted = b] BY <1>1, <1>2
<1>4. g \in Disks /\ g.live = y.live /\ g.kept = y.kept /\ g.loops = y.loops /\ g.mounted = b
  BY <1>3 DEF Disks
<1>5. /\ y.live = d.live /\ y.loops = d.loops /\ y.kept.image = d.kept.image
      /\ y.kept.dir = d.kept.dir /\ y.kept.control = d.live.control
      /\ y.kept.tree = d.live.tree
  BY <1>2, SyncedFields DEF SameImage, SameDir, SameMount
<1> QED BY <1>1, <1>4, <1>5 DEF SameImage, SameDir

LEMMA Ext4Unmounted ==
    ASSUME NEW d \in Disks, NEW g \in unmountExt4(d)
    PROVE  /\ observeMount(d) /\ g \in Disks /\ g.live = d.live /\ ~g.mounted
           /\ g.loops = d.loops /\ SameImage(g, d) /\ SameDir(g, d)
           /\ g.kept.control = d.live.control /\ g.kept.tree = d.live.tree
  BY WrittenBack DEF unmountExt4

LEMMA LoopDetached ==
    ASSUME NEW d \in Disks, NEW g \in detachLoop(d)
    PROVE  /\ g \in Disks /\ ~d.mounted /\ ~g.mounted /\ g.loops = 0
           /\ d.live.image # "none" /\ g.live = d.live /\ g.kept = d.kept
BY DEF detachLoop, openImageAuthority, Disks

LEMMA ImageRemoved ==
    ASSUME NEW d \in Disks, NEW g \in removeImage(d)
    PROVE  /\ g \in Disks /\ d.loops = 0 /\ g.live.image = "none" /\ g.kept.image = "none"
           /\ SameDir(g, d) /\ SameContent(g, d) /\ SameMount(g, d)
<1>1. d.loops = 0 /\ g = [d EXCEPT !.live.image = "none", !.kept.image = "none"]
  BY DEF removeImage
<1>2. PICK i \in Images : i = "none" BY DEF Images
<1>3. g = [d EXCEPT !.live.image = i, !.kept.image = i] BY <1>1, <1>2
<1>4. g \in Disks BY <1>3 DEF Disks, Views
<1> QED BY <1>1, <1>2, <1>3, <1>4 DEF Disks, Views, SameDir, SameContent, SameTree,
  SameControl, SameMount

LEMMA PathRemoved ==
    ASSUME NEW d \in Disks, NEW g \in removeDirectory(d)
    PROVE  /\ g \in Disks /\ ~d.mounted /\ ~g.live.dir /\ ~g.kept.dir
           /\ SameImage(g, d) /\ SameContent(g, d) /\ SameMount(g, d)
<1>1. ~d.mounted /\ g = [d EXCEPT !.live.dir = FALSE, !.kept.dir = FALSE]
  BY DEF removeDirectory
<1>2. PICK b \in BOOLEAN : b = FALSE
  OBVIOUS
<1>3. g = [d EXCEPT !.live.dir = b, !.kept.dir = b] BY <1>1, <1>2
<1>4. g \in Disks BY <1>3 DEF Disks, Views
<1>5. /\ g.live.dir = b /\ g.kept.dir = b
      /\ SameImage(g, d) /\ SameContent(g, d) /\ SameMount(g, d)
  BY <1>3, <1>4 DEF Disks, Views, SameImage, SameContent, SameTree, SameControl, SameMount
<1> QED BY <1>1, <1>2, <1>4, <1>5

\* An observation changes nothing.
LEMMA OnlyObserved ==
    ASSUME NEW d, NEW name \in {"find-loop", "observe-mount", "observe-root"}, NEW arg,
           NEW g \in invokeFdOperation(d, FdOn(name, arg))
    PROVE  g = d
  BY DEF invokeFdOperation, FdOn

-----------------------------------------------------------------------------
(* The host stays as its record says: what each invocation keeps, also when it  *)
(* is cut off or not answered. *)

Sides(g, d) == {g, Unsynced(g, d)}

LEMMA SidesTyped ==
    ASSUME NEW d \in Disks, NEW g \in Disks, NEW e \in Sides(g, d)
    PROVE  /\ e \in Disks /\ e.live = g.live /\ e.loops = g.loops /\ e.mounted = g.mounted
           /\ e.kept = g.kept \/ e.kept = d.kept
  BY UnsyncedFields DEF Sides, SameMount

LEMMA CreationHosted ==
    ASSUME NEW d \in Disks, NEW st, NEW doomed, Hosted(d, st, FALSE, doomed), st.life = "none",
           NEW g \in createImage(d) \cup formatExt4(d) \cup createMountPath(d),
           NEW e \in Sides(g, d)
    PROVE  e \in Disks /\ Hosted(e, st, FALSE, doomed)
BY ImageCreated, SidesTyped, ImageFormatted, PathCreated DEF Hosted, SameMount, Lived,
   AtRest, SameDir

LEMMA AttachHosted ==
    ASSUME NEW d \in Disks, NEW st, NEW idle, NEW doomed, Hosted(d, st, idle, doomed),
           st.life # "destroyed", ~(st.life = "none" /\ idle), d.loops = 0,
           NEW g \in attachLoop(d), NEW e \in Sides(g, d)
    PROVE  e \in Disks /\ Hosted(e, st, idle, doomed)
BY LoopAttached, SidesTyped DEF Hosted, Base, Durable

LEMMA MountHosted ==
    ASSUME NEW d \in Disks, NEW st, NEW idle, NEW doomed, Hosted(d, st, idle, doomed),
           st.life # "attached", ~(st.life = "none" /\ idle),
           d.loops = 1, d.kept.image = "ext4", d.kept.dir,
           NEW g \in mountExt4(d), NEW e \in Sides(g, d)
    PROVE  e \in Disks /\ Hosted(e, st, idle, doomed)
BY Ext4Mounted, SidesTyped DEF Hosted, Dead, Base, Durable

\* A storage that is mounted is one that is recorded, or about to be.
LEMMA MountedIsRecorded ==
    ASSUME NEW d, NEW st, NEW idle, NEW doomed, Hosted(d, st, idle, doomed), d.mounted
    PROVE  /\ ~(st.life = "none" /\ idle) /\ st.life # "destroyed"
           /\ d.live.image = "ext4" /\ d.kept.image = "ext4" /\ d.live.dir /\ d.kept.dir
           /\ d.loops = 1
  BY DEF Hosted, Bare, Dead

\* The content is written back, with the file system mounted as before or not.
LEMMA WriteBackHosted ==
    ASSUME NEW d \in Disks, NEW st, NEW idle, NEW doomed, Hosted(d, st, idle, doomed),
           NEW g \in Disks, g.live = d.live, g.loops = d.loops, g.mounted => d.mounted,
           SameImage(g, d), SameDir(g, d),
           g.kept.control = d.live.control, g.kept.tree = d.live.tree,
           NEW e \in Sides(g, d)
    PROVE  e \in Disks /\ Hosted(e, st, idle, doomed)
BY SidesTyped DEF SameImage, SameDir, Hosted, Base, Durable, Bare, Dead

LEMMA SyncHosted ==
    ASSUME NEW d \in Disks, NEW st, NEW idle, NEW doomed, Hosted(d, st, idle, doomed),
           NEW g \in syncFilesystem(d) \cup unmountExt4(d), NEW e \in Sides(g, d)
    PROVE  e \in Disks /\ Hosted(e, st, idle, doomed)
BY Synced, Ext4Unmounted, WriteBackHosted DEF SameMount

LEMMA DetachHosted ==
    ASSUME NEW d \in Disks, NEW st, NEW idle, NEW doomed, Hosted(d, st, idle, doomed),
           NEW g \in detachLoop(d), NEW e \in Sides(g, d)
    PROVE  e \in Disks /\ Hosted(e, st, idle, doomed)
BY LoopDetached, SidesTyped DEF Hosted, Base, Durable, Bare, Dead

\* Only what is being destroyed is removed.
LEMMA RemovalHosted ==
    ASSUME NEW d \in Disks, NEW st, NEW idle, Hosted(d, st, idle, TRUE), AtRest(st),
           NEW g \in removeImage(d) \cup removeDirectory(d), NEW e \in Sides(g, d)
    PROVE  e \in Disks /\ Hosted(e, st, idle, TRUE)
BY ImageRemoved, SidesTyped, PathRemoved DEF SameMount, SameDir, Hosted, AtRest, Lived,
   SameImage

LEMMA GoneHosted ==
    ASSUME NEW d \in Disks, NEW st, NEW idle, NEW doomed, Hosted(d, st, idle, doomed)
    PROVE  NamespaceGone(d) \in Disks /\ Hosted(NamespaceGone(d), st, idle, doomed)
BY SMTT(30), WrittenBack, WriteBackHosted DEF NamespaceGone, Sides

\* What was not synced may be there or not: what was durable is.
LEMMA PowerLossHosted ==
    ASSUME NEW d \in Disks, NEW st \in StorageRows, NEW idle, NEW doomed,
           Hosted(d, st, idle, doomed), NEW e \in AfterPowerLoss(d)
    PROVE  e \in Disks /\ Hosted(e, st, idle, doomed)
<1>1. PICK k \in Survivors(d) :
        e = [live |-> k, kept |-> k, loops |-> 0, mounted |-> FALSE]
  BY SMTT(30) DEF AfterPowerLoss
<1>2. PICK i \in {d.live.image, d.kept.image}, b \in {d.live.dir, d.kept.dir},
           c \in {d.live.control, d.kept.control}, t \in [Roots -> 0 .. MaxTree] :
        k = [image |-> i, dir |-> b, control |-> c, tree |-> t]
  BY <1>1, SMTT(30) DEF Survivors
<1>3. /\ i \in Images /\ b \in BOOLEAN /\ c \in BOOLEAN /\ t \in Trees
  BY SMTT(30), <1>2 DEF Disks, Views, Trees
<1>4. ASSUME NEW r \in Roots
      PROVE  k.tree[r] \in {d.live.tree[r], d.kept.tree[r]}
  BY <1>1, SMT DEF Survivors
<1>5. /\ k \in Views /\ k.image = i /\ k.dir = b /\ k.control = c /\ k.tree = t
  BY <1>2, <1>3 DEF Views
<1>6. /\ e \in Disks /\ e.live = k /\ e.kept = k /\ e.loops = 0 /\ ~e.mounted
  BY <1>1, <1>5 DEF Disks
<1>7. st.root # 0 => st.root \in Roots BY DEF StorageRows, Roots
<1>8. Base(d) => Base(e) BY <1>2, <1>5, <1>6 DEF Base
<1>9. Dead(d) => Dead(e) BY <1>2, <1>5, <1>6 DEF Dead
<1>10. st.root # 0 /\ Durable(d, st.root) => Durable(e, st.root)
  BY <1>5, <1>6, <1>7, <1>4 DEF Durable
<1>11. Hosted(e, st, idle, doomed) BY <1>2, <1>5, <1>6, <1>8, <1>9, <1>10 DEF Hosted, Bare
<1> QED BY SMTT(30), <1>6, <1>11

LEMMA WriteHosted ==
    ASSUME NEW d \in Disks, NEW st \in StorageRows, NEW idle, Hosted(d, st, idle, FALSE),
           st.life = "attached", d.live.tree[st.root] \in 1 .. MaxTree - 1, NEW e,
           e = [d EXCEPT !.live.tree[st.root] = @ + 1]
    PROVE  e \in Disks /\ Hosted(e, st, idle, FALSE)
<1>1. st.root \in Roots BY DEF Hosted, StorageRows, Roots
<1>2. /\ d.live \in Views /\ d.live.tree \in [Roots -> 0 .. MaxTree] /\ MaxTree \in Nat
  BY ImageDriverAssumption DEF Disks, Views, Trees
<1>3. PICK n \in 0 .. MaxTree : n = d.live.tree[st.root] + 1 /\ n # 0 BY <1>2
<1>4. PICK t \in Trees : t = [d.live.tree EXCEPT ![st.root] = n] BY <1>1, <1>2 DEF Trees
<1>5. e = [d EXCEPT !.live.tree = t] BY <1>2, <1>3, <1>4 DEF Disks, Views
<1>6. /\ e \in Disks /\ e.kept = d.kept /\ SameMount(e, d) /\ SameImage(e, d)
      /\ SameDir(e, d) /\ SameControl(e, d) /\ e.live.tree = t
  BY <1>5 DEF Disks, Views, SameMount, SameImage, SameDir, SameControl
<1>7. t[st.root] # Absent BY <1>1, <1>2, <1>3, <1>4 DEF Absent
<1>8. Hosted(e, st, idle, FALSE)
  BY <1>6, <1>7 DEF Hosted, Base, AtRest, SameMount, SameImage, SameDir, SameControl
<1> QED BY <1>6, <1>8

LEMMA TreesReplaced ==
    ASSUME NEW d \in Disks, NEW l \in Trees, NEW k \in Trees, NEW e,
           e = [d EXCEPT !.live.tree = l, !.kept.tree = k]
    PROVE  /\ e \in Disks /\ e.live.tree = l /\ e.kept.tree = k /\ SameMount(e, d)
           /\ SameImage(e, d) /\ SameDir(e, d) /\ SameControl(e, d)
BY DEF Disks, Views, SameMount, SameImage, SameDir, SameControl

LEMMA PublishHosted ==
    ASSUME NEW d \in Disks, NEW st \in StorageRows, NEW idle, Hosted(d, st, idle, FALSE),
           AtRest(st), NEW r \in Roots, d.live.tree[r] = Absent, NEW e,
           e = [d EXCEPT !.live.tree[r] = 1, !.kept.tree[r] = 1]
    PROVE  e \in Disks /\ Hosted(e, st, idle, FALSE)
<1>1. /\ d.live \in Views /\ d.kept \in Views
      /\ d.live.tree \in [Roots -> 0 .. MaxTree] /\ d.kept.tree \in [Roots -> 0 .. MaxTree]
  BY DEF Disks, Views, Trees
<1>2. PICK t \in 0 .. MaxTree : t = 1 BY ImageDriverAssumption
<1>3. PICK l \in Trees, k \in Trees :
        l = [d.live.tree EXCEPT ![r] = 1] /\ k = [d.kept.tree EXCEPT ![r] = 1]
  BY <1>1, <1>2 DEF Trees
<1>4. e = [d EXCEPT !.live.tree = l, !.kept.tree = k] BY <1>1, <1>3 DEF Disks, Views
<1>5. /\ e \in Disks /\ e.live.tree = l /\ e.kept.tree = k /\ SameMount(e, d)
      /\ SameImage(e, d) /\ SameDir(e, d) /\ SameControl(e, d)
  BY <1>4, TreesReplaced, Zenon
<1>6. st.root # 0 => st.root \in Roots BY DEF StorageRows, Roots
<1>7. st.root # 0 => Durable(e, st.root) BY <1>1, <1>3, <1>5, <1>6 DEF Hosted, Durable
<1>8. st.life # "attached" /\ st.life # "none" /\ st.life # "destroyed" BY DEF AtRest
<1>9. Hosted(e, st, idle, FALSE)
  BY <1>5, <1>7, <1>8 DEF Hosted, Base, SameMount, SameImage, SameDir, SameControl
<1> QED BY <1>5, <1>9

\* What a call achieved is what its commit records.
LEMMA CommitHosted ==
    ASSUME NEW d \in Disks, NEW r \in OpRows, r.phase = "prepared", OpFits(r, r.before),
           Hosted(d, r.before, FALSE, r.kind = "destroy"), Achieved(r, d)
    PROVE  /\ StorageState(r.kind, r.before) \in StorageRows
           /\ StorageState(r.kind, r.before).life # "none"
           /\ Hosted(d, StorageState(r.kind, r.before), TRUE, FALSE)
<1> DEFINE st == r.before
           after == StorageState(r.kind, st)
<1> HIDE DEF after
<1>1. /\ st \in StorageRows /\ r.kind \in OpKinds /\ MaxEpoch \in Nat /\ MaxEpoch # 0
      /\ st.rev \in Nat /\ st.epoch \in 0 .. MaxEpoch /\ st.root \in 0 .. MaxEpoch
  BY ProviderStateAssumption DEF OpRows, OpFits, StorageRows
<1>2. d.mounted => /\ d.live.image = "ext4" /\ d.kept.image = "ext4"
                   /\ d.live.dir /\ d.kept.dir /\ d.loops = 1
  BY DEF Hosted
<1>3. CASE r.kind = "provision"
  BY <1>3, <1>1, <1>2 DEF after, StorageState, Provisioned, Achieved, StorageRows, Lives,
     Hosted, Base
<1>4. CASE r.kind \in {"attach", "restore-attach"}
  <2>1. PICK root \in Roots : /\ root = NewRoot(r)
                              /\ after = Attached(st, root)
    BY <1>1, <1>4 DEF DataRoot, Roots, after, StorageState, NewRoot, OpFits,
       planRestoreDestination
  <2>2. st.epoch + 1 \in 0 .. MaxEpoch /\ st.rev + 1 \in Nat BY <1>1, <1>4 DEF OpFits
  <2>3. PICK e \in 0 .. MaxEpoch, v \in Nat : e = st.epoch + 1 /\ v = st.rev + 1 BY <2>2
  <2>4. after = [life |-> "attached", rev |-> v, epoch |-> e, root |-> root]
    BY <2>1, <2>3 DEF Attached
  <2>5. root \in 0 .. MaxEpoch /\ root # 0 BY <1>1 DEF Roots
  <2>6. after \in StorageRows BY <2>4, <2>5 DEF StorageRows, Lives
  <2>7. Base(d) BY <1>4 DEF Hosted, OpFits, AtRest, Lived
  <2>8. d.live.tree[root] # Absent BY <1>4, <2>1 DEF Achieved
  <2>9. Hosted(d, after, TRUE, FALSE)
    BY <1>2, <2>4, <2>5, <2>7, <2>8 DEF Hosted, Base, AtRest
  <2>10. after.life # "none" BY <2>4
  <2> QED BY <2>6, <2>9, <2>10 DEF after
<1>5. CASE r.kind = "detach"
  <2>1. after = [st EXCEPT !.life = "detached", !.rev = @ + 1]
    BY <1>5 DEF after, StorageState, Detached
  <2>2. PICK v \in Nat, l \in Lives : v = st.rev + 1 /\ l = "detached" BY <1>1 DEF Lives
  <2>3. after = [st EXCEPT !.life = l, !.rev = v] BY <2>1, <2>2
  <2>4. after \in StorageRows /\ after.life = "detached" /\ after.root = st.root
    BY <1>1, <2>2, <2>3 DEF StorageRows
  <2>5. Base(d) BY <1>5 DEF Hosted, OpFits, Lived
  <2>6. Durable(d, st.root) BY <1>5 DEF Achieved
  <2>7. Hosted(d, after, TRUE, FALSE) BY <1>2, <2>4, <2>5, <2>6 DEF Hosted, Base
  <2> QED BY <2>4, <2>7 DEF after
<1>6. CASE r.kind = "destroy"
  <2>1. after = [st EXCEPT !.life = "destroyed", !.rev = @ + 1, !.root = 0]
    BY <1>6 DEF after, StorageState, Destroyed
  <2>2. PICK v \in Nat, l \in Lives, z \in 0 .. MaxEpoch :
          v = st.rev + 1 /\ l = "destroyed" /\ z = 0
    BY <1>1 DEF Lives
  <2>3. after = [st EXCEPT !.life = l, !.rev = v, !.root = z] BY <2>1, <2>2
  <2>4. after \in StorageRows /\ after.life = "destroyed"
    BY <1>1, <2>2, <2>3 DEF StorageRows
  <2>5. Dead(d) BY <1>6 DEF Achieved
  <2>6. Hosted(d, after, TRUE, FALSE) BY <1>2, <2>4, <2>5 DEF Hosted, AtRest, Lived
  <2> QED BY <2>4, <2>6 DEF after
<1> QED BY <1>1, <1>3, <1>4, <1>5, <1>6 DEF OpKinds

-----------------------------------------------------------------------------
(* A driver call: what its invocations keep on the host, and what they achieve. *)

LEMMA Invokes ==
    ASSUME NEW d
    PROVE  /\ invokeFdOperation(d, Fd("create-image")) = createImage(d)
           /\ invokeFdOperation(d, Fd("format-ext4")) = formatExt4(d)
           /\ invokeFdOperation(d, Fd("create-directory")) = createMountPath(d)
           /\ invokeFdOperation(d, Fd("attach-loop")) = attachLoop(d)
           /\ invokeFdOperation(d, Fd("mount-ext4")) = mountExt4(d)
           /\ invokeFdOperation(d, Fd("syncfs")) = syncFilesystem(d)
           /\ invokeFdOperation(d, Fd("unmount-ext4")) = unmountExt4(d)
           /\ invokeFdOperation(d, Fd("detach-loop")) = detachLoop(d)
           /\ invokeFdOperation(d, Fd("remove-file")) = removeImage(d)
           /\ invokeFdOperation(d, Fd("remove-directory")) = removeDirectory(d)
           /\ invokeFdOperation(d, Fd("find-loop")) = IF loopsForImage(d) <= 1 THEN {d} ELSE {}
           /\ invokeFdOperation(d, Fd("observe-mount")) = IF observeMount(d) THEN {d} ELSE {}
  BY DEF invokeFdOperation, Fd

LEMMA InvokesOn ==
    ASSUME NEW d, NEW n
    PROVE  /\ invokeFdOperation(d, FdOn("publication-root", n)) = ensurePublicationRoot(d, n = 1)
           /\ invokeFdOperation(d, FdOn("attachment-root", n)) = ensureAttachmentRoot(d, n)
           /\ invokeFdOperation(d, FdOn("observe-root", n)) =
                IF observeAttachmentRoot(d, n) THEN {d} ELSE {}
  BY DEF invokeFdOperation, FdOn

\* What the calls that take turns on one storage leave alone.
Gentle(e, d) ==
    /\ SameImage(e, d) /\ SameDir(e, d) /\ SameMount(e, d)
    /\ d.live.control => e.live.control
    /\ d.kept.control => e.kept.control
    /\ \A q \in Roots : d.live.tree[q] # Absent => /\ e.live.tree[q] = d.live.tree[q]
                                                  /\ e.kept.tree[q] = d.kept.tree[q]

LEMMA SameIsGentle ==
    ASSUME NEW d
    PROVE  Gentle(d, d)
  BY DEF Gentle, SameImage, SameDir, SameMount

LEMMA PublicationGentle ==
    ASSUME NEW d \in Disks, NEW expected, NEW g \in ensurePublicationRoot(d, expected),
           NEW e \in Sides(g, d)
    PROVE  e \in Disks /\ Gentle(e, d)
BY PublicationRooted, SidesTyped DEF SameMount, Gentle, SameImage, SameDir, SameTree

LEMMA RootGentle ==
    ASSUME NEW d \in Disks, NEW r \in Roots, NEW g \in ensureAttachmentRoot(d, r),
           NEW e \in Sides(g, d)
    PROVE  e \in Disks /\ Gentle(e, d)
BY RootMade, SidesTyped DEF SameMount, Gentle, SameImage, SameDir, SameControl

LEMMA NewRootIs ==
    ASSUME NEW r \in OpRows, NEW st, OpFits(r, st), r.phase = "prepared",
           r.kind \in {"attach", "restore-attach"}
    PROVE  NewRoot(r) \in Roots
BY ProviderStateAssumption DEF OpRows, StorageRows, NewRoot, Roots, DataRoot, OpFits

LEMMA GentleFits ==
    ASSUME NEW d, NEW e, Gentle(e, d), NEW r \in OpRows, NEW st \in StorageRows,
           OpFits(r, st), NEW m, CallFits(m, r, d), NEW idle, NEW doomed,
           Hosted(d, st, idle, doomed)
    PROVE  CallFits(m, r, e)
<1>1. Built(m, d) => Built(m, e) BY DEF Built, Bare, Gentle, SameImage, SameDir, SameMount
<1>2. r.phase = "prepared" /\ Achieved(r, d) => Achieved(r, e)
  <2> SUFFICES ASSUME r.phase = "prepared", Achieved(r, d)
               PROVE  Achieved(r, e)
    OBVIOUS
  <2>1. Base(d) => Base(e) BY DEF Base, Gentle, SameImage, SameDir
  <2>2. Dead(d) => Dead(e) BY DEF Dead, Gentle, SameImage, SameDir, SameMount
  <2>3. r.kind \in {"attach", "restore-attach"} => e.live.tree[NewRoot(r)] # Absent
    BY NewRootIs DEF Achieved, Gentle
  <2>4. r.kind = "detach" => Durable(e, r.before.root)
    BY DEF OpFits, Hosted, StorageRows, Roots, Achieved, Durable, Gentle
  <2> QED BY <2>1, <2>2, <2>3, <2>4 DEF Achieved
<1>3. d.live.image = "none" /\ d.kept.image = "none" /\ d.loops = 0 =>
        e.live.image = "none" /\ e.kept.image = "none" /\ e.loops = 0
  BY DEF Gentle, SameImage, SameMount
<1> QED BY <1>1, <1>2, <1>3 DEF CallFits

\* A call of an operation that only prepares or repeats is gentle.
Mild(m, r) == ~First(m, r) /\ r.kind \notin {"detach", "destroy"}

LEMMA MildIs ==
    ASSUME NEW r, r.kind \in OpKinds, NEW m, m.pc = "driver", m.todo # <<>>,
           OnCourse(m, r), Mild(m, r)
    PROVE  /\ Tail(m.todo) = <<>>
           /\ \/ m.todo = P1 /\ m.last /\ r.kind = "provision"
              \/ m.todo = ObservesMount /\ ~m.last /\ r.kind = "provision"
              \/ m.todo = MakesRoot /\ r.kind = "attach" /\ NewRoot(r) = DataRoot
              \/ m.todo = ObservesRoot(NewRoot(r)) /\ r.kind \in {"attach", "restore-attach"}
BY ProvisionGoesOn, ObservationGoesOn DEF OnCourse, Mild, First, NewRoot, OpKinds

LEMMA MildIsGentle ==
    ASSUME NEW d \in Disks, NEW r, r.kind \in OpKinds, NEW m, m.pc = "driver",
           m.todo # <<>>, OnCourse(m, r), Mild(m, r),
           NEW g \in invokeFdOperation(d, Head(m.todo)), NEW e \in Sides(g, d)
    PROVE  e \in Disks /\ Gentle(e, d)
<1>1. CASE m.todo = P1 BY <1>1, ProvisionGoesOn, InvokesOn, PublicationGentle
<1>2. CASE m.todo = MakesRoot
  BY <1>2, ObservationGoesOn, InvokesOn, ProviderStateAssumption, RootGentle DEF DataRoot,
     Roots
<1>3. CASE m.todo = ObservesMount
  BY <1>3, ObservationGoesOn, Invokes, UnsyncedFields, SameIsGentle DEF Sides
<1>4. CASE m.todo = ObservesRoot(NewRoot(r))
  BY <1>4, ObservationGoesOn, InvokesOn, UnsyncedFields, SameIsGentle DEF Sides
<1> QED BY <1>1, <1>2, <1>3, <1>4, MildIs

LEMMA GentleHosted ==
    ASSUME NEW d, NEW e, Gentle(e, d), NEW st \in StorageRows, NEW idle, NEW doomed,
           Hosted(d, st, idle, doomed)
    PROVE  Hosted(e, st, idle, doomed)
<1>1. st.root # 0 => st.root \in Roots BY DEF StorageRows, Roots
<1>2. (Base(d) => Base(e)) /\ (Bare(d) => Bare(e)) /\ (Dead(d) => Dead(e))
  BY DEF Base, Bare, Dead, Gentle, SameImage, SameDir, SameMount
<1>3. st.root # 0 /\ Durable(d, st.root) => Durable(e, st.root) BY <1>1 DEF Durable, Gentle
<1>4. st.root # 0 /\ d.live.tree[st.root] # Absent => e.live.tree[st.root] # Absent
  BY <1>1 DEF Gentle
<1> QED BY <1>2, <1>3, <1>4 DEF Hosted, Gentle, SameImage, SameDir, SameMount

LEMMA FirstIs ==
    ASSUME NEW r, NEW m, m.pc = "driver", m.todo # <<>>, OnCourse(m, r), First(m, r)
    PROVE  m.todo \in {provision, P6, P5, P4, P3, P2, P1} /\ r.kind = "provision" /\ ~m.last
  BY DEF OnCourse, First, ProvisionTodos

LEMMA FirstKeeps ==
    ASSUME NEW d \in Disks, NEW st \in StorageRows, NEW r, OpFits(r, st), NEW m,
           m.pc = "driver", m.todo # <<>>, CallFits(m, r, d), First(m, r), NEW doomed,
           Hosted(d, st, FALSE, doomed),
           NEW g \in invokeFdOperation(d, Head(m.todo)), NEW e \in Sides(g, d)
    PROVE  e \in Disks /\ Hosted(e, st, FALSE, doomed)
<1>1. /\ r.phase = "prepared" /\ Built(m, d) /\ OnCourse(m, r) /\ st.life = "none"
  BY DEF CallFits, Active, First, OpFits
<1>2. CASE m.todo \in {provision, P6, P5}
  <2>1. g \in createImage(d) \cup formatExt4(d) \cup createMountPath(d)
    BY <1>2, ProvisionGoesOn, Invokes
  <2> QED BY <1>1, <2>1, CreationHosted
<1>3. CASE m.todo = P4
  <2>1. g \in attachLoop(d) BY <1>3, ProvisionGoesOn, Invokes
  <2>2. d.loops = 0 BY <1>1, <1>3, ProvisionGoesOn DEF Built
  <2> QED BY <1>1, <2>1, <2>2, AttachHosted
<1>4. CASE m.todo = P3
  <2>1. g \in mountExt4(d) BY <1>4, ProvisionGoesOn, Invokes
  <2>2. d.loops = 1 /\ d.kept.image = "ext4" /\ d.kept.dir
    BY <1>1, <1>4, ProvisionGoesOn DEF Built
  <2> QED BY <1>1, <2>1, <2>2, MountHosted
<1>5. CASE m.todo = P2
  <2>1. g = d BY <1>5, ProvisionGoesOn, Invokes
  <2>2. e = d BY <2>1, UnsyncedFields DEF Sides
  <2> QED BY <2>2
<1>6. CASE m.todo = P1
  <2>1. g \in ensurePublicationRoot(d, 0 = 1) BY <1>6, ProvisionGoesOn, InvokesOn
  <2>2. e \in Disks /\ Gentle(e, d) BY <2>1, PublicationGentle
  <2> QED BY <2>2, GentleHosted
<1> QED BY <1>1, <1>2, <1>3, <1>4, <1>5, <1>6, FirstIs

LEMMA DetachKeeps ==
    ASSUME NEW d \in Disks, NEW st, NEW r, NEW m, m.pc = "driver", m.todo # <<>>,
           OnCourse(m, r), r.kind = "detach", NEW idle, NEW doomed,
           Hosted(d, st, idle, doomed),
           NEW g \in invokeFdOperation(d, Head(m.todo)), NEW e \in Sides(g, d)
    PROVE  e \in Disks /\ Hosted(e, st, idle, doomed)
BY ObservationGoesOn, Invokes, SyncHosted DEF OnCourse

LEMMA DestroyKeeps ==
    ASSUME NEW d \in Disks, NEW st, NEW r, NEW m, m.pc = "driver", m.todo # <<>>,
           OnCourse(m, r), r.kind = "destroy", AtRest(st), NEW idle,
           Hosted(d, st, idle, TRUE),
           NEW g \in invokeFdOperation(d, Head(m.todo)), NEW e \in Sides(g, d)
    PROVE  e \in Disks /\ Hosted(e, st, idle, TRUE)
<1>1. m.todo \in {Q1, Q2, Q3, Q4, Q5} BY DEF OnCourse, DestroyTodos
<1>2. CASE m.todo \in {Q4, Q5} BY <1>2, DestroyGoesOn, Invokes, SyncHosted
<1>3. CASE m.todo = Q3 BY <1>3, DestroyGoesOn, Invokes, DetachHosted
<1>4. CASE m.todo \in {Q1, Q2} BY <1>4, DestroyGoesOn, Invokes, RemovalHosted
<1> QED BY <1>1, <1>2, <1>3, <1>4

\* Whatever an invocation of a driver call leaves, the host stays as recorded.
LEMMA DriverKeeps ==
    ASSUME NEW d \in Disks, NEW st \in StorageRows, NEW r, r.kind \in OpKinds,
           OpFits(r, st), NEW m, m.pc = "driver", m.todo # <<>>, CallFits(m, r, d),
           NEW idle \in BOOLEAN, NEW doomed \in BOOLEAN, Hosted(d, st, idle, doomed),
           r.phase = "prepared" => ~idle, r.phase = "prepared" => (doomed <=> r.kind = "destroy"),
           NEW g \in invokeFdOperation(d, Head(m.todo)), NEW e \in Sides(g, d)
    PROVE  e \in Disks /\ Hosted(e, st, idle, doomed)
<1>1. /\ OnCourse(m, r)
      /\ r.kind \in {"detach", "destroy"} => r.phase = "prepared"
      /\ First(m, r) => r.phase = "prepared"
  BY DEF CallFits, Active
<1>2. CASE Mild(m, r) BY <1>1, <1>2, MildIsGentle, GentleHosted
<1>3. CASE First(m, r) BY <1>1, <1>3, FirstKeeps
<1>4. CASE r.kind = "detach" BY <1>1, <1>4, DetachKeeps
<1>5. CASE r.kind = "destroy" BY <1>1, <1>5, DestroyKeeps DEF OpFits
<1> QED BY <1>2, <1>3, <1>4, <1>5 DEF Mild

LEMMA BuiltAt ==
    ASSUME NEW n, n.pc = "driver", NEW g, NEW k \in 0 .. 7, Len(n.todo) = k,
           k >= 3 => ~g.mounted, k >= 4 => g.loops = 0, k = 3 => g.loops = 1,
           k <= 5 => g.live.image = "ext4" /\ g.kept.image = "ext4",
           k <= 4 => g.live.dir /\ g.kept.dir
    PROVE  Built(n, g)
  BY DEF Built

LEMMA FirstAdvances ==
    ASSUME NEW d \in Disks, NEW r, NEW m, m.pc = "driver", m.todo # <<>>,
           CallFits(m, r, d), First(m, r), NEW g \in invokeFdOperation(d, Head(m.todo)),
           NEW n, n.pc = "driver", n.last = m.last, n.again = m.again, n.todo = Tail(m.todo)
    PROVE  CallFits(n, r, g)
<1>1. /\ r.phase = "prepared" /\ Built(m, d) /\ OnCourse(m, r) /\ r.kind = "provision"
      /\ ~m.last /\ ~m.again
  BY DEF CallFits, Active, First
<1>2. n.todo \in ProvisionTodos /\ Built(n, g)
  <2>1. CASE m.todo = provision
    <3>1. n.todo = P6 /\ Len(n.todo) = 6 /\ Len(m.todo) = 7 /\ g \in createImage(d)
      BY <2>1, ProvisionGoesOn, Invokes
    <3>2. /\ ~d.mounted
          /\ d.loops = 0
      BY <1>1, <3>1 DEF Built
    <3>3. /\ ~g.mounted
          /\ g.loops = 0
      BY <3>1, <3>2, ImageCreated DEF SameMount
    <3>4. PICK k \in 0 .. 7 : k = 6
      OBVIOUS
    <3>5. Len(n.todo) = k BY <3>1, <3>4
    <3>6. /\ k >= 3 => ~g.mounted
          /\ k >= 4 => g.loops = 0
          /\ k = 3 => g.loops = 1
          /\ k <= 5 => g.live.image = "ext4" /\ g.kept.image = "ext4"
          /\ k <= 4 => g.live.dir /\ g.kept.dir
      BY <3>3, <3>4
    <3>7. Built(n, g) BY <3>4, <3>5, <3>6, BuiltAt, Zenon
    <3>8. n.todo \in ProvisionTodos BY <3>1, Zenon DEF ProvisionTodos
    <3> QED BY <3>7, <3>8
  <2>2. CASE m.todo = P6
    <3>1. n.todo = P5 /\ Len(n.todo) = 5 /\ Len(m.todo) = 6 /\ g \in formatExt4(d)
      BY <2>2, ProvisionGoesOn, Invokes
    <3>2. /\ ~d.mounted
          /\ d.loops = 0
      BY <1>1, <3>1 DEF Built
    <3>3. /\ ~g.mounted
          /\ g.loops = 0
          /\ g.live.image = "ext4" /\ g.kept.image = "ext4"
      BY <3>1, <3>2, ImageFormatted DEF SameMount
    <3>4. PICK k \in 0 .. 7 : k = 5
      OBVIOUS
    <3>5. Len(n.todo) = k BY <3>1, <3>4
    <3>6. /\ k >= 3 => ~g.mounted
          /\ k >= 4 => g.loops = 0
          /\ k = 3 => g.loops = 1
          /\ k <= 5 => g.live.image = "ext4" /\ g.kept.image = "ext4"
          /\ k <= 4 => g.live.dir /\ g.kept.dir
      BY <3>3, <3>4
    <3>7. Built(n, g) BY <3>4, <3>5, <3>6, BuiltAt, Zenon
    <3>8. n.todo \in ProvisionTodos BY <3>1, Zenon DEF ProvisionTodos
    <3> QED BY <3>7, <3>8
  <2>3. CASE m.todo = P5
    <3>1. n.todo = P4 /\ Len(n.todo) = 4 /\ Len(m.todo) = 5 /\ g \in createMountPath(d)
      BY <2>3, ProvisionGoesOn, Invokes
    <3>2. /\ ~d.mounted
          /\ d.loops = 0
          /\ d.live.image = "ext4" /\ d.kept.image = "ext4"
      BY <1>1, <3>1 DEF Built
    <3>3. /\ ~g.mounted
          /\ g.loops = 0
          /\ g.live.image = "ext4" /\ g.kept.image = "ext4"
          /\ g.live.dir /\ g.kept.dir
      BY <3>1, <3>2, PathCreated DEF SameMount, SameImage
    <3>4. PICK k \in 0 .. 7 : k = 4
      OBVIOUS
    <3>5. Len(n.todo) = k BY <3>1, <3>4
    <3>6. /\ k >= 3 => ~g.mounted
          /\ k >= 4 => g.loops = 0
          /\ k = 3 => g.loops = 1
          /\ k <= 5 => g.live.image = "ext4" /\ g.kept.image = "ext4"
          /\ k <= 4 => g.live.dir /\ g.kept.dir
      BY <3>3, <3>4
    <3>7. Built(n, g) BY <3>4, <3>5, <3>6, BuiltAt, Zenon
    <3>8. n.todo \in ProvisionTodos BY <3>1, Zenon DEF ProvisionTodos
    <3> QED BY <3>7, <3>8
  <2>4. CASE m.todo = P4
    BY <2>4, ProvisionGoesOn, Invokes, <1>1, LoopAttached, BuiltAt DEF Built, ProvisionTodos
  <2>5. CASE m.todo = P3
    BY <2>5, ProvisionGoesOn, Invokes, <1>1, Ext4Mounted, BuiltAt DEF Built, ProvisionTodos
  <2>6. CASE m.todo = P2
    <3>1. n.todo = P1 /\ Len(n.todo) = 1 /\ Len(m.todo) = 2 /\ g = d
      BY <2>6, ProvisionGoesOn, Invokes
    <3>2. /\ d.live.image = "ext4" /\ d.kept.image = "ext4"
          /\ d.live.dir /\ d.kept.dir
      BY <1>1, <3>1 DEF Built
    <3>3. /\ g.live.image = "ext4" /\ g.kept.image = "ext4"
          /\ g.live.dir /\ g.kept.dir
      BY <3>1, <3>2
    <3>4. PICK k \in 0 .. 7 : k = 1
      OBVIOUS
    <3>5. Len(n.todo) = k BY <3>1, <3>4
    <3>6. /\ k >= 3 => ~g.mounted
          /\ k >= 4 => g.loops = 0
          /\ k = 3 => g.loops = 1
          /\ k <= 5 => g.live.image = "ext4" /\ g.kept.image = "ext4"
          /\ k <= 4 => g.live.dir /\ g.kept.dir
      BY <3>3, <3>4
    <3>7. Built(n, g) BY <3>4, <3>5, <3>6, BuiltAt, Zenon
    <3>8. n.todo \in ProvisionTodos BY <3>1, Zenon DEF ProvisionTodos
    <3> QED BY <3>7, <3>8
  <2>7. CASE m.todo = P1
    <3>1. n.todo = <<>> /\ Len(n.todo) = 0 /\ Len(m.todo) = 1 /\ g \in ensurePublicationRoot(d, 0 = 1)
      BY <2>7, ProvisionGoesOn, InvokesOn
    <3>2. /\ d.live.image = "ext4" /\ d.kept.image = "ext4"
          /\ d.live.dir /\ d.kept.dir
      BY <1>1, <3>1 DEF Built
    <3>3. /\ g.live.image = "ext4" /\ g.kept.image = "ext4"
          /\ g.live.dir /\ g.kept.dir
      BY <3>1, <3>2, PublicationRooted DEF SameImage, SameDir
    <3>4. PICK k \in 0 .. 7 : k = 0
      OBVIOUS
    <3>5. Len(n.todo) = k BY <3>1, <3>4
    <3>6. /\ k >= 3 => ~g.mounted
          /\ k >= 4 => g.loops = 0
          /\ k = 3 => g.loops = 1
          /\ k <= 5 => g.live.image = "ext4" /\ g.kept.image = "ext4"
          /\ k <= 4 => g.live.dir /\ g.kept.dir
      BY <3>3, <3>4
    <3>7. Built(n, g) BY <3>4, <3>5, <3>6, BuiltAt, Zenon
    <3>8. n.todo \in ProvisionTodos BY <3>1, Zenon DEF ProvisionTodos
    <3> QED BY <3>7, <3>8
  <2> QED BY <1>1, <2>1, <2>2, <2>3, <2>4, <2>5, <2>6, <2>7, FirstIs
<1>3. OnCourse(n, r) BY <1>1, <1>2 DEF OnCourse
<1> QED BY <1>1, <1>2, <1>3 DEF CallFits, Over

LEMMA MildAdvances ==
    ASSUME NEW d \in Disks, NEW st, NEW idle, NEW doomed, Hosted(d, st, idle, doomed),
           NEW r, r.kind \in OpKinds, NEW m, m.pc = "driver", m.todo # <<>>,
           CallFits(m, r, d), Mild(m, r), NEW g \in invokeFdOperation(d, Head(m.todo)),
           NEW n, n.pc = "driver", n.last = m.last, n.again = m.again, n.todo = Tail(m.todo)
    PROVE  CallFits(n, r, g)
<1>1. OnCourse(m, r) /\ r.phase # "none" /\ (r.kind # "provision" => m.last)
  BY DEF CallFits, Active
<1>2. /\ n.todo = <<>>
      /\ \/ m.todo = P1 /\ m.last /\ r.kind = "provision"
         \/ m.todo = ObservesMount /\ ~m.last /\ r.kind = "provision"
         \/ m.todo = MakesRoot /\ r.kind = "attach" /\ NewRoot(r) = DataRoot
         \/ m.todo = ObservesRoot(NewRoot(r)) /\ r.kind \in {"attach", "restore-attach"}
  BY <1>1, MildIs
<1>3. OnCourse(n, r) BY <1>2 DEF OnCourse, ProvisionTodos, Mild
<1>4. Over(n) => Achieved(r, g)
  <2>1. CASE m.todo = P1 /\ m.last /\ r.kind = "provision"
    BY <2>1, ProvisionGoesOn, InvokesOn, PublicationRooted, MountedIsRecorded DEF
       observeMount, readMountEvidence, Base, SameImage, SameDir, Achieved
  <2>2. CASE m.todo = ObservesMount /\ ~m.last /\ r.kind = "provision" BY <2>2 DEF Over
  <2>3. CASE m.todo = MakesRoot /\ r.kind = "attach" /\ NewRoot(r) = DataRoot
    BY <2>3, ObservationGoesOn, InvokesOn, ProviderStateAssumption, RootMade DEF DataRoot,
       Roots, Achieved
  <2>4. CASE m.todo = ObservesRoot(NewRoot(r)) /\ r.kind \in {"attach", "restore-attach"}
    BY <2>4, ObservationGoesOn, InvokesOn DEF Achieved, observeAttachmentRoot
  <2> QED BY <1>2, <2>1, <2>2, <2>3, <2>4
<1> QED BY <1>1, <1>3, <1>4 DEF CallFits, Mild, First

LEMMA DetachAdvances ==
    ASSUME NEW d \in Disks, NEW r, NEW idle, NEW doomed, Hosted(d, r.before, idle, doomed),
           OpFits(r, r.before), NEW m, m.pc = "driver", m.todo # <<>>,
           CallFits(m, r, d), r.kind = "detach",
           NEW g \in invokeFdOperation(d, Head(m.todo)),
           NEW n, n.pc = "driver", n.last = m.last, n.again = m.again, n.todo = Tail(m.todo)
    PROVE  CallFits(n, r, g)
<1>1. OnCourse(m, r) /\ r.phase = "prepared" /\ m.last BY DEF CallFits, Active
<1>2. m.todo = Syncs BY <1>1 DEF OnCourse
<1>3. n.todo = <<>> /\ g \in syncFilesystem(d) BY <1>2, ObservationGoesOn, Invokes
<1>4. d.mounted /\ g.live = d.live /\ g.kept.tree = d.live.tree
  BY <1>3, Synced DEF observeMount, readMountEvidence
<1>5. Durable(g, r.before.root) BY <1>1, <1>4 DEF Durable, Hosted, OpFits
<1>6. OnCourse(n, r) /\ Achieved(r, g) BY <1>3, <1>5 DEF OnCourse, Achieved
<1> QED BY <1>1, <1>6 DEF CallFits, First

LEMMA DestroyTodosDiffer ==
    /\ Q1 # <<>> /\ Q2 # <<>> /\ Q3 # <<>> /\ Q4 # <<>>
    /\ Q2 # Q1 /\ Q3 # Q1 /\ Q4 # Q1
<1>1. /\ Len(Q1) # Len(<<>>) /\ Len(Q2) # Len(<<>>) /\ Len(Q3) # Len(<<>>)
      /\ Len(Q4) # Len(<<>>)
      /\ Len(Q2) # Len(Q1) /\ Len(Q3) # Len(Q1) /\ Len(Q4) # Len(Q1)
  BY DestroyGoesOn, ProvisionGoesOn
<1> QED BY <1>1, Zenon

LEMMA DestroyAdvances ==
    ASSUME NEW d \in Disks, NEW r, NEW m, m.pc = "driver", m.todo # <<>>,
           CallFits(m, r, d), r.kind = "destroy",
           NEW g \in invokeFdOperation(d, Head(m.todo)),
           NEW n, n.pc = "driver", n.last = m.last, n.again = m.again, n.todo = Tail(m.todo)
    PROVE  CallFits(n, r, g)
<1>1. OnCourse(m, r) /\ r.phase = "prepared" /\ m.last BY DEF CallFits, Active
<1>2. m.todo \in {Q1, Q2, Q3, Q4, Q5} BY <1>1 DEF OnCourse, DestroyTodos
<1>3. CASE m.todo \in {Q3, Q4, Q5}
  BY <1>3, DestroyGoesOn, DestroyTodosDiffer, <1>1 DEF DestroyTodos, OnCourse, CallFits,
     First, Over
<1>4. CASE m.todo = Q2
  BY <1>4, DestroyGoesOn, Invokes, DestroyTodosDiffer, ImageRemoved, <1>1 DEF DestroyTodos,
     OnCourse, SameMount, CallFits, First, Over
<1>5. CASE m.todo = Q1
  BY <1>5, DestroyGoesOn, Invokes, DestroyTodosDiffer, PathRemoved, <1>1 DEF DestroyTodos,
     OnCourse, CallFits, Active, Dead, SameImage, SameMount, Achieved, First
<1> QED BY <1>2, <1>3, <1>4, <1>5

\* An invocation that succeeds brings its call on.
LEMMA DriverAdvances ==
    ASSUME NEW d \in Disks, NEW st, NEW r, r.kind \in OpKinds, OpFits(r, st),
           NEW idle, NEW doomed, Hosted(d, st, idle, doomed),
           NEW m, m.pc = "driver", m.todo # <<>>, CallFits(m, r, d),
           NEW g \in invokeFdOperation(d, Head(m.todo)),
           NEW n, n.pc = "driver", n.last = m.last, n.again = m.again, n.todo = Tail(m.todo)
    PROVE  CallFits(n, r, g)
BY MildAdvances, FirstAdvances, DetachAdvances, DestroyAdvances, ZenonT(30) DEF CallFits, Active,
   OpFits, Mild

\* A call whose obligations do not depend on the host.
LEMMA UnboundFits ==
    ASSUME NEW n, NEW q, NEW d, NEW e, CallFits(n, q, d),
           ~First(n, q), q.kind # "destroy", ~(Over(n) /\ q.phase = "prepared")
    PROVE  CallFits(n, q, e)
  BY DEF CallFits

\* What one driver call does to the host, the other calls on it endure.
LEMMA OthersEndure ==
    ASSUME NEW d \in Disks, NEW st \in StorageRows, NEW idle, NEW doomed,
           Hosted(d, st, idle, doomed),
           NEW r \in OpRows, r.kind \in OpKinds, OpFits(r, st),
           NEW m, m.pc = "driver", m.todo # <<>>, CallFits(m, r, d),
           NEW g \in invokeFdOperation(d, Head(m.todo)), NEW e \in Sides(g, d),
           NEW q \in OpRows, OpFits(q, st), NEW n, Active(n), CallFits(n, q, d),
           Apart(m, r, n, q),
           r.phase = "prepared" /\ q.phase = "prepared" => m.op = n.op /\ r = q
    PROVE  CallFits(n, q, e)
BY MildIsGentle, GentleFits, UnboundFits DEF CallFits, Active, Mild, Apart, Over, Past

LEMMA NoCallTyped == NoCall \in Courses /\ ~Active(NoCall)
BY DEF Todos, ProvisionTodos, NoCall, Courses, Active

-----------------------------------------------------------------------------
(* What the parts of the state keep of each other. *)

\* Every call but one stays as it is, and that one becomes m.
LEMMA CallSteps ==
    ASSUME BackendInv, NEW c \in Calls, NEW m \in Courses, call' = [call EXCEPT ![c] = m],
           open' = open, open.pc = "yes",
           \A b \in Calls : b # c =>
             CallFits(call[b], ops'[call[b].op], disk'[ops'[call[b].op].storage]),
           \A a, b \in Calls : a # b /\ a # c /\ b # c =>
             Apart(call[a], ops'[call[a].op], call[b], ops'[call[b].op]),
           \/ m = NoCall
           \/ /\ Active(m) /\ m.op \in Ops
              /\ CallFits(m, ops'[m.op], disk'[ops'[m.op].storage])
              /\ \A b \in Calls : b # c =>
                   /\ Apart(m, ops'[m.op], call[b], ops'[call[b].op])
                   /\ Apart(call[b], ops'[call[b].op], m, ops'[m.op])
    PROVE  /\ call' \in [Calls -> Courses]
           /\ \A b \in Calls : CallOk(b)'
           /\ \A a, b \in Calls : PairOk(a, b)'
           /\ OpenOk' /\ OpensUnlessCut'
<1>1. call \in [Calls -> Courses] /\ \A b \in Calls : CallOk(b)
  BY SMTT(30) DEF BackendInv, BackendTyped
<1>2. call' \in [Calls -> Courses] /\ call'[c] = m /\ \A b \in Calls : b # c => call'[b] = call[b]
  BY SMTT(30), <1>1
<1>3. ASSUME NEW b \in Calls
      PROVE  CallOk(b)'
  BY <1>1, <1>2, NoCallTyped DEF CallOk, CallFits
<1>4. ASSUME NEW a \in Calls, NEW b \in Calls
      PROVE  PairOk(a, b)'
  BY <1>2, NoCallTyped DEF PairOk, Apart
<1>5. OpenOk' BY DEF BackendInv, OpenOk
<1>6. OpensUnlessCut' BY DEF OpensUnlessCut
<1> QED BY <1>2, <1>3, <1>4, <1>5, <1>6

\* One disk changes, and is as recorded again.
LEMMA DiskSteps ==
    ASSUME BackendInv, UNCHANGED <<ops, storages>>, NEW s \in Storages, NEW e \in Disks,
           disk' = [disk EXCEPT ![s] = e],
           Hosted(e, storages[s], Pending(s) = {}, Destroying(s))
    PROVE  /\ disk' \in [Storages -> Disks] /\ disk'[s] = e
           /\ \A t \in Storages : t # s => disk'[t] = disk[t]
           /\ \A t \in Storages : DiskOk(t)'
           /\ \A o \in Ops : OpOk(o)'
           /\ OneEach'
BY DEF BackendInv, BackendTyped, Pending, Destroying, DiskOk, Hosted, OpOk, OneEach

LEMMA SameSteps ==
    ASSUME BackendInv, UNCHANGED <<ops, storages, disk>>
    PROVE  /\ ops' \in [Ops -> OpRows] /\ storages' \in [Storages -> StorageRows]
           /\ disk' \in [Storages -> Disks]
           /\ \A t \in Storages : DiskOk(t)'
           /\ \A o \in Ops : OpOk(o)'
           /\ OneEach'
BY SMTT(30) DEF BackendInv, BackendTyped, Pending, Destroying, DiskOk, Hosted, OpOk, OneEach

LEMMA OneCallSteps ==
    ASSUME BackendInv, NEW c \in Calls, NEW m \in Courses, call' = [call EXCEPT ![c] = m],
           UNCHANGED <<ops, storages, disk, open>>, faults' \in Nat, open.pc = "yes",
           \/ m = NoCall
           \/ /\ Active(m) /\ m.op \in Ops
              /\ CallFits(m, ops[m.op], disk[ops[m.op].storage])
              /\ \A b \in Calls : b # c =>
                   /\ Apart(m, ops[m.op], call[b], ops[call[b].op])
                   /\ Apart(call[b], ops[call[b].op], m, ops[m.op])
    PROVE  BackendInv'
BY CallSteps, SameSteps DEF BackendInv, BackendTyped, CallOk, PairOk

\* What is known of a call in progress and of its operation.
LEMMA OpKnown ==
    ASSUME BackendInv, NEW o \in Ops, ops[o].phase # "none"
    PROVE  /\ ops[o] \in OpRows /\ ops[o].kind \in OpKinds /\ ops[o].storage \in Storages
           /\ storages[ops[o].storage] \in StorageRows /\ disk[ops[o].storage] \in Disks
           /\ OpFits(ops[o], storages[ops[o].storage])
           /\ DiskOk(ops[o].storage)
           /\ ops[o].phase = "prepared" =>
                /\ Pending(ops[o].storage) = {o}
                /\ Destroying(ops[o].storage) <=> ops[o].kind = "destroy"
BY SMTT(30) DEF BackendInv, BackendTyped, OpOk, OpFits, Pending, OneEach, Destroying

LEMMA CallKnown ==
    ASSUME BackendInv, NEW c \in Calls, Active(call[c])
    PROVE  /\ open.pc = "yes" /\ call[c] \in Courses /\ call[c].op \in Ops
           /\ ops[call[c].op].phase # "none"
           /\ CallFits(call[c], ops[call[c].op], disk[Target(c)])
           /\ \A b \in Calls : b # c =>
                /\ Apart(call[c], ops[call[c].op], call[b], ops[call[b].op])
                /\ Apart(call[b], ops[call[b].op], call[c], ops[call[c].op])
BY NoCallTyped DEF BackendInv, BackendTyped, OpenOk, CallOk, Target, CallFits, PairOk

LEMMA CallEnds ==
    ASSUME BackendInv, NEW c \in Calls, Active(call[c]), call' = [call EXCEPT ![c] = NoCall],
           UNCHANGED <<ops, storages, disk, open>>, faults' \in Nat
    PROVE  BackendInv'
BY CallKnown, NoCallTyped, OneCallSteps

LEMMA RefuseStep ==
    ASSUME BackendInv, NEW c \in Calls, Refuse(c)
    PROVE  BackendInv'
BY CallEnds DEF Refuse, Active, BackendInv, BackendTyped

LEMMA CommitFailsStep ==
    ASSUME BackendInv, NEW c \in Calls, CommitFails(c)
    PROVE  BackendInv'
<1>1. Active(call[c]) /\ call' = [call EXCEPT ![c] = NoCall] BY DEF CommitFails, Active
<1>2. faults' \in Nat BY SMTT(30) DEF CommitFails, Fault, BackendInv, BackendTyped
<1> QED BY <1>1, <1>2, CallEnds DEF CommitFails

LEMMA ReturnStep ==
    ASSUME BackendInv, NEW c \in Calls, Return(c)
    PROVE  BackendInv'
<1> DEFINE r == ops[call[c].op]
<1>1. /\ call[c].pc = "driver" /\ call[c].todo = <<>> /\ Active(call[c])
      /\ call' = [call EXCEPT ![c].pc = IF call[c].last THEN "commit" ELSE "queued",
                              ![c].last = TRUE]
      /\ UNCHANGED <<ops, storages, disk, open, faults>>
  BY DEF Return, Active
<1>2. /\ open.pc = "yes" /\ call[c] \in Courses /\ call[c].op \in Ops
      /\ CallFits(call[c], r, disk[r.storage])
      /\ \A b \in Calls : b # c => /\ Apart(call[c], r, call[b], ops[call[b].op])
                                  /\ Apart(call[b], ops[call[b].op], call[c], r)
  BY <1>1, CallKnown DEF Target
<1>3. faults' \in Nat /\ call \in [Calls -> Courses] BY <1>1 DEF BackendInv, BackendTyped
<1>4. PICK p \in {"queued", "commit"}, l \in BOOLEAN :
        l = TRUE /\ p = IF call[c].last THEN "commit" ELSE "queued"
  BY <1>2
<1>5. PICK m \in Courses : m = [call[c] EXCEPT !.pc = p, !.last = l] BY <1>2 DEF Courses
<1>6. /\ m.pc = p /\ m.last = l /\ m.op = call[c].op /\ m.again = call[c].again
      /\ m.todo = call[c].todo
  BY <1>2, <1>5 DEF Courses
<1>7. call' = [call EXCEPT ![c] = m] BY <1>1, <1>3, <1>4, <1>5 DEF Courses
<1>8. Active(m) /\ ~First(m, r) /\ (Over(m) => Over(call[c])) /\ m.last
  BY SMTT(30), <1>1, <1>4, <1>6 DEF Active, First, Over
<1>9. CallFits(m, r, disk[r.storage]) BY SMTT(30), <1>1, <1>2, <1>4, <1>6, <1>8 DEF CallFits
<1>10. ASSUME NEW b \in Calls, b # c
       PROVE  /\ Apart(m, r, call[b], ops[call[b].op])
              /\ Apart(call[b], ops[call[b].op], m, r)
  BY <1>1, <1>4, <1>6, <1>2, <1>8, <1>10 DEF Past, Apart
<1> QED BY <1>1, <1>2, <1>3, <1>6, <1>7, <1>8, <1>9, <1>10, OneCallSteps

LEMMA RepeatStep ==
    ASSUME BackendInv, NEW c \in Calls, NEW o \in Ops, Repeat(c, o)
    PROVE  BackendInv'
<1> DEFINE r == ops[o]
<1>1. /\ open.pc = "yes" /\ r.phase = "prepared" /\ r.kind \notin {"detach", "destroy"}
      /\ call' = [call EXCEPT ![c] =
           [NoCall EXCEPT !.pc = "queued", !.op = o, !.again = TRUE,
                          !.last = r.kind # "provision"]]
      /\ UNCHANGED <<ops, storages, disk, open, faults>>
  BY DEF Repeat, Resumes
<1>2. PICK p \in {"queued"}, a \in BOOLEAN, l \in BOOLEAN :
        p = "queued" /\ a = TRUE /\ l = (r.kind # "provision")
  OBVIOUS
<1>3. PICK m \in Courses : m = [NoCall EXCEPT !.pc = p, !.op = o, !.again = a, !.last = l]
  BY <1>2, NoCallTyped DEF Courses
<1>4. /\ m.pc = p /\ m.op = o /\ m.again = a /\ m.last = l BY <1>3, NoCallTyped DEF Courses
<1>5. call' = [call EXCEPT ![c] = m] BY <1>1, <1>2, <1>3
<1>6. /\ Active(m) /\ ~First(m, r) /\ ~Over(m) /\ m.op \in Ops
      /\ r.kind # "provision" <=> m.last
      /\ Past(m) => r.kind # "provision"
  BY <1>2, <1>4 DEF Active, First, Over, Past
<1>7. CallFits(m, r, disk[r.storage]) BY <1>1, <1>2, <1>4, <1>6 DEF CallFits
<1>8. ASSUME NEW b \in Calls, b # c
      PROVE  /\ Apart(m, r, call[b], ops[call[b].op])
             /\ Apart(call[b], ops[call[b].op], m, r)
  BY <1>1, <1>2, <1>4, <1>6 DEF Apart, First
<1>9. faults' \in Nat BY <1>1 DEF BackendInv, BackendTyped
<1> QED BY <1>1, <1>4, <1>5, <1>6, <1>7, <1>8, <1>9, OneCallSteps

\* The program that a call begins is the one of its operation.
Program(m, r, d) ==
    IF m.last /\ r.kind = "provision"
    THEN <<FdOn("publication-root", 0)>>
    ELSE CASE r.kind = "provision" -> provisionSession(m.again)
           [] r.kind = "attach" -> prepareWritableAttachment(r.before)
           [] r.kind = "restore-attach" -> prepareRestoreAttachment(r.before)
           [] r.kind = "detach" -> detachAttachment
           [] r.kind = "destroy" -> destroySession(d)

LEMMA ProgramBegun ==
    ASSUME NEW r, r.kind \in OpKinds, NEW m, r.kind # "provision" => m.last,
           NEW d \in Disks, NEW t, t = Program(m, r, d)
    PROVE  /\ r.kind = "provision" /\ m.last => t = P1
           /\ r.kind = "provision" /\ ~m.last /\ m.again => t = ObservesMount
           /\ r.kind = "provision" /\ ~m.last /\ ~m.again => t = provision
           /\ r.kind = "attach" =>
                t = IF r.before.root = 0 THEN MakesRoot ELSE ObservesRoot(r.before.root)
           /\ r.kind = "restore-attach" => t = ObservesRoot(NewRoot(r))
           /\ r.kind = "detach" => t = Syncs
           /\ r.kind = "destroy" => t \in DestroyTodos \ {<<>>, Q1}
<1>1. CASE r.kind = "provision"
  BY <1>1, Zenon DEF Program, P1, provisionSession, ObservesMount
<1>2. CASE r.kind = "attach"
  BY <1>2, Zenon DEF Program, prepareWritableAttachment, MakesRoot, ObservesRoot
<1>3. CASE r.kind = "restore-attach"
  BY <1>3 DEF Program, prepareRestoreAttachment, planRestoreDestination, NewRoot,
     ObservesRoot
<1>4. CASE r.kind = "detach" BY <1>4 DEF Program, detachAttachment, Syncs
<1>5. CASE r.kind = "destroy" BY <1>5, DestroyStarts DEF Program, destroySession
<1> QED BY <1>1, <1>2, <1>3, <1>4, <1>5 DEF OpKinds

LEMMA ProgramTyped ==
    ASSUME NEW r \in OpRows, NEW m, NEW t,
           \/ t \in {P1, ObservesMount, provision, MakesRoot, Syncs}
           \/ t = ObservesRoot(r.before.root) \/ t = ObservesRoot(r.before.epoch + 2)
           \/ t \in DestroyTodos \ {<<>>, Q1}
    PROVE  t \in Todos /\ t # <<>>
<1>1. r.before.root \in 0 .. MaxEpoch + 2 /\ r.before.epoch + 2 \in 0 .. MaxEpoch + 2
  BY ProviderStateAssumption DEF OpRows, StorageRows
<1>2. CASE t \in {P1, ObservesMount, provision, MakesRoot, Syncs}
  BY SMTT(30), <1>2, ProvisionGoesOn, ObservationGoesOn DEF Todos, ProvisionTodos
<1>3. ASSUME NEW x \in 0 .. MaxEpoch + 2, t = ObservesRoot(x)
      PROVE  t \in Todos /\ t # <<>>
  BY <1>3, ProvisionGoesOn, ObservationGoesOn DEF Todos
<1>4. CASE t \in DestroyTodos \ {<<>>, Q1} BY <1>4, Zenon DEF Todos
<1> QED BY <1>1, <1>2, <1>3, <1>4

LEMMA DriveStep ==
    ASSUME BackendInv, NEW c \in Calls, Drive(c)
    PROVE  BackendInv'
<1> DEFINE r == ops[call[c].op]
           d == disk[r.storage]
<1>1. /\ call[c].pc = "queued" /\ acquireOperationLock(c) /\ Active(call[c])
      /\ call' = [call EXCEPT ![c].pc = "driver", ![c].todo = DriverCall(c)]
      /\ UNCHANGED <<ops, storages, disk, open, faults>>
  BY DEF Drive, Active
<1>2. /\ open.pc = "yes" /\ call[c] \in Courses /\ call[c].op \in Ops /\ r.phase # "none"
      /\ CallFits(call[c], r, d)
      /\ \A b \in Calls : b # c => /\ Apart(call[c], r, call[b], ops[call[b].op])
                                  /\ Apart(call[b], ops[call[b].op], call[c], r)
  BY <1>1, CallKnown DEF Target
<1>3. r \in OpRows /\ r.kind \in OpKinds /\ d \in Disks BY <1>2, OpKnown
<1>4. faults' \in Nat /\ call \in [Calls -> Courses] BY <1>1 DEF BackendInv, BackendTyped
<1>5. PICK t : t = DriverCall(c)
  OBVIOUS
<1>6. t = Program(call[c], r, d) BY <1>5 DEF DriverCall, Program, Kind, Before, Target
<1>7. r.kind # "provision" => call[c].last BY SMTT(30), <1>1, <1>2 DEF CallFits
<1>8. /\ r.kind = "provision" /\ call[c].last => t = P1
      /\ r.kind = "provision" /\ ~call[c].last /\ call[c].again => t = ObservesMount
      /\ r.kind = "provision" /\ ~call[c].last /\ ~call[c].again => t = provision
      /\ r.kind = "attach" =>
           t = IF r.before.root = 0 THEN MakesRoot ELSE ObservesRoot(r.before.root)
      /\ r.kind = "restore-attach" => t = ObservesRoot(NewRoot(r))
      /\ r.kind = "detach" => t = Syncs
      /\ r.kind = "destroy" => t \in DestroyTodos \ {<<>>, Q1}
  BY <1>3, <1>6, <1>7, ProgramBegun
<1>9. \/ t \in {P1, ObservesMount, provision, MakesRoot, Syncs}
      \/ t = ObservesRoot(r.before.root) \/ t = ObservesRoot(r.before.epoch + 2)
      \/ t \in DestroyTodos \ {<<>>, Q1}
  BY <1>3, <1>7, <1>8 DEF NewRoot, OpKinds
<1>10. t \in Todos /\ t # <<>> BY <1>3, <1>9, ProgramTyped
<1>11. PICK p \in {"driver"} : p = "driver"
  OBVIOUS
<1>12. PICK m \in Courses : m = [call[c] EXCEPT !.pc = p, !.todo = t]
  BY <1>2, <1>10, <1>11 DEF Courses
<1>13. /\ m.pc = p /\ m.last = call[c].last /\ m.op = call[c].op /\ m.again = call[c].again
       /\ m.todo = t
  BY <1>2, <1>12 DEF Courses
<1>14. call' = [call EXCEPT ![c] = m] BY <1>1, <1>4, <1>5, <1>11, <1>12 DEF Courses
<1>15. Active(m) /\ (First(m, r) <=> First(call[c], r)) /\ ~Over(m)
       /\ (Past(m) => Past(call[c]))
  BY <1>1, <1>10, <1>11, <1>13 DEF Active, First, Over, Past
<1>16. OnCourse(m, r) BY <1>8, <1>13, Zenon DEF OnCourse, ProvisionTodos
<1>17. First(m, r) => r.phase = "prepared" /\ Built(m, d)
  <2> SUFFICES ASSUME First(m, r)
               PROVE  r.phase = "prepared" /\ Built(m, d)
    OBVIOUS
  <2>1. r.phase = "prepared" /\ Built(call[c], d) BY <1>1, <1>2, <1>15 DEF CallFits
  <2>2. ~d.mounted /\ d.loops = 0 BY <1>1, <2>1 DEF Built, Bare
  <2>3. t = provision BY <1>8, <1>13 DEF First
  <2>4. PICK k \in 0 .. 7 : k = 7
    OBVIOUS
  <2>5. Len(m.todo) = k BY <1>13, <2>3, <2>4, ProvisionGoesOn
  <2>6. /\ k >= 3 => ~d.mounted
        /\ k >= 4 => d.loops = 0
        /\ k = 3 => d.loops = 1
        /\ k <= 5 => d.live.image = "ext4" /\ d.kept.image = "ext4"
        /\ k <= 4 => d.live.dir /\ d.kept.dir
    BY <2>2, <2>4, SMTT(30)
  <2>7. Built(m, d) BY <1>11, <1>13, <2>4, <2>5, <2>6, BuiltAt, Zenon
  <2> QED BY <2>1, <2>7
<1>18. CallFits(m, r, d)
  <2>1. r.kind = "destroy" => m.todo # Q1 BY <1>8, <1>13, Zenon
  <2> QED BY <1>1, <1>2, <1>11, <1>13, <1>15, <1>16, <1>17, <2>1 DEF CallFits
<1>19. ASSUME NEW b \in Calls, b # c
       PROVE  /\ Apart(m, r, call[b], ops[call[b].op])
              /\ Apart(call[b], ops[call[b].op], m, r)
  BY <1>1, <1>2, <1>13, <1>15, <1>19 DEF acquireOperationLock, Target, Apart
<1> QED BY <1>1, <1>2, <1>4, <1>13, <1>14, <1>15, <1>18, <1>19, OneCallSteps

LEMMA TailTyped ==
    ASSUME NEW r, r.kind \in OpKinds, NEW m, m.pc = "driver", m.todo # <<>>, OnCourse(m, r)
    PROVE  Tail(m.todo) \in Todos
<1>1. CASE Mild(m, r) BY <1>1, MildIs DEF Todos, ProvisionTodos
<1>2. CASE First(m, r)
  <2>1. m.todo \in {provision, P6, P5, P4, P3, P2, P1} BY <1>2, FirstIs
  <2>2. Tail(m.todo) \in {P6, P5, P4, P3, P2, P1, <<>>} BY <2>1, ProvisionGoesOn, Zenon
  <2> QED BY <2>2, Zenon DEF Todos, ProvisionTodos
<1>3. CASE r.kind = "detach" BY SMTT(30), <1>3, ObservationGoesOn DEF OnCourse, Todos, ProvisionTodos
<1>4. CASE r.kind = "destroy" BY <1>4, DestroyGoesOn DEF OnCourse, DestroyTodos, Todos
<1> QED BY <1>1, <1>2, <1>3, <1>4 DEF Mild

\* What an invocation of a driver call leaves, whether it succeeds or not.
LEMMA DriverLeaves ==
    ASSUME BackendInv, NEW c \in Calls, call[c].pc = "driver", call[c].todo # <<>>,
           UNCHANGED <<ops, storages>>,
           NEW g \in invokeFdOperation(disk[Target(c)], Head(call[c].todo)),
           NEW e \in Sides(g, disk[Target(c)]), disk' = [disk EXCEPT ![Target(c)] = e]
    PROVE  /\ disk' \in [Storages -> Disks] /\ disk'[Target(c)] = e
           /\ \A t \in Storages : DiskOk(t)'
           /\ \A o \in Ops : OpOk(o)'
           /\ OneEach'
           /\ \A b \in Calls : b # c =>
                CallFits(call[b], ops'[call[b].op], disk'[ops'[call[b].op].storage])
<1> DEFINE o == call[c].op
           r == ops[o]
           s == r.storage
           d == disk[s]
           st == storages[s]
<1>1. Active(call[c]) /\ Target(c) = s BY DEF Active, Target
<1>2. /\ call[c] \in Courses /\ o \in Ops /\ r.phase # "none" /\ CallFits(call[c], r, d)
      /\ \A b \in Calls : b # c => Apart(call[c], r, call[b], ops[call[b].op])
  BY <1>1, CallKnown
<1>3. /\ r \in OpRows /\ r.kind \in OpKinds /\ s \in Storages /\ st \in StorageRows
      /\ d \in Disks /\ OpFits(r, st) /\ DiskOk(s)
      /\ r.phase = "prepared" => /\ Pending(s) = {o}
                                 /\ Destroying(s) <=> r.kind = "destroy"
  BY <1>2, OpKnown, ZenonT(30)
<1>4. PICK idle \in BOOLEAN, doomed \in BOOLEAN :
        idle = (Pending(s) = {}) /\ doomed = Destroying(s)
  BY ZenonT(30) DEF Destroying
<1>5. /\ Hosted(d, st, idle, doomed)
      /\ r.phase = "prepared" => ~idle
      /\ r.phase = "prepared" => (doomed <=> r.kind = "destroy")
  BY <1>3, <1>4, ZenonT(30) DEF DiskOk
<1>6. PICK x \in Disks, y \in StorageRows, v \in OpRows, m \in Courses :
        x = d /\ y = st /\ v = r /\ m = call[c]
  BY <1>2, <1>3
<1>7. g \in invokeFdOperation(x, Head(m.todo)) /\ e \in Sides(g, x) BY <1>1, <1>6, SMTT(30)
<1>8. /\ m.pc = "driver" /\ m.todo # <<>> /\ CallFits(m, v, x) /\ Hosted(x, y, idle, doomed)
      /\ v.kind \in OpKinds /\ OpFits(v, y)
      /\ v.phase = "prepared" => ~idle
      /\ v.phase = "prepared" => (doomed <=> v.kind = "destroy")
  BY <1>2, <1>3, <1>5, <1>6, Zenon
<1>9. e \in Disks /\ Hosted(e, y, idle, doomed) BY <1>7, <1>8, DriverKeeps
<1>10. e \in Disks /\ Hosted(e, st, idle, doomed) BY <1>6, <1>9
<1>11. Hosted(e, st, Pending(s) = {}, Destroying(s)) BY <1>4, <1>10, SMTT(30)
<1>12. /\ disk' \in [Storages -> Disks] /\ disk'[s] = e
       /\ \A t \in Storages : t # s => disk'[t] = disk[t]
       /\ \A t \in Storages : DiskOk(t)'
       /\ \A q \in Ops : OpOk(q)'
       /\ OneEach'
  BY <1>1, <1>3, <1>10, <1>11, DiskSteps, ZenonT(30)
<1>13. ASSUME NEW b \in Calls, b # c
       PROVE  CallFits(call[b], ops'[call[b].op], disk'[ops'[call[b].op].storage])
  <2> DEFINE n == call[b]
             q == ops[n.op]
  <2>1. CASE ~Active(n) BY <2>1 DEF CallFits
  <2>2. CASE Active(n)
    <3>1. n \in Courses /\ n.op \in Ops /\ q.phase # "none" /\ CallFits(n, q, disk[q.storage])
      BY <2>2, CallKnown DEF Target
    <3>2. q \in OpRows /\ q.storage \in Storages /\ OpFits(q, storages[q.storage])
      BY SMTT(30), <3>1, OpKnown
    <3>3. CASE q.storage # s BY <1>12, <3>1, <3>2, <3>3
    <3>4. CASE q.storage = s
      <4>1. r.phase = "prepared" /\ q.phase = "prepared" => o = n.op /\ r = q
        BY <1>2, <3>1, <3>4 DEF BackendInv, OneEach
      <4>2. CallFits(n, q, d) /\ OpFits(q, st) BY <3>1, <3>2, <3>4
      <4>3. CallFits(n, q, e)
        <5>1. PICK w \in OpRows, k \in Courses : w = q /\ k = n BY <3>1, <3>2, SMTT(30)
        <5>2. /\ OpFits(w, y) /\ CallFits(k, w, x) /\ Active(k) /\ Apart(m, v, k, w)
              /\ v.phase = "prepared" /\ w.phase = "prepared" => m.op = k.op /\ v = w
          BY <1>2, <1>13, <1>6, <2>2, <4>1, <4>2, <5>1
        <5>3. CallFits(k, w, e) BY <1>7, <1>8, <5>2, OthersEndure
        <5> QED BY <5>1, <5>3
      <4> QED BY <1>12, <3>4, <4>3
    <3> QED BY <3>3, <3>4
  <2> QED BY <2>1, <2>2
<1> QED BY <1>1, <1>12, <1>13

LEMMA InvokeStep ==
    ASSUME BackendInv, NEW c \in Calls, Invoke(c)
    PROVE  BackendInv'
<1> DEFINE r == ops[call[c].op]
           d == disk[r.storage]
<1>1. PICK g \in invokeFdOperation(disk[Target(c)], Head(call[c].todo)) :
        disk' = [disk EXCEPT ![Target(c)] = g]
  BY DEF Invoke
<1>2. /\ call[c].pc = "driver" /\ call[c].todo # <<>> /\ Active(call[c])
      /\ call' = [call EXCEPT ![c].todo = Tail(call[c].todo)]
      /\ UNCHANGED <<ops, storages, open, faults>> /\ Target(c) = r.storage
  BY SMTT(30) DEF Invoke, Active, Target
<1>3. g \in Sides(g, disk[Target(c)]) BY SMTT(30) DEF Sides
<1>4. /\ disk' \in [Storages -> Disks] /\ disk'[r.storage] = g
      /\ \A t \in Storages : DiskOk(t)'
      /\ \A o \in Ops : OpOk(o)'
      /\ OneEach'
      /\ \A b \in Calls : b # c =>
           CallFits(call[b], ops'[call[b].op], disk'[ops'[call[b].op].storage])
  BY <1>1, <1>2, <1>3, DriverLeaves
<1>5. /\ open.pc = "yes" /\ call[c] \in Courses /\ call[c].op \in Ops /\ r.phase # "none"
      /\ CallFits(call[c], r, d)
      /\ \A b \in Calls : b # c => /\ Apart(call[c], r, call[b], ops[call[b].op])
                                  /\ Apart(call[b], ops[call[b].op], call[c], r)
  BY <1>2, CallKnown DEF Target
<1>6. /\ r \in OpRows /\ r.kind \in OpKinds /\ d \in Disks /\ r.storage \in Storages
      /\ OpFits(r, storages[r.storage]) /\ DiskOk(r.storage)
  BY <1>5, OpKnown, SMTT(30)
<1>7. Tail(call[c].todo) \in Todos BY <1>2, <1>5, <1>6, TailTyped DEF CallFits
<1>8. call \in [Calls -> Courses] BY DEF BackendInv, BackendTyped
<1>9. PICK t \in Todos : t = Tail(call[c].todo) BY <1>7
<1>10. PICK m \in Courses : m = [call[c] EXCEPT !.todo = t] BY <1>5 DEF Courses
<1>11. /\ m.pc = "driver" /\ m.last = call[c].last /\ m.op = call[c].op
       /\ m.again = call[c].again /\ m.todo = t
  BY <1>2, <1>5, <1>10 DEF Courses
<1>12. call' = [call EXCEPT ![c] = m] BY <1>2, <1>8, <1>9, <1>10, SMTT(30) DEF Courses
<1>13. CallFits(m, r, g)
  BY <1>1, <1>2, <1>5, <1>6, <1>9, <1>11, DriverAdvances, Zenon DEF DiskOk
<1>14. ASSUME NEW b \in Calls, b # c
       PROVE  /\ Apart(m, r, call[b], ops[call[b].op])
              /\ Apart(call[b], ops[call[b].op], m, r)
  <2> DEFINE n == call[b]
             q == ops[n.op]
  <2>1. (First(m, r) <=> First(call[c], r)) /\ Active(m) BY <1>2, <1>11 DEF First, Active
  <2>2. Active(n) /\ n.op = call[c].op /\ First(n, q) => ~Past(m)
    <3> SUFFICES ASSUME Active(n), n.op = call[c].op, First(n, q), Past(m)
                 PROVE  FALSE
      BY SMTT(30)
    <3>1. q = r /\ ~First(call[c], r) /\ ~Past(call[c]) /\ n.pc # "driver"
      BY <1>2, <1>5, <1>14, SMTT(30) DEF Apart
    <3>2. r.kind = "provision" /\ n.pc = "queued" /\ ~call[c].last
      BY SMTT(30), <3>1 DEF First, Past
    <3>3. call[c].todo = ObservesMount
      BY <1>2, <1>5, <1>6, <3>1, <3>2, MildIs DEF CallFits, Active, Mild
    <3>4. d.mounted
      BY <1>1, <1>2, <3>3, ObservationGoesOn, Invokes DEF observeMount, readMountEvidence
    <3>5. CallFits(n, q, d) BY <2>2, <3>1, CallKnown DEF Target
    <3>6. Bare(d) BY <3>2, <3>5, SMTT(30) DEF CallFits, Built
    <3> QED BY <3>4, <3>6, SMTT(30) DEF Bare
  <2> QED BY <1>2, <1>5, <1>11, <1>14, <2>1, <2>2 DEF Apart
<1>15. /\ call' \in [Calls -> Courses]
       /\ \A b \in Calls : CallOk(b)'
       /\ \A a, b \in Calls : PairOk(a, b)'
       /\ OpenOk' /\ OpensUnlessCut'
  <2>1. \A a, b \in Calls : a # b => Apart(call[a], ops[call[a].op], call[b], ops[call[b].op])
    BY DEF BackendInv, PairOk
  <2> QED BY <1>2, <1>4, <1>5, <1>11, <1>12, <1>13, <1>14, <2>1, CallSteps DEF Active
<1>16. /\ ops' \in [Ops -> OpRows] /\ storages' \in [Storages -> StorageRows]
       /\ open' \in Openings /\ faults' \in Nat
  BY <1>2 DEF BackendInv, BackendTyped
<1> QED BY <1>4, <1>15, <1>16 DEF BackendInv, BackendTyped

LEMMA FailStep ==
    ASSUME BackendInv, NEW c \in Calls, Fail(c)
    PROVE  BackendInv'
<1> DEFINE d == disk[Target(c)]
<1>1. PICK e \in Partly(d, Head(call[c].todo)) : disk' = [disk EXCEPT ![Target(c)] = e]
  BY DEF Fail
<1>2. /\ call[c].pc = "driver" /\ call[c].todo # <<>> /\ Active(call[c])
      /\ call' = [call EXCEPT ![c] = NoCall]
      /\ UNCHANGED <<ops, storages, open>> /\ faults' = faults + 1
  BY DEF Fail, Fault, Active
<1>3. open.pc = "yes" /\ d \in Disks BY <1>2, CallKnown, OpKnown DEF Target
<1>4. /\ faults' \in Nat /\ disk \in [Storages -> Disks] /\ open' \in Openings
      /\ ops' \in [Ops -> OpRows] /\ storages' \in [Storages -> StorageRows]
  BY <1>2 DEF BackendInv, BackendTyped
<1>5. CASE e = d BY <1>1, <1>4, <1>5, <1>2, CallEnds
<1>6. ASSUME NEW g \in invokeFdOperation(d, Head(call[c].todo)), e = g \/ e = Unsynced(g, d)
      PROVE  BackendInv'
  <2>1. e \in Sides(g, d) BY <1>6 DEF Sides
  <2>2. /\ disk' \in [Storages -> Disks]
        /\ \A t \in Storages : DiskOk(t)'
        /\ \A o \in Ops : OpOk(o)'
        /\ OneEach'
        /\ \A b \in Calls : b # c =>
             CallFits(call[b], ops'[call[b].op], disk'[ops'[call[b].op].storage])
    BY <1>1, <1>2, <2>1, DriverLeaves
  <2>3. \A a, b \in Calls : a # b => Apart(call[a], ops[call[a].op], call[b], ops[call[b].op])
    BY DEF BackendInv, PairOk
  <2>4. /\ call' \in [Calls -> Courses]
        /\ \A b \in Calls : CallOk(b)'
        /\ \A a, b \in Calls : PairOk(a, b)'
        /\ OpenOk' /\ OpensUnlessCut'
    BY <1>2, <1>3, <2>2, <2>3, NoCallTyped, CallSteps
  <2> QED BY <1>4, <2>2, <2>4 DEF BackendInv, BackendTyped
<1> QED BY <1>1, <1>3, <1>5, <1>6, PartlyIs

LEMMA PrepareStep ==
    ASSUME BackendInv, NEW c \in Calls, NEW o \in Ops, NEW kind \in Kinds, NEW s \in Storages,
           Prepare(c, o, kind, s)
    PROVE  BackendInv'
<1> DEFINE st == storages[s]
<1>1. /\ open.pc = "yes" /\ Admits(kind, st) /\ ops[o] = NoRecord
      /\ \A q \in Ops : ~(ops[q].phase = "prepared" /\ ops[q].storage = s)
      /\ assertPreparePrecondition(st, kind)
      /\ ops' = [ops EXCEPT ![o] = PreparedRecord(kind, s, st)]
      /\ call' = [call EXCEPT ![c] = [NoCall EXCEPT !.pc = "queued", !.op = o,
                                                    !.last = kind # "provision"]]
      /\ UNCHANGED <<storages, disk, open, faults>>
  BY DEF Prepare, AbsPrepare
<1>2. /\ ops \in [Ops -> OpRows] /\ storages \in [Storages -> StorageRows]
      /\ disk \in [Storages -> Disks] /\ open \in Openings /\ faults \in Nat
      /\ OneEach /\ DiskOk(s)
      /\ \A q \in Ops : OpOk(q)
      /\ \A t \in Storages : DiskOk(t)
      /\ \A a, b \in Calls : PairOk(a, b)
  BY DEF BackendInv, BackendTyped
<1>3. kind \in OpKinds BY <1>1 DEF Admits, Kinds, OpKinds
<1>4. NoStorage \in StorageRows BY ProviderStateAssumption DEF Lives, NoStorage, StorageRows
<1>5. PICK r \in OpRows : r = PreparedRecord(kind, s, st)
  BY <1>4, <1>2, <1>3 DEF PreparedRecord, OpRows
<1>6. r.phase = "prepared" /\ r.kind = kind /\ r.storage = s /\ r.before = st
  BY <1>5 DEF PreparedRecord
<1>7. /\ ops' \in [Ops -> OpRows] /\ ops'[o] = r
      /\ \A q \in Ops : q # o => ops'[q] = ops[q]
  BY <1>1, <1>2, <1>5
<1>8. OpFits(r, st)
  BY <1>1, <1>3, <1>6 DEF assertPreparePrecondition, OpKinds, Admits,
     validateAttachPrecondition, planRestoreDestination, OpFits
<1>9. \A q \in Ops : OpOk(q)' BY <1>1, <1>2, <1>6, <1>7, <1>8 DEF OpOk
<1>10. OneEach' BY <1>1, <1>2, <1>6, <1>7 DEF OneEach
<1>11. ASSUME NEW t \in Storages
       PROVE  DiskOk(t)'
  BY <1>1, <1>6, <1>7, <1>2 DEF Pending, Destroying, DiskOk, Hosted, NoRecord
<1>12. PICK p \in {"queued"}, l \in BOOLEAN : p = "queued" /\ l = (kind # "provision")
  OBVIOUS
<1>13. PICK m \in Courses : m = [NoCall EXCEPT !.pc = p, !.op = o, !.last = l]
  BY <1>12, NoCallTyped DEF Courses
<1>14. m.pc = p /\ m.op = o /\ m.last = l /\ m.again = NoCall.again
  BY <1>13, NoCallTyped DEF Courses
<1>15. call' = [call EXCEPT ![c] = m] BY <1>1, <1>12, <1>13
<1>16. Active(m) /\ ~Over(m) BY <1>12, <1>14 DEF Active, Over
<1>17. CallFits(m, ops'[m.op], disk'[ops'[m.op].storage])
  <2>1. kind = "provision" => Bare(disk[s])
    BY <1>1, <1>6, <1>8, <1>2 DEF Pending, OpFits, DiskOk, Hosted
  <2>2. First(m, r) => r.phase = "prepared" /\ Built(m, disk[s])
    BY <1>6, <1>12, <1>14, <2>1 DEF First, Built
  <2>3. CallFits(m, r, disk[s]) BY <1>6, <1>12, <1>14, <1>16, <2>2, ZenonT(30) DEF CallFits
  <2> QED BY <1>1, <1>6, <1>7, <1>14, <2>3
<1>18. ASSUME NEW b \in Calls, Active(call[b])
       PROVE  /\ call[b].op \in Ops \ {o} /\ ops'[call[b].op] = ops[call[b].op]
              /\ CallFits(call[b], ops[call[b].op], disk[ops[call[b].op].storage])
  BY SMTT(30), <1>1, <1>7, <1>18, CallKnown DEF Target, NoRecord
<1>19. ASSUME NEW b \in Calls
       PROVE  CallFits(call[b], ops'[call[b].op], disk'[ops'[call[b].op].storage])
  BY <1>1, <1>18 DEF CallFits
<1>20. ASSUME NEW a \in Calls, NEW b \in Calls, a # b
       PROVE  Apart(call[a], ops'[call[a].op], call[b], ops'[call[b].op])
  BY <1>2, <1>18, <1>20 DEF Apart, PairOk
<1>21. ASSUME NEW b \in Calls, b # c
       PROVE  /\ Apart(m, ops'[m.op], call[b], ops'[call[b].op])
              /\ Apart(call[b], ops'[call[b].op], m, ops'[m.op])
  BY <1>12, <1>14, <1>18 DEF Apart
<1>22. /\ call' \in [Calls -> Courses]
       /\ \A b \in Calls : CallOk(b)'
       /\ \A a, b \in Calls : PairOk(a, b)'
       /\ OpenOk' /\ OpensUnlessCut'
  BY <1>1, <1>14, <1>15, <1>16, <1>17, <1>19, <1>20, <1>21, CallSteps
<1>23. storages' \in [Storages -> StorageRows] /\ disk' \in [Storages -> Disks]
       /\ open' \in Openings /\ faults' \in Nat
  BY <1>1, <1>2
<1> QED BY <1>7, <1>9, <1>10, <1>11, <1>22, <1>23 DEF BackendInv, BackendTyped

\* A call that finds its operation committed only ends.
LEMMA CommittedStep ==
    ASSUME BackendInv, NEW c \in Calls, commit(c), ops[call[c].op].phase # "prepared"
    PROVE  BackendInv'
BY CallEnds DEF commit, Active, BackendInv, BackendTyped

LEMMA CommitStep ==
    ASSUME BackendInv, NEW c \in Calls, commit(c), ops[call[c].op].phase = "prepared"
    PROVE  BackendInv'
<1> DEFINE o == call[c].op
           r == ops[o]
           s == r.storage
<1>1. PICK after : after = StorageState(r.kind, r.before) BY SMTT(30)
<1>2. /\ call[c].pc = "commit" /\ Active(call[c])
      /\ ops' = [ops EXCEPT ![o] = CommittedRecord(r, after)]
      /\ storages' = [storages EXCEPT ![s] = after]
      /\ call' = [call EXCEPT ![c] = NoCall]
      /\ UNCHANGED <<disk, open, faults>>
  BY <1>1 DEF commit, Active, Kind, Before, Target
<1>3. /\ open.pc = "yes" /\ o \in Ops /\ CallFits(call[c], r, disk[s])
      /\ \A b \in Calls : b # c => Apart(call[c], r, call[b], ops[call[b].op])
  BY <1>2, CallKnown DEF Target
<1>4. /\ r \in OpRows /\ r.kind \in OpKinds /\ s \in Storages /\ storages[s] \in StorageRows
      /\ disk[s] \in Disks /\ OpFits(r, storages[s]) /\ DiskOk(s)
      /\ Pending(s) = {o} /\ (Destroying(s) <=> r.kind = "destroy")
  BY <1>3, OpKnown, SMTT(30)
<1>5. /\ ops \in [Ops -> OpRows] /\ storages \in [Storages -> StorageRows]
      /\ disk \in [Storages -> Disks] /\ open \in Openings /\ faults \in Nat
      /\ OneEach
      /\ \A q \in Ops : OpOk(q)
      /\ \A t \in Storages : DiskOk(t)
      /\ \A a, b \in Calls : PairOk(a, b)
  BY SMTT(30) DEF BackendInv, BackendTyped
<1>6. Achieved(r, disk[s]) /\ storages[s] = r.before
  BY SMTT(30), <1>2, <1>3, <1>4 DEF CallFits, Over, OpFits
<1>7. /\ after \in StorageRows /\ after.life # "none"
      /\ Hosted(disk[s], after, TRUE, FALSE)
  <2>1. PICK d \in Disks, v \in OpRows : d = disk[s] /\ v = r BY <1>4
  <2>2. PICK idle \in BOOLEAN, doomed \in BOOLEAN :
          idle = (Pending(s) = {}) /\ doomed = Destroying(s)
    BY DEF Destroying
  <2>3. Hosted(d, v.before, idle, doomed) /\ ~idle /\ (doomed <=> v.kind = "destroy")
    BY <1>4, <1>6, <2>1, <2>2 DEF DiskOk
  <2>4. Hosted(d, v.before, FALSE, v.kind = "destroy") BY <2>3 DEF Hosted
  <2>5. OpFits(v, v.before) /\ Achieved(v, d) /\ v.phase = "prepared" BY <1>4, <1>6, <2>1
  <2>6. /\ StorageState(v.kind, v.before) \in StorageRows
        /\ StorageState(v.kind, v.before).life # "none"
        /\ Hosted(d, StorageState(v.kind, v.before), TRUE, FALSE)
    BY <2>4, <2>5, CommitHosted
  <2> QED BY <1>1, <2>1, <2>6
<1>8. PICK w \in OpRows : w = CommittedRecord(r, after)
  BY <1>4, <1>7, ZenonT(30) DEF CommittedRecord, OpRows
<1>9. /\ w.phase = "committed" /\ w.kind = r.kind /\ w.storage = s /\ w.before = r.before
  BY SMTT(30), <1>8, <1>4 DEF CommittedRecord, OpRows
<1>10. /\ ops' \in [Ops -> OpRows] /\ ops'[o] = w
       /\ \A q \in Ops : q # o => ops'[q] = ops[q]
       /\ storages' \in [Storages -> StorageRows] /\ storages'[s] = after
       /\ \A t \in Storages : t # s => storages'[t] = storages[t]
  BY <1>2, <1>3, <1>4, <1>5, <1>7, <1>8, ZenonT(30)
<1>11. ASSUME NEW q \in Ops
       PROVE  OpOk(q)'
  <2>1. CASE q = o BY <1>4, <1>7, <1>9, <1>10, <2>1 DEF OpOk, OpFits
  <2>2. CASE q # o /\ ops[q].phase = "none" BY SMTT(30), <1>5, <1>10, <2>2 DEF OpOk, OpFits
  <2>3. CASE q # o /\ ops[q].phase # "none" /\ ops[q].storage = s
    BY <1>3, <1>5, <2>3, <1>7, <1>10 DEF OneEach, OpOk, OpFits
  <2>4. CASE q # o /\ ops[q].phase # "none" /\ ops[q].storage # s
    BY <2>4, OpKnown, <1>5, <1>10 DEF OpOk
  <2> QED BY SMTT(30), <2>1, <2>2, <2>3, <2>4
<1>12. OneEach' BY SMTT(30), <1>5, <1>9, <1>10 DEF OneEach
<1>13. ASSUME NEW t \in Storages
       PROVE  DiskOk(t)'
  <2>1. CASE t = s
    BY <1>4, <1>9, <1>10, <2>1, <1>7, <1>2 DEF Pending, Destroying, Hosted, DiskOk
  <2>2. CASE t # s
    <3>1. Pending(t)' = Pending(t) BY <1>3, <1>9, <1>10, <2>2 DEF Pending
    <3>2. Destroying(t)' <=> Destroying(t)
      BY <1>3, <1>9, <1>10, <2>2, <3>1 DEF Destroying, Pending
    <3>3. Hosted(disk[t], storages[t], Pending(t) = {}, Destroying(t)) BY <1>5 DEF DiskOk
    <3> QED BY <1>2, <1>10, <2>2, <3>1, <3>2, <3>3 DEF DiskOk, Hosted
  <2> QED BY SMTT(30), <2>1, <2>2
<1>14. ASSUME NEW b \in Calls, Active(call[b])
       PROVE  LET q == call[b].op
              IN  /\ q \in Ops /\ ops'[q].kind = ops[q].kind
                  /\ ops'[q].storage = ops[q].storage
                  /\ CallFits(call[b], ops[q], disk[ops[q].storage])
                  /\ q # o => ops'[q] = ops[q]
                  /\ q = o => ops'[q] = w
  BY <1>9, <1>10, <1>14, CallKnown DEF Target
<1>15. ASSUME NEW b \in Calls, b # c
       PROVE  CallFits(call[b], ops'[call[b].op], disk'[ops'[call[b].op].storage])
  <2>1. CASE ~Active(call[b]) BY <2>1 DEF CallFits
  <2>2. CASE Active(call[b]) /\ call[b].op # o BY <1>2, <1>14, <2>2
  <2>3. CASE Active(call[b]) /\ call[b].op = o
    <3>1. r.kind \notin {"detach", "destroy"} /\ ~First(call[b], r)
      BY <1>2, <1>5, <1>15, <2>3 DEF Past, PairOk, Apart
    <3>2. CallFits(call[b], r, disk[s]) BY <1>14, <2>3
    <3>3. ~First(call[b], w) BY <1>9, <3>1 DEF First
    <3>4. r.kind = "provision" \/ r.kind = "attach" \/ r.kind = "restore-attach"
      BY SMTT(30), <1>4, <3>1 DEF OpKinds
    <3>5. call[b].pc = "driver" => OnCourse(call[b], w)
      BY SMTT(30), <2>3, <3>2, <1>9 DEF CallFits, OnCourse, NewRoot
    <3>6. CallFits(call[b], w, disk[s]) BY <1>9, <3>1, <3>2, <3>3, <3>5 DEF CallFits
    <3> QED BY <1>2, <1>9, <1>10, <2>3, <3>6
  <2> QED BY <2>1, <2>2, <2>3
<1>16. ASSUME NEW a \in Calls, NEW b \in Calls, a # b
       PROVE  Apart(call[a], ops'[call[a].op], call[b], ops'[call[b].op])
  BY <1>5, <1>16, <1>14 DEF Apart, PairOk, First
<1>17. /\ call' \in [Calls -> Courses]
       /\ \A b \in Calls : CallOk(b)'
       /\ \A a, b \in Calls : PairOk(a, b)'
       /\ OpenOk' /\ OpensUnlessCut'
  BY <1>2, <1>3, <1>15, <1>16, NoCallTyped, CallSteps, Zenon
<1>18. disk' \in [Storages -> Disks] /\ open' \in Openings /\ faults' \in Nat BY <1>2, <1>5
<1> QED BY <1>10, <1>11, <1>12, <1>13, <1>17, <1>18 DEF BackendInv, BackendTyped

-----------------------------------------------------------------------------
(* The process opens and closes: no method is in progress. *)

LEMMA IdleSteps ==
    ASSUME call' \in [Calls -> Courses], \A c \in Calls : call'[c] = NoCall
    PROVE  /\ \A c \in Calls : CallOk(c)'
           /\ \A b, c \in Calls : PairOk(b, c)'
  BY NoCallTyped DEF CallOk, CallFits, PairOk, Apart

LEMMA NothingServed ==
    ASSUME BackendInv, open.pc # "yes"
    PROVE  \A c \in Calls : call[c] = NoCall
  BY DEF BackendInv, OpenOk

LEMMA ClosedTyped ==
    /\ Closed \in Openings /\ Closed.pc = "no" /\ Closed.at = "none" /\ Closed.todo = <<>>
BY DEF RemountTodos, Closed, Openings

\* A state of the process in which no storage is being opened or closed.
Processes == {"no", "opening", "yes", "closing", "failed"}
LEMMA ClosedTo ==
    ASSUME NEW p \in Processes, NEW x, x = [Closed EXCEPT !.pc = p]
    PROVE  x \in Openings /\ x.pc = p /\ x.at = "none" /\ x.todo = <<>>
BY ClosedTyped DEF Openings, Processes

\* Only what the process opens or closes changes.
LEMMA OpenSteps ==
    ASSUME BackendInv, UNCHANGED <<ops, storages, disk, call, faults>>,
           \A c \in Calls : call[c] = NoCall,
           open' \in Openings, OpenOk', OpensUnlessCut'
    PROVE  BackendInv'
BY IdleSteps, SameSteps DEF BackendInv, BackendTyped

LEMMA InitializeStep ==
    ASSUME BackendInv, initialize
    PROVE  BackendInv'
<1>1. PICK p \in Processes, l \in SUBSET Storages :
        /\ p = "opening"
        /\ l = {s \in Storages : storages[s].life \notin {"none", "destroyed"}}
  BY DEF Processes
<1>2. open.pc = "no" /\ UNCHANGED <<ops, storages, disk, call, faults>> BY DEF initialize
<1>3. open' = [Closed EXCEPT !.pc = p, !.left = l] BY <1>1 DEF initialize
<1>4. /\ open' \in Openings /\ open'.pc = "opening" /\ open'.left = l
      /\ open'.at = "none" /\ open'.todo = <<>>
  BY ClosedTyped, <1>3, <1>1 DEF Openings, Processes
<1>5. \A c \in Calls : call[c] = NoCall BY <1>2, NothingServed
<1>6. \A s \in l : storages[s].life \in Lived
  BY <1>1 DEF BackendInv, BackendTyped, StorageRows, Lives, Lived
<1>7. OpenOk' BY <1>2, <1>4, <1>5, <1>6 DEF OpenOk
<1>8. OpensUnlessCut' BY <1>4 DEF OpensUnlessCut
<1> QED BY <1>2, <1>4, <1>5, <1>7, <1>8, OpenSteps

LEMMA OpenedStep ==
    ASSUME BackendInv, Opened
    PROVE  BackendInv'
BY ClosedTo, NothingServed, OpenSteps DEF Processes, Opened, OpenOk, OpensUnlessCut

LEMMA BeginCloseStep ==
    ASSUME BackendInv, beginClose
    PROVE  BackendInv'
BY ClosedTyped, OpenSteps DEF Processes, beginClose, Openings, AtRest, Lived, OpenOk,
   OpensUnlessCut

LEMMA RemountAbsentStep ==
    ASSUME BackendInv, NEW s \in Storages, remountAbsent(s)
    PROVE  BackendInv'
<1>1. /\ open.pc = "opening" /\ open.at = "none" /\ s \in open.left
      /\ ~disk[s].mounted /\ storages[s].life # "attached"
      /\ open' = [open EXCEPT !.at = s, !.todo = remount(disk[s])]
      /\ UNCHANGED <<ops, storages, disk, call, faults>>
  BY DEF remountAbsent, readMountEvidence
<1>2. /\ open \in Openings /\ disk[s] \in Disks /\ storages[s].life \in Lived
      /\ \A q \in open.left : storages[q].life \in Lived
  BY <1>1 DEF BackendInv, BackendTyped, OpenOk
<1>3. disk[s].loops = 0 \/ disk[s].loops = 1 BY <1>2 DEF Disks
<1>4. \/ disk[s].loops = 0 /\ remount(disk[s]) = R5
      \/ disk[s].loops = 1 /\ remount(disk[s]) = F4
  BY <1>3, RemountStarts
<1>5. PICK t : t = remount(disk[s])
  OBVIOUS
<1>6. t \in RemountTodos /\ t \in RemountTodos \cup QuiesceTodos
  BY <1>4, <1>5, Zenon DEF RemountTodos
<1>7. PICK y \in Openings : y = [open EXCEPT !.at = s, !.todo = t]
  BY <1>2, <1>6 DEF Openings
<1>8. y.pc = open.pc /\ y.left = open.left /\ y.at = s /\ y.todo = t
  BY <1>2, <1>7 DEF Openings
<1>9. open' = y BY <1>1, <1>5, <1>7
<1>10. Remounts(disk[s], t)
  <2>1. R5 # F4 /\ R5 # R3 /\ R5 # R2 /\ R5 # R1 /\ R5 # <<>> /\ F4 # R2 /\ F4 # R1
        /\ F4 # <<>> /\ F4 # R4
    <3>1. /\ Len(R5) # Len(F4) /\ Len(R5) # Len(R3) /\ Len(R5) # Len(R2) /\ Len(R5) # Len(R1)
          /\ Len(R5) # Len(<<>>) /\ Len(F4) # Len(R2) /\ Len(F4) # Len(R1)
          /\ Len(F4) # Len(<<>>) /\ F4 # R4
      BY RemountGoesOn, ProvisionGoesOn
    <3> QED BY <3>1, Zenon
  <2>2. CASE disk[s].loops = 0 /\ t = R5 BY <1>1, <1>6, <2>1, <2>2, Zenon DEF Remounts
  <2>3. CASE disk[s].loops = 1 /\ t = F4 BY <1>1, <1>6, <2>1, <2>3, Zenon DEF Remounts
  <2> QED BY <1>4, <1>5, <2>2, <2>3
<1>11. \A c \in Calls : call[c] = NoCall BY <1>1, NothingServed
<1>12. AtRest(storages[s]) BY <1>1, <1>2 DEF AtRest, Lived
<1>13. OpenOk' BY <1>1, <1>2, <1>8, <1>9, <1>10, <1>11, <1>12, BackendAssumption DEF OpenOk
<1>14. OpensUnlessCut' BY <1>1, <1>8, <1>9 DEF OpensUnlessCut
<1> QED BY <1>1, <1>9, <1>11, <1>13, <1>14, OpenSteps

LEMMA QuiesceStep ==
    ASSUME BackendInv, NEW s \in Storages, quiesceStorage(s)
    PROVE  BackendInv'
BY DestroyStarts, NothingServed, BackendAssumption, OpenSteps DEF quiesceStorage,
   BackendInv, BackendTyped, OpenOk, Openings, OpensUnlessCut

LEMMA QuiesceDoneStep ==
    ASSUME BackendInv, QuiesceDone
    PROVE  BackendInv'
BY NothingServed, OpenSteps DEF QuiesceDone, BackendInv, BackendTyped, OpenOk, Openings,
   OpensUnlessCut

LEMMA RemountTodosDiffer ==
    /\ R4 # R5 /\ R4 # F4 /\ R4 # R3 /\ R4 # R2 /\ R4 # R1 /\ R4 # <<>>
    /\ R3 # R5 /\ R3 # F4 /\ R3 # R2 /\ R3 # R1 /\ R3 # <<>>
    /\ R2 # R5 /\ R2 # F4 /\ R2 # <<>> /\ R1 # R5 /\ R1 # F4 /\ R1 # <<>>
    /\ R5 # <<>> /\ F4 # <<>>
<1>1. /\ Len(R4) # Len(R5) /\ R4 # F4 /\ Len(R4) # Len(R3) /\ Len(R4) # Len(R2)
      /\ Len(R4) # Len(R1) /\ Len(R4) # Len(<<>>)
      /\ Len(R3) # Len(R5) /\ Len(R3) # Len(F4) /\ Len(R3) # Len(R2) /\ Len(R3) # Len(R1)
      /\ Len(R3) # Len(<<>>)
      /\ Len(R2) # Len(R5) /\ Len(R2) # Len(F4) /\ Len(R2) # Len(<<>>)
      /\ Len(R1) # Len(R5) /\ Len(R1) # Len(F4) /\ Len(R1) # Len(<<>>)
      /\ Len(R5) # Len(<<>>) /\ Len(F4) # Len(<<>>)
  BY RemountGoesOn, ProvisionGoesOn
<1> QED BY <1>1, Zenon

\* A remount goes on as the host was found.
LEMMA RemountKeeps ==
    ASSUME NEW d \in Disks, NEW st \in StorageRows, NEW idle, NEW doomed,
           Hosted(d, st, idle, doomed), AtRest(st), NEW t, Remounts(d, t), t # <<>>,
           NEW g \in invokeFdOperation(d, Head(t)), NEW e \in Sides(g, d)
    PROVE  e \in Disks /\ Hosted(e, st, idle, doomed) /\ Remounts(g, Tail(t))
<1>1. t \in {R1, R2, R3, R4, R5, F4} BY DEF Remounts, RemountTodos
<1>2. st.life # "destroyed" /\ st.life # "none" /\ st.life # "attached" BY DEF AtRest
<1>3. CASE t \in {R5, F4, R2}
  <2>1. g = d BY <1>3, RemountGoesOn, Invokes
  <2>2. e = d BY <2>1, UnsyncedFields DEF Sides
  <2>3. CASE t = R5
    BY <2>3, RemountGoesOn, <2>1, <2>2, RemountTodosDiffer DEF Remounts, RemountTodos
  <2>4. CASE t = F4
    BY <2>4, RemountGoesOn, <2>1, <2>2, RemountTodosDiffer DEF Remounts, RemountTodos
  <2>5. CASE t = R2
    BY <2>5, RemountGoesOn, RemountTodosDiffer, <2>1, <2>2 DEF Remounts, RemountTodos
  <2> QED BY <1>3, <2>3, <2>4, <2>5
<1>4. CASE t = R4
  <2>1. g \in attachLoop(d) BY <1>4, RemountGoesOn, Invokes
  <2>2. Tail(t) = R3 /\ d.loops = 0 /\ ~d.mounted BY <1>4, RemountGoesOn, Zenon DEF Remounts
  <2>3. e \in Disks /\ Hosted(e, st, idle, doomed) BY <1>2, <2>1, <2>2, AttachHosted
  <2>4. g.loops = 1 /\ ~g.mounted BY <2>1, <2>2, LoopAttached
  <2>5. Remounts(g, R3) BY <2>4, RemountTodosDiffer, Zenon DEF Remounts, RemountTodos
  <2> QED BY <2>2, <2>3, <2>5
<1>5. CASE t = R3
  <2>1. g \in mountExt4(d) BY <1>5, RemountGoesOn, Invokes
  <2>2. Tail(t) = R2 /\ d.loops = 1 /\ ~d.mounted BY <1>5, RemountGoesOn, Zenon DEF Remounts
  <2>3. g.mounted /\ d.live.image = "ext4" /\ d.live.dir BY <2>1, Ext4Mounted
  <2>4. d.kept.image = "ext4" /\ d.kept.dir BY <1>2, <2>3 DEF Hosted, AtRest, Lived
  <2>5. e \in Disks /\ Hosted(e, st, idle, doomed) BY <1>2, <2>1, <2>2, <2>4, MountHosted
  <2>6. Remounts(g, R2) BY <2>3, RemountTodosDiffer, Zenon DEF Remounts, RemountTodos
  <2> QED BY <2>2, <2>5, <2>6
<1>6. CASE t = R1
  <2>1. g \in ensurePublicationRoot(d, 1 = 1) BY <1>6, RemountGoesOn, InvokesOn
  <2>2. Tail(t) = <<>> /\ d.mounted BY <1>6, RemountGoesOn, Zenon DEF Remounts
  <2>3. e \in Disks /\ Gentle(e, d) BY <2>1, PublicationGentle
  <2>4. Hosted(e, st, idle, doomed) BY <2>3, GentleHosted
  <2>5. g.mounted BY <2>1, <2>2, PublicationRooted DEF SameMount
  <2>6. Remounts(g, <<>>) BY <2>5, RemountTodosDiffer, Zenon DEF Remounts, RemountTodos
  <2> QED BY <2>2, <2>3, <2>4, <2>6
<1> QED BY <1>1, <1>3, <1>4, <1>5, <1>6

LEMMA QuiesceKeeps ==
    ASSUME NEW d \in Disks, NEW st, NEW idle, NEW doomed, Hosted(d, st, idle, doomed),
           NEW t \in QuiesceTodos, t # <<>>,
           NEW g \in invokeFdOperation(d, Head(t)), NEW e \in Sides(g, d)
    PROVE  e \in Disks /\ Hosted(e, st, idle, doomed) /\ Tail(t) \in QuiesceTodos
BY QuiesceGoesOn, Invokes, SyncHosted, DetachHosted DEF QuiesceTodos

\* An opening of a storage at rest refuses nothing that is recorded.
LEMMA RemountGoes ==
    ASSUME NEW d \in Disks, NEW st, NEW idle, NEW doomed, Hosted(d, st, idle, doomed),
           Base(d), NEW t, Remounts(d, t), t # <<>>
    PROVE  invokeFdOperation(d, Head(t)) # {}
<1>1. t \in {R1, R2, R3, R4, R5, F4} BY DEF Remounts, RemountTodos
<1>2. d.mounted => observeMount(d)
  BY DEF Hosted, Base, observeMount, readMountEvidence, openImageAuthority, loopsForImage
<1>3. CASE t \in {R5, F4}
  <2>1. d.loops = 0 \/ d.loops = 1 BY DEF Disks
  <2>2. invokeFdOperation(d, Head(t)) = IF loopsForImage(d) <= 1 THEN {d} ELSE {}
    BY <1>3, RemountGoesOn, Invokes
  <2> QED BY <2>1, <2>2 DEF loopsForImage
<1>4. CASE t = R4 BY <1>4, RemountGoesOn, Invokes DEF attachLoop, openImageAuthority, Base
<1>5. CASE t = R3
  <2>1. invokeFdOperation(d, Head(t)) = mountExt4(d) BY <1>5, RemountGoesOn, Invokes
  <2>2. ~d.mounted /\ d.loops = 1 BY <1>5, Zenon DEF Remounts
  <2>3. /\ d.live.image = "ext4" /\ openDirectoryAuthority(d) /\ ~d.mounted
        /\ d.loops # 0
    BY <2>2 DEF openDirectoryAuthority, Base
  <2>4. mountExt4(d) = {[d EXCEPT !.mounted = TRUE]} BY <2>3, Zenon DEF mountExt4
  <2> QED BY <2>1, <2>4
<1>6. CASE t = R2 BY <1>6, RemountGoesOn, Invokes, <1>2 DEF Remounts
<1>7. CASE t = R1
  <2>1. invokeFdOperation(d, Head(t)) = ensurePublicationRoot(d, 1 = 1)
    BY <1>7, RemountGoesOn, InvokesOn
  <2>2. d.mounted BY <1>7, Zenon DEF Remounts
  <2> QED BY <1>2, <2>1, <2>2 DEF ensurePublicationRoot, Base
<1> QED BY <1>1, <1>3, <1>4, <1>5, <1>6, <1>7

LEMMA ColdOpenFailedStep ==
    ASSUME BackendInv, NEW s \in Storages, coldOpenFailed(s)
    PROVE  BackendInv'
<1> DEFINE d == disk[s]
           st == storages[s]
<1>1. /\ open.pc = "opening" /\ s \in open.left /\ open.at \in {"none", s}
      /\ open' = [Closed EXCEPT !.pc = "failed"]
      /\ UNCHANGED <<ops, storages, disk, call, faults>>
  BY DEF coldOpenFailed
<1>2. PICK p \in Processes : p = "failed" BY DEF Processes
<1>3. open' \in Openings /\ open'.pc = "failed" /\ open'.at = "none" /\ open'.todo = <<>>
  BY <1>1, <1>2, ClosedTo
<1>4. \A c \in Calls : call[c] = NoCall BY <1>1, NothingServed
<1>5. OpenOk' BY <1>1, <1>3, <1>4 DEF OpenOk
<1>6. st.life = "attached" \/ Destroying(s)
  <2> SUFFICES ASSUME st.life # "attached", ~Destroying(s)
               PROVE  FALSE
    OBVIOUS
  <2>1. /\ OpenOk /\ st.life \in Lived /\ d \in Disks /\ DiskOk(s)
    BY <1>1 DEF BackendInv, BackendTyped, OpenOk
  <2>2. AtRest(st) BY <2>1 DEF AtRest, Lived
  <2>3. Base(d) /\ (st.root # 0 => Durable(d, st.root)) BY <2>1, <2>2 DEF DiskOk, Hosted
  <2>4. d.mounted => observeMount(d)
    BY <2>1, <2>3 DEF DiskOk, Hosted, Base, observeMount, readMountEvidence,
       openImageAuthority, loopsForImage
  <2>5. open.at = s => Remounts(d, open.todo) BY <1>1, <2>1, BackendAssumption DEF OpenOk
  <2>6. CASE open.todo = <<>>
    BY <1>1, <2>6, <2>5, <2>3, <2>4 DEF coldOpenFailed, readMountEvidence, Remounts,
       ensurePublicationRoot, Base, observeAttachmentRoot, Durable, Verifies
  <2>7. CASE open.todo # <<>>
    BY <2>7, <1>1, <2>1, <2>3, <2>5, RemountGoes DEF coldOpenFailed, OpenOk, DiskOk
  <2> QED BY <2>6, <2>7
<1>7. OpensUnlessCut' BY <1>1, <1>6 DEF Destroying, Pending, OpensUnlessCut
<1> QED BY <1>1, <1>3, <1>4, <1>5, <1>7, OpenSteps

\* The host changes under the process, which serves nothing.
LEMMA HostSteps ==
    ASSUME BackendInv, UNCHANGED <<ops, storages, call>>, \A c \in Calls : call[c] = NoCall,
           disk' \in [Storages -> Disks],
           \A t \in Storages : DiskOk(t)',
           \A o \in Ops : OpOk(o)',
           OneEach', open' \in Openings, faults' \in Nat, OpenOk', OpensUnlessCut'
    PROVE  BackendInv'
BY IdleSteps DEF BackendInv, BackendTyped

LEMMA VerifyOpenedStep ==
    ASSUME BackendInv, NEW s \in Storages, verifyOpened(s)
    PROVE  BackendInv'
<1>1. PICK e \in ensurePublicationRoot(disk[s], TRUE) : disk' = [disk EXCEPT ![s] = e]
  BY DEF verifyOpened
<1>2. /\ open.pc = "opening" /\ open.todo = <<>>
      /\ open' = [open EXCEPT !.left = @ \ {s}, !.at = "none"]
      /\ UNCHANGED <<ops, storages, call, faults>>
  BY DEF verifyOpened
<1>3. /\ open \in Openings /\ disk[s] \in Disks /\ storages[s] \in StorageRows /\ DiskOk(s)
      /\ \A q \in open.left : storages[q].life \in Lived
      /\ faults' \in Nat
  BY <1>2 DEF BackendInv, BackendTyped, OpenOk
<1>4. e \in Disks /\ Gentle(e, disk[s]) BY <1>3, PublicationGentle DEF Sides
<1>5. Hosted(e, storages[s], Pending(s) = {}, Destroying(s))
  BY <1>3, <1>4, GentleHosted DEF DiskOk
<1>6. /\ disk' \in [Storages -> Disks]
      /\ \A t \in Storages : DiskOk(t)'
      /\ \A o \in Ops : OpOk(o)'
      /\ OneEach'
  BY <1>1, <1>2, <1>4, <1>5, DiskSteps
<1>7. PICK a \in Storages \cup {"none"}, l \in SUBSET Storages : a = "none" /\ l = open.left \ {s}
  BY <1>3 DEF Openings
<1>8. PICK y \in Openings : y = [open EXCEPT !.left = l, !.at = a]
  BY <1>3, <1>7 DEF Openings
<1>9. y.pc = open.pc /\ y.left = l /\ y.at = a /\ y.todo = open.todo
  BY <1>3, <1>8 DEF Openings
<1>10. open' = y BY <1>2, <1>7, <1>8
<1>11. \A c \in Calls : call[c] = NoCall BY <1>2, NothingServed
<1>12. OpenOk' BY <1>2, <1>3, <1>7, <1>9, <1>10, <1>11 DEF OpenOk
<1>13. OpensUnlessCut' BY <1>2, <1>9, <1>10 DEF OpensUnlessCut
<1> QED BY <1>2, <1>3, <1>6, <1>10, <1>11, <1>12, <1>13, HostSteps

\* What an invocation of remount or quiesce leaves, whether it succeeds or not.
LEMMA OpenLeaves ==
    ASSUME BackendInv, open.todo # <<>>, UNCHANGED <<ops, storages>>,
           NEW g \in invokeFdOperation(disk[open.at], Head(open.todo)),
           NEW e \in Sides(g, disk[open.at]), disk' = [disk EXCEPT ![open.at] = e]
    PROVE  /\ open.at \in Storages /\ open.pc \in {"opening", "closing"}
           /\ disk' \in [Storages -> Disks] /\ disk'[open.at] = e
           /\ \A t \in Storages : DiskOk(t)'
           /\ \A o \in Ops : OpOk(o)'
           /\ OneEach'
           /\ \/ /\ open.pc = "opening" /\ open.at \in open.left /\ AtRest(storages[open.at])
                 /\ Remounts(g, Tail(open.todo))
              \/ open.pc = "closing" /\ Tail(open.todo) \in QuiesceTodos
<1>1. /\ open \in Openings /\ OpenOk
      /\ disk \in [Storages -> Disks] /\ storages \in [Storages -> StorageRows]
      /\ \A s \in Storages : DiskOk(s)
  BY DEF BackendInv, BackendTyped
<1>2. /\ open.at \in Storages
      /\ \/ /\ open.pc = "opening" /\ open.at \in open.left /\ AtRest(storages[open.at])
            /\ Remounts(disk[open.at], open.todo)
         \/ open.pc = "closing" /\ open.todo \in QuiesceTodos
  BY <1>1 DEF OpenOk, Openings
<1>3. PICK s \in Storages : s = open.at BY <1>2
<1>4. PICK d \in Disks, st \in StorageRows, idle \in BOOLEAN, doomed \in BOOLEAN :
        d = disk[s] /\ st = storages[s] /\ idle = (Pending(s) = {}) /\ doomed = Destroying(s)
  BY <1>1 DEF Destroying
<1>5. Hosted(d, st, idle, doomed) BY <1>1, <1>4 DEF DiskOk
<1>6. PICK t : t = open.todo
  OBVIOUS
<1>7. g \in invokeFdOperation(d, Head(t)) /\ e \in Sides(g, d) /\ t # <<>>
  BY <1>3, <1>4, <1>6
<1>8. /\ e \in Disks /\ Hosted(e, st, idle, doomed)
      /\ \/ open.pc = "opening" /\ open.at \in open.left /\ AtRest(st) /\ Remounts(g, Tail(t))
         \/ open.pc = "closing" /\ Tail(t) \in QuiesceTodos
  <2>1. \/ open.pc = "opening" /\ open.at \in open.left /\ AtRest(st) /\ Remounts(d, t)
        \/ open.pc = "closing" /\ t \in QuiesceTodos
    BY <1>2, <1>3, <1>4, <1>6
  <2>2. CASE open.pc = "opening" /\ open.at \in open.left /\ AtRest(st) /\ Remounts(d, t)
    BY <1>5, <1>7, <2>2, RemountKeeps
  <2>3. CASE open.pc = "closing" /\ t \in QuiesceTodos BY <1>5, <1>7, <2>3, QuiesceKeeps
  <2> QED BY <2>1, <2>2, <2>3
<1>9. Hosted(e, storages[s], Pending(s) = {}, Destroying(s)) BY <1>4, <1>8
<1>10. /\ disk' \in [Storages -> Disks] /\ disk'[s] = e
       /\ \A q \in Storages : DiskOk(q)'
       /\ \A o \in Ops : OpOk(o)'
       /\ OneEach'
  BY <1>3, <1>8, <1>9, DiskSteps
<1> QED BY <1>2, <1>3, <1>4, <1>6, <1>8, <1>10

LEMMA OpenInvokeStep ==
    ASSUME BackendInv, OpenInvoke
    PROVE  BackendInv'
BY OpenLeaves, NothingServed, BackendAssumption, HostSteps, ZenonT(30) DEF OpenInvoke, Sides,
   BackendInv, BackendTyped, OpenOk, Remounts, Openings, OpensUnlessCut

LEMMA OpenFailsStep ==
    ASSUME BackendInv, OpenFails
    PROVE  BackendInv'
<1>1. PICK e \in Partly(disk[open.at], Head(open.todo)) : disk' = [disk EXCEPT ![open.at] = e]
  BY DEF OpenFails
<1>2. /\ open.todo # <<>> /\ open' = [Closed EXCEPT !.pc = "failed", !.hurt = TRUE]
      /\ UNCHANGED <<ops, storages, call>> /\ faults' = faults + 1
  BY DEF OpenFails, Fault
<1>3. /\ OpenOk /\ open \in Openings /\ disk \in [Storages -> Disks] /\ faults' \in Nat
  BY <1>2 DEF BackendInv, BackendTyped
<1>4. open.at \in Storages /\ open.pc \in {"opening", "closing"}
  BY <1>2, <1>3 DEF OpenOk, Openings
<1>5. PICK p \in Processes, h \in BOOLEAN : p = "failed" /\ h = TRUE BY DEF Processes
<1>6. open' \in Openings /\ open'.pc = p /\ open'.hurt = h /\ open'.at = "none" /\ open'.todo = <<>>
  BY ClosedTyped, <1>2, <1>5 DEF Openings, Processes
<1>7. \A c \in Calls : call[c] = NoCall BY <1>4, NothingServed
<1>8. OpenOk' /\ OpensUnlessCut' BY <1>2, <1>5, <1>6, <1>7 DEF OpenOk, OpensUnlessCut
<1>9. CASE e = disk[open.at]
  <2>1. disk' = disk BY <1>1, <1>3, <1>4, <1>9
  <2>2. /\ disk' \in [Storages -> Disks]
        /\ \A t \in Storages : DiskOk(t)'
        /\ \A o \in Ops : OpOk(o)'
        /\ OneEach'
    BY <1>2, <2>1, SameSteps
  <2> QED BY <1>2, <1>3, <1>6, <1>7, <1>8, <2>2, HostSteps
<1>10. ASSUME NEW g \in invokeFdOperation(disk[open.at], Head(open.todo)),
              e = g \/ e = Unsynced(g, disk[open.at])
       PROVE  BackendInv'
  <2>1. e \in Sides(g, disk[open.at]) BY <1>10 DEF Sides
  <2>2. /\ disk' \in [Storages -> Disks]
        /\ \A t \in Storages : DiskOk(t)'
        /\ \A o \in Ops : OpOk(o)'
        /\ OneEach'
    BY <1>1, <1>2, <2>1, OpenLeaves
  <2> QED BY <1>2, <1>3, <1>6, <1>7, <1>8, <2>2, HostSteps
<1>11. disk[open.at] \in Disks BY <1>3, <1>4
<1> QED BY <1>1, <1>9, <1>10, <1>11, PartlyIs

\* The host changes under a storage on which no operation is prepared.
LEMMA HostedSteps ==
    ASSUME BackendInv, UNCHANGED <<ops, storages, call, open, faults>>,
           NEW s \in Storages, Pending(s) = {}, ~(AtRest(storages[s]) /\ open.pc = "opening"),
           NEW e \in Disks, disk' = [disk EXCEPT ![s] = e],
           Hosted(e, storages[s], Pending(s) = {}, Destroying(s))
    PROVE  BackendInv'
<1>1. /\ disk' \in [Storages -> Disks] /\ disk'[s] = e
      /\ \A t \in Storages : t # s => disk'[t] = disk[t]
      /\ \A t \in Storages : DiskOk(t)'
      /\ \A o \in Ops : OpOk(o)'
      /\ OneEach'
  BY DiskSteps
<1>2. /\ ops \in [Ops -> OpRows] /\ storages \in [Storages -> StorageRows]
      /\ call \in [Calls -> Courses] /\ open \in Openings /\ faults \in Nat
      /\ OpenOk /\ OpensUnlessCut
      /\ (\A c \in Calls : CallOk(c)) /\ \A b, c \in Calls : PairOk(b, c)
  BY DEF BackendInv, BackendTyped
<1>3. ASSUME NEW c \in Calls
      PROVE  CallOk(c)'
  <2> DEFINE m == call[c]
             q == ops[m.op]
  <2> SUFFICES CallFits(m, q, disk'[q.storage]) BY <1>2 DEF CallOk
  <2>1. CASE ~Active(m) BY SMTT(30), <2>1 DEF CallFits
  <2>2. CASE Active(m) /\ q.storage # s
    BY <1>2, <2>2, <1>1 DEF CallOk, CallFits, OpRows, BackendInv, OpOk, OpFits
  <2>3. CASE Active(m) /\ q.storage = s
    BY <1>2, <2>3, UnboundFits DEF CallOk, Pending, CallFits
  <2> QED BY <2>1, <2>2, <2>3
<1>4. \A b, c \in Calls : PairOk(b, c)' BY <1>2 DEF PairOk
<1>5. OpenOk' BY <1>2, <1>1 DEF OpenOk, Openings
<1>6. OpensUnlessCut' BY <1>2 DEF Destroying, Pending, OpensUnlessCut
<1> QED BY <1>1, <1>2, <1>3, <1>4, <1>5, <1>6 DEF BackendInv, BackendTyped

LEMMA WriteStep ==
    ASSUME BackendInv, NEW s \in Storages, Write(s)
    PROVE  BackendInv'
<1>1. PICK d \in Disks, st \in StorageRows, idle \in BOOLEAN :
        d = disk[s] /\ st = storages[s] /\ idle = (Pending(s) = {})
  BY DEF BackendInv, BackendTyped
<1>2. /\ st.life = "attached" /\ d.live.tree[st.root] \in 1 .. MaxTree - 1
      /\ disk' = [disk EXCEPT ![s].live.tree[st.root] = @ + 1]
      /\ Pending(s) = {} /\ UNCHANGED <<ops, storages, call, open, faults>>
  BY <1>1 DEF Write
<1>3. ~Destroying(s) BY <1>2 DEF Destroying
<1>4. PICK no \in BOOLEAN : no = FALSE
  OBVIOUS
<1>5. Hosted(d, st, idle, no) BY <1>1, <1>3, <1>4 DEF BackendInv, DiskOk, Hosted
<1>6. PICK e : e = [d EXCEPT !.live.tree[st.root] = @ + 1]
  OBVIOUS
<1>7. e \in Disks /\ Hosted(e, st, idle, FALSE) BY <1>2, <1>4, <1>5, <1>6, WriteHosted
<1>8. disk' = [disk EXCEPT ![s] = e] BY <1>1, <1>2, <1>6 DEF BackendInv, BackendTyped
<1>9. Hosted(e, storages[s], Pending(s) = {}, Destroying(s)) BY <1>1, <1>3, <1>7 DEF Hosted
<1>10. ~AtRest(storages[s]) BY <1>1, <1>2 DEF AtRest
<1> QED BY <1>2, <1>7, <1>8, <1>9, <1>10, HostedSteps

LEMMA PublishStep ==
    ASSUME BackendInv, NEW s \in Storages, Publish(s)
    PROVE  BackendInv'
<1>1. PICK d \in Disks, st \in StorageRows, idle \in BOOLEAN :
        d = disk[s] /\ st = storages[s] /\ idle = (Pending(s) = {})
  BY DEF BackendInv, BackendTyped
<1>2. PICK r \in Roots :
        /\ AtRest(st) /\ open.pc = "yes" /\ d.live.tree[r] = Absent
        /\ disk' = [disk EXCEPT ![s].live.tree[r] = 1, ![s].kept.tree[r] = 1]
        /\ Pending(s) = {} /\ UNCHANGED <<ops, storages, call, open, faults>>
  BY <1>1 DEF Publish
<1>3. ~Destroying(s) BY <1>2 DEF Destroying
<1>4. Hosted(d, st, idle, FALSE) BY <1>1, <1>3 DEF BackendInv, DiskOk, Hosted
<1>5. PICK e : e = [d EXCEPT !.live.tree[r] = 1, !.kept.tree[r] = 1]
  OBVIOUS
<1>6. e \in Disks /\ Hosted(e, st, idle, FALSE) BY <1>2, <1>4, <1>5, PublishHosted, Zenon
<1>7. disk' = [disk EXCEPT ![s] = e]
  <2>1. PICK g : g = [d EXCEPT !.live.tree[r] = 1]
    OBVIOUS
  <2>2. e = [g EXCEPT !.kept.tree[r] = 1] BY <1>5, <2>1
  <2>3. PICK f : f = [disk EXCEPT ![s] = g]
    OBVIOUS
  <2>4. disk \in [Storages -> Disks] BY DEF BackendInv, BackendTyped
  <2>5. f = [disk EXCEPT ![s].live.tree[r] = 1] BY <1>1, <2>1, <2>3, <2>4
  <2>6. disk' = [f EXCEPT ![s].kept.tree[r] = 1] BY <1>2, <2>5
  <2>7. f[s] = g /\ [f EXCEPT ![s].kept.tree[r] = 1] = [f EXCEPT ![s] = e]
    BY <2>2, <2>3, <2>4
  <2>8. [f EXCEPT ![s] = e] = [disk EXCEPT ![s] = e] BY <2>3, <2>4
  <2> QED BY <2>6, <2>7, <2>8
<1>8. Hosted(e, storages[s], Pending(s) = {}, Destroying(s)) BY <1>1, <1>3, <1>6 DEF Hosted
<1> QED BY <1>2, <1>6, <1>7, <1>8, HostedSteps

\* A new process starts on what is left of the host.
LEMMA RestartSteps ==
    ASSUME BackendInv, Restart, faults' \in Nat, disk' \in [Storages -> Disks],
           \A s \in Storages :
             Hosted(disk'[s], storages[s], Pending(s) = {}, Destroying(s))
    PROVE  BackendInv'
<1>1. /\ UNCHANGED <<ops, storages>> /\ open' = Closed
      /\ call' = [c \in Calls |-> NoCall]
  BY DEF Restart
<1>2. /\ ops' \in [Ops -> OpRows] /\ storages' \in [Storages -> StorageRows]
      /\ (\A o \in Ops : OpOk(o)') /\ OneEach'
  BY <1>1 DEF BackendInv, BackendTyped, OpOk, OneEach
<1>3. ASSUME NEW s \in Storages
      PROVE  DiskOk(s)'
  BY <1>1 DEF Pending, Destroying, DiskOk, Hosted
<1>4. call' \in [Calls -> Courses] /\ \A c \in Calls : call'[c] = NoCall
  BY <1>1, NoCallTyped
<1>5. (\A c \in Calls : CallOk(c)') /\ \A b, c \in Calls : PairOk(b, c)' BY <1>4, IdleSteps
<1>6. open' \in Openings /\ open'.pc = "no" /\ open'.at = "none" /\ open'.todo = <<>>
  BY <1>1, ClosedTyped
<1>7. OpenOk' /\ OpensUnlessCut' BY <1>4, <1>6 DEF OpenOk, OpensUnlessCut
<1> QED BY <1>2, <1>3, <1>4, <1>5, <1>6, <1>7 DEF BackendInv, BackendTyped

LEMMA DiesStep ==
    ASSUME BackendInv, Dies
    PROVE  BackendInv'
<1>1. Restart /\ faults' \in Nat BY DEF Dies, Fault, BackendInv, BackendTyped
<1>2. /\ disk \in [Storages -> Disks] /\ storages \in [Storages -> StorageRows]
      /\ \A s \in Storages : DiskOk(s)
  BY DEF BackendInv, BackendTyped
<1>3. CASE disk' = disk BY <1>1, <1>2, <1>3, RestartSteps DEF DiskOk
<1>4. CASE disk' = [s \in Storages |-> NamespaceGone(disk[s])]
  BY <1>2, GoneHosted, <1>4, <1>1, RestartSteps DEF Destroying, DiskOk
<1> QED BY <1>3, <1>4 DEF Dies

LEMMA PowerLossStep ==
    ASSUME BackendInv, PowerLoss
    PROVE  BackendInv'
<1>1. /\ Restart /\ faults' \in Nat
      /\ disk' \in [Storages -> UNION {AfterPowerLoss(disk[s]) : s \in Storages}]
      /\ \A s \in Storages : disk'[s] \in AfterPowerLoss(disk[s])
  BY DEF PowerLoss, Fault, BackendInv, BackendTyped
<1>2. /\ disk \in [Storages -> Disks] /\ storages \in [Storages -> StorageRows]
      /\ \A s \in Storages : DiskOk(s)
  BY DEF BackendInv, BackendTyped
<1>3. ASSUME NEW s \in Storages
      PROVE  /\ disk'[s] \in Disks
             /\ Hosted(disk'[s], storages[s], Pending(s) = {}, Destroying(s))
  BY <1>2, <1>1, PowerLossHosted DEF Destroying, DiskOk
<1>4. disk' \in [Storages -> Disks] BY <1>1, <1>3
<1> QED BY <1>1, <1>3, <1>4, RestartSteps

LEMMA MethodStep ==
    ASSUME BackendInv, NEW c \in Calls, Method(c)
    PROVE  BackendInv'
<1>1. CASE \E o \in Ops, s \in Storages, kind \in Kinds : Prepare(c, o, kind, s)
  BY <1>1, PrepareStep
<1>2. CASE \E o \in Ops : Repeat(c, o) BY <1>2, RepeatStep
<1>3. CASE Drive(c) BY <1>3, DriveStep
<1>4. CASE Invoke(c) BY <1>4, InvokeStep
<1>5. CASE Return(c) BY <1>5, ReturnStep
<1>6. CASE Refuse(c) BY <1>6, RefuseStep
<1>7. CASE Fail(c) BY <1>7, FailStep
<1>8. CASE commit(c) BY <1>8, CommitStep, CommittedStep
<1>9. CASE CommitFails(c) BY <1>9, CommitFailsStep
<1> QED BY <1>1, <1>2, <1>3, <1>4, <1>5, <1>6, <1>7, <1>8, <1>9 DEF Method

LEMMA ProcessStep ==
    ASSUME BackendInv, Process
    PROVE  BackendInv'
<1>1. CASE initialize BY <1>1, InitializeStep
<1>2. CASE Opened BY <1>2, OpenedStep
<1>3. CASE beginClose BY <1>3, BeginCloseStep
<1>4. CASE QuiesceDone BY <1>4, QuiesceDoneStep
<1>5. CASE OpenInvoke BY <1>5, OpenInvokeStep
<1>6. CASE OpenFails BY <1>6, OpenFailsStep
<1>7. ASSUME NEW s \in Storages,
             remountAbsent(s) \/ verifyOpened(s) \/ coldOpenFailed(s) \/ quiesceStorage(s)
      PROVE  BackendInv'
  BY <1>7, RemountAbsentStep, VerifyOpenedStep, ColdOpenFailedStep, QuiesceStep
<1> QED BY <1>1, <1>2, <1>3, <1>4, <1>5, <1>6, <1>7 DEF Process

LEMMA StillStep ==
    ASSUME BackendInv, UNCHANGED vars
    PROVE  BackendInv'
BY SameSteps DEF vars, Destroying, Pending, BackendInv, CallOk, PairOk, OpenOk,
   OpensUnlessCut, BackendTyped

\* Nothing is on a host that nothing was made on.
LEMMA NothingHosted ==
    NoDisk \in Disks /\ \A idle, doomed : Hosted(NoDisk, NoStorage, idle, doomed)
<1>1. PICK n \in 0 .. MaxTree, z \in {0, 1}, f \in BOOLEAN, i \in Images :
        n = 0 /\ z = 0 /\ f = FALSE /\ i = "none"
  <2>1. 0 \in 0 .. MaxTree /\ "none" \in Images BY ImageDriverAssumption DEF Images
  <2> QED BY <2>1
<1>2. PICK t \in Trees : t = [r \in Roots |-> Absent] BY <1>1 DEF Trees, Absent
<1>3. PICK v \in Views : v = [image |-> i, dir |-> f, control |-> f, tree |-> t]
  BY <1>1 DEF Views
<1>4. Nothing = v BY <1>1, <1>2, <1>3 DEF Nothing
<1>5. NoDisk = [live |-> v, kept |-> v, loops |-> z, mounted |-> f] BY <1>1, <1>4 DEF NoDisk
<1>6. NoDisk \in Disks BY <1>5 DEF Disks
<1>7. Bare(NoDisk) BY <1>1, <1>5 DEF Bare
<1>8. NoStorage.life = "none" BY DEF NoStorage
<1> QED BY <1>6, <1>7, <1>8 DEF Hosted, Bare, AtRest, Lived

LEMMA BackendInit ==
    ASSUME Init
    PROVE  BackendInv
<1>1. /\ ops = [o \in Ops |-> NoRecord] /\ storages = [s \in Storages |-> NoStorage]
      /\ disk = [s \in Storages |-> NoDisk] /\ call = [c \in Calls |-> NoCall]
      /\ open = Closed /\ faults = 0
  BY DEF Init, AbsInit
<1>2. NoStorage \in StorageRows BY ProviderStateAssumption DEF NoStorage, StorageRows, Lives
<1>3. NoRecord \in OpRows /\ NoRecord.phase = "none" BY <1>2 DEF NoRecord, OpRows
<1>4. BackendTyped
  BY <1>1, <1>2, <1>3, NothingHosted, NoCallTyped, ClosedTyped DEF BackendTyped
<1>5. \A o \in Ops : OpOk(o) /\ ops[o].phase = "none" BY <1>1, <1>3 DEF OpOk, OpFits
<1>6. OneEach BY <1>5 DEF OneEach
<1>7. \A s \in Storages : DiskOk(s) BY <1>1, NothingHosted DEF DiskOk
<1>8. \A c \in Calls : call[c] = NoCall BY <1>1
<1>9. (\A c \in Calls : CallOk(c)) /\ \A b, c \in Calls : PairOk(b, c)
  BY <1>8, NoCallTyped DEF CallOk, CallFits, PairOk, Apart
<1>10. OpenOk /\ OpensUnlessCut BY <1>1, <1>8, ClosedTyped DEF OpenOk, OpensUnlessCut
<1> QED BY <1>4, <1>5, <1>6, <1>7, <1>9, <1>10 DEF BackendInv

\* The ext4 backend keeps its invariant in every run: what is on the host fits
\* what is recorded of each storage, what every call has achieved so far, and
\* what the process has opened (Ext4ImageBackend: the methods of the backend
\* with their driver programs, initialize, close, crashes and losses of power).
THEOREM BackendInvariant == Spec => []BackendInv
<1>1. Init => BackendInv BY BackendInit
<1>2. BackendInv /\ [Next]_vars => BackendInv'
  BY StillStep, MethodStep, ProcessStep, WriteStep, PublishStep, DiesStep, PowerLossStep DEF
     Next
<1> QED BY <1>1, <1>2, PTL DEF Spec

LEMMA RealWhenHosted ==
    ASSUME BackendInv
    PROVE  RecordedIsReal
BY DEF RecordedIsReal, BackendInv, DiskOk, AtRest, Lived, Hosted, Base, Durable, Dead

\* What the provider records of a storage that no writer holds is on the host
\* and outlives a loss of power, and a destroyed storage leaves nothing behind,
\* whatever failed or was cut off before (commit, after the driver's programs).
THEOREM RecordedIsAlwaysReal == Spec => []RecordedIsReal
<1>1. BackendInv => RecordedIsReal BY RealWhenHosted
<1> QED BY <1>1, BackendInvariant, PTL

\* The backend fails to open only after a mount was lost under a writer, a
\* destroy was interrupted, or the opening itself was disturbed (initialize,
\* remountAbsent, verifyOpened, coldOpenFailed).
THEOREM OpensUnlessCutOff == Spec => []OpensUnlessCut
<1>1. BackendInv => OpensUnlessCut BY DEF BackendInv
<1> QED BY <1>1, BackendInvariant, PTL
=============================================================================
