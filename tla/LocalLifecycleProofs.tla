------------------------ MODULE LocalLifecycleProofs ------------------------
(***************************************************************************)
(* What lives and dies with a process: the refreshes of an authority home, *)
(* and a deployment.                                                       *)
(*                                                                         *)
(* No refresh token is sent twice and no refreshed credential is lost, for *)
(* every number of processes, refreshes, credentials and failures.         *)
(*                                                                         *)
(* The argument is about artifacts.  An attempt is live from the start of  *)
(* its app-server until it is settled; the lock, which a call checks when  *)
(* it starts the app-server, and the scan, which finds what is live, make  *)
(* the live attempt unique.  An attempt that has sent a token is an anchor *)
(* from then on: nobody removes it before its result is promoted and       *)
(* durable, and as long as it stands no other call passes the scan.        *)
(***************************************************************************)
EXTENDS ManagedAuthRefresh, RestoreDeployment, TLAPS

-----------------------------------------------------------------------------
(* The refreshes: the inductive invariant.                                 *)

Scanned == {"read", "mkdir", "record", "fill", "start"}
Refreshing == {"ask", "wait", "sync", "validate", "temp", "compare", "rename",
               "syncdir", "verify"}
Phases == Scanned \cup Refreshing
             \cup {"idle", "scan", "discard", "unsent", "remove", "release"}

RefreshCalls == [pc : Phases, n : 0 .. MaxCalls, before : Nat, err : BOOLEAN, warned : BOOLEAN]
StagedAttempts == [dir : BOOLEAN, ddir : BOOLEAN, cred : Nat, dcred : Nat]
Servers == [run : {"off", "up", "asked"}, net : {"idle", "sent"},
            result : {"none", "ok", "error"}]

RefreshTypeOK ==
    /\ canonical \in [live : Nat, durable : Nat]
    /\ staging \in [Attempts -> StagedAttempts]
    /\ temp \in [Attempts -> Nat]
    /\ server \in [Attempts -> Servers]
    /\ issued \in Tokens
    /\ sent \in [Tokens -> Nat]
    /\ secured \subseteq Nat
    /\ lock \in Procs \cup {Nobody}
    /\ call \in [Procs -> RefreshCalls]
    /\ faults \in Nat

Known == 1 .. issued

\* Credentials are used only after they were issued.
Issued ==
    /\ canonical.live \in Known /\ canonical.durable \in Known
    /\ \A a \in Attempts : staging[a].cred <= issued /\ staging[a].dcred <= issued
    /\ \A p \in Procs : call[p].before <= issued
    /\ \A t \in Tokens : t > issued => sent[t] = 0
    /\ secured \subseteq Known

\* The app-server of an attempt, and which calls have one.
ServersFit ==
    /\ \A a \in Attempts :
         /\ server[a].result # "none" => server[a].net = "idle"
         /\ server[a].run = "off" => server[a].net = "idle" /\ server[a].result = "none"
         /\ server[a].run = "up" => server[a].net = "idle" /\ server[a].result = "none"
    /\ \A p \in Procs : \A n \in 1 .. MaxCalls :
         n > call[p].n => server[<<p, n>>].run = "off"
    /\ \A p \in Procs :
         /\ call[p].pc # "idle" => call[p].n > 0
         /\ call[p].pc \notin {"ask", "wait", "release", "idle"} =>
               server[Mine(p)].run = "off"
         /\ call[p].pc = "ask" => server[Mine(p)].run = "up"
         /\ call[p].pc = "wait" => server[Mine(p)].run = "asked"

\* What a call has done when it is at a step.
CallsFit ==
    \A p \in Procs :
        LET s == staging[Mine(p)]
            pc == call[p].pc
        IN  /\ pc \in Refreshing \cup {"mkdir", "record", "fill", "start", "unsent"} =>
                  call[p].before > 0
            /\ pc \in {"record", "fill", "start", "unsent"} => s.dir
            /\ pc \in {"fill", "start", "unsent"} => s.ddir
            /\ pc = "start" => s.cred = call[p].before
            /\ pc \in {"compare", "rename"} => temp[Mine(p)] = s.cred
            /\ pc \in {"temp", "compare", "rename"} => s.cred # call[p].before

Changed(p) == staging[Mine(p)].cred # call[p].before

Live(a) ==
    \/ server[a].run # "off"
    \/ \E p \in Procs :
         /\ Mine(p) = a
         /\ call[p].pc \in Refreshing \/ (call[p].pc = "unsent" /\ Changed(p))

OneLive ==
    /\ \A a, b \in Attempts : Live(a) /\ Live(b) => a = b
    /\ \A a \in Attempts :
         Live(a) => staging[a].dir /\ staging[a].ddir /\ staging[a].cred > 0

\* A call that still has the lock and has found no artifact is alone, and what
\* it is going to send was never sent.
HolderIsAlone ==
    \A p \in Procs : Held(p) /\ call[p].pc \in Scanned =>
        /\ \A a \in Attempts : ~Live(a)
        /\ IF call[p].pc = "read" THEN sent[canonical.live] = 0
                                  ELSE sent[call[p].before] = 0

\* Whether the credential of an attempt was sent.
Unspent ==
    /\ \A a \in Attempts :
         /\ server[a].run # "off" /\ server[a].net = "idle" /\ server[a].result # "error" =>
               sent[staging[a].cred] = 0
         /\ server[a].net = "sent" => sent[staging[a].cred] > 0
    /\ \A p \in Procs :
         /\ call[p].pc \in Refreshing \ {"ask", "wait", "sync"} => sent[staging[Mine(p)].cred] = 0
         /\ call[p].pc = "sync" /\ ~call[p].err => sent[staging[Mine(p)].cred] = 0
         /\ call[p].pc \in Refreshing \ {"syncdir", "verify"} /\ Changed(p) =>
               sent[call[p].before] > 0

\* An attempt that stays: its call, if it still runs, has not decided to
\* remove it and will not without a promotion.
Stays(a) ==
    \A p \in Procs : Mine(p) = a =>
        /\ call[p].pc \notin Scanned \cup {"discard", "remove"}
        /\ call[p].pc \in {"ask", "unsent"} => Changed(p)

Anchor(a) == staging[a].dir /\ staging[a].ddir /\ Stays(a)

\* A credential of auth.json that was sent has an anchor that says so.
SpentIsAnchored ==
    sent[canonical.live] > 0 \/ sent[canonical.durable] > 0 =>
        \E a \in Attempts : Anchor(a)

\* The promotion of the holder of the lock.
PromotionFits ==
    \A p \in Procs : Held(p) =>
        /\ call[p].pc = "verify" /\ ~call[p].warned => canonical.live = canonical.durable
        /\ call[p].pc = "rename" =>
              canonical.live = call[p].before \/ canonical.live \notin secured

Safe(t) ==
    \/ canonical.live = t /\ canonical.durable = t
    \/ \E a \in Attempts : Anchor(a) /\ staging[a].cred = t /\ staging[a].dcred = t

SecuredIsSafe == \A t \in secured \ over : sent[t] = 0 => Safe(t)

RefreshInv ==
    /\ RefreshTypeOK /\ Issued /\ ServersFit /\ CallsFit /\ OneLive /\ HolderIsAlone
    /\ Unspent /\ SpentIsAnchored /\ PromotionFits /\ SecuredIsSafe /\ SentAtMostOnce

-----------------------------------------------------------------------------
(* What the steps do, field by field.                                      *)

Typed ==
    /\ \A a \in Attempts :
         /\ staging[a].dir \in BOOLEAN /\ staging[a].ddir \in BOOLEAN
         /\ staging[a].cred \in Nat /\ staging[a].dcred \in Nat
         /\ temp[a] \in Nat
         /\ server[a] \in Servers
    /\ \A p \in Procs : call[p] \in RefreshCalls
    /\ \A t \in Tokens : sent[t] \in Nat
    /\ issued \in Nat /\ issued <= MaxToken /\ secured \subseteq Nat
    /\ canonical.live \in Nat /\ canonical.durable \in Nat
    /\ lock \in Procs \cup {Nobody}

\* The types of the single values, which is all the provers need of a function.
LEMMA Pointwise == RefreshTypeOK => Typed
BY RefreshAssumption DEF RefreshTypeOK, Typed, StagedAttempts, Tokens

\* A call that was ever made has an attempt.
LEMMA MineIsAttempt ==
    ASSUME RefreshTypeOK, NEW p \in Procs, call[p].n > 0
    PROVE  Mine(p) \in Attempts
BY RefreshAssumption DEF RefreshTypeOK, RefreshCalls, Mine, Attempts

LEMMA ActiveMine ==
    RefreshInv => \A q \in Procs : call[q].pc # "idle" => Mine(q) \in Attempts
BY MineIsAttempt DEF RefreshInv, ServersFit

\* Two processes never share an attempt.
LEMMA MineIsOwn ==
    ASSUME NEW p \in Procs, NEW q \in Procs, Mine(p) = Mine(q)
    PROVE  p = q
BY DEF Mine

\* The attempts of later calls are nobody's yet.
LEMMA LaterAttempts ==
    ASSUME RefreshTypeOK, NEW p \in Procs, NEW q \in Procs,
           NEW n \in 1 .. MaxCalls, n > call[q].n
    PROVE  <<q, n>> \in Attempts /\ <<q, n>> # Mine(p)
BY RefreshAssumption DEF RefreshTypeOK, RefreshCalls, Attempts, Mine

\* What a step of p does to its call.
Steps(p, pc, before, err, warned) ==
    /\ \A q \in Procs : q # p => call'[q] = call[q]
    /\ call'[p].pc = pc
    /\ call'[p].n = call[p].n /\ call'[p].before = before
    /\ call'[p].err = err /\ call'[p].warned = warned

Passes(p, pc) == Steps(p, pc, call[p].before, call[p].err, call[p].warned)

LEMMA GoMoves ==
    ASSUME RefreshTypeOK, NEW p \in Procs, NEW pc, Go(p, pc)
    PROVE  Passes(p, pc) /\ (pc \in Phases => call' \in [Procs -> RefreshCalls])
BY DEF RefreshTypeOK, Go, Passes, Steps, RefreshCalls

\* A step does not begin another call.
LEMMA StepsMine ==
    ASSUME NEW p \in Procs, call'[p].n = call[p].n,
           \A q \in Procs : q # p => call'[q] = call[q]
    PROVE  \A q \in Procs : Mine(q)' = Mine(q)
BY DEF Mine

\* Only attempt m is staged anew.
Stages(m, dir, ddir, cred, dcred) ==
    /\ \A a \in Attempts : a # m => staging'[a] = staging[a]
    /\ staging'[m].dir = dir /\ staging'[m].ddir = ddir
    /\ staging'[m].cred = cred /\ staging'[m].dcred = dcred

LEMMA ExceptStages ==
    ASSUME RefreshTypeOK, NEW m \in Attempts, NEW s \in StagedAttempts,
           staging' = [staging EXCEPT ![m] = s]
    PROVE  /\ Stages(m, s.dir, s.ddir, s.cred, s.dcred)
           /\ staging' \in [Attempts -> StagedAttempts]
BY DEF RefreshTypeOK, Stages

\* Only the app-server of m is another.
Serves(m, run, net, result) ==
    /\ \A a \in Attempts : a # m => server'[a] = server[a]
    /\ server'[m].run = run /\ server'[m].net = net /\ server'[m].result = result

LEMMA ExceptServes ==
    ASSUME RefreshTypeOK, NEW m \in Attempts, NEW s \in Servers,
           server' = [server EXCEPT ![m] = s]
    PROVE  /\ Serves(m, s.run, s.net, s.result)
           /\ server' \in [Attempts -> Servers]
BY DEF RefreshTypeOK, Serves

\* Only the candidate of m is another.
Writes(m, t) == (\A a \in Attempts : a # m => temp'[a] = temp[a]) /\ temp'[m] = t

LEMMA ExceptWrites ==
    ASSUME RefreshTypeOK, NEW m \in Attempts, NEW t \in Nat,
           temp' = [temp EXCEPT ![m] = t]
    PROVE  Writes(m, t) /\ temp' \in [Attempts -> Nat]
BY DEF RefreshTypeOK, Writes

\* Stopping the app-server: it is off, or the caller gives up.
LEMMA StoppedServes ==
    ASSUME RefreshTypeOK, NEW p \in Procs, Mine(p) \in Attempts,
           NEW err \in BOOLEAN, NEW pc \in Phases, Stopped(p, err, pc)
    PROVE  /\ \/ Serves(Mine(p), "off", "idle", "none")
                 /\ Steps(p, pc, call[p].before, err, call[p].warned)
              \/ UNCHANGED server /\ Passes(p, "release")
           /\ server' \in [Attempts -> Servers] /\ call' \in [Procs -> RefreshCalls]
           /\ faults' \in Nat
<1>1. CASE /\ server' = [server EXCEPT ![Mine(p)] = NoServer]
           /\ call' = [call EXCEPT ![p].pc = pc, ![p].err = err]
           /\ UNCHANGED faults
  <2>1. Serves(Mine(p), "off", "idle", "none") /\ server' \in [Attempts -> Servers]
    BY ZenonT(30), <1>1, ExceptServes DEF NoServer, Servers
  <2>2. Steps(p, pc, call[p].before, err, call[p].warned) /\ call' \in [Procs -> RefreshCalls]
    BY ZenonT(30), <1>1 DEF RefreshTypeOK, Steps, RefreshCalls
  <2> QED BY <1>1, <2>1, <2>2 DEF RefreshTypeOK
<1>2. CASE Fault /\ Go(p, "release") /\ UNCHANGED server
  BY <1>2, GoMoves DEF RefreshTypeOK, Fault, Phases
<1> QED BY <1>1, <1>2 DEF Stopped

\* Only credential t is sent once more.
Spends(t) ==
    /\ \A u \in Tokens : u # t => sent'[u] = sent[u]
    /\ sent'[t] = sent[t] + 1

\* A token that is sent was issued.
LEMMA SendsSpends ==
    ASSUME RefreshInv, NEW a \in Attempts, Sends(a)
    PROVE  /\ staging[a].cred \in Tokens /\ issued < MaxToken
           /\ server[a].net = "idle" /\ server[a].result = "none"
           /\ Spends(staging[a].cred) /\ sent' \in [Tokens -> Nat]
<1>1. staging[a].cred \in Tokens
  BY RefreshAssumption, Pointwise DEF RefreshInv, Sends, Typed, Issued, Tokens
<1> QED BY <1>1 DEF RefreshInv, RefreshTypeOK, Sends, Spends

\* A refreshed credential is the newest one.
LEMMA GetsStages ==
    ASSUME RefreshInv, NEW a \in Attempts, Gets(a), issued < MaxToken, staging[a].dir
    PROVE  /\ Stages(a, TRUE, staging[a].ddir, issued + 1, staging[a].dcred)
           /\ staging' \in [Attempts -> StagedAttempts]
           /\ issued' = issued + 1 /\ issued' \in Tokens
<1> DEFINE s == staging[a]
           r == [s EXCEPT !.cred = issued + 1]
<1> USE DEF RefreshInv
<1>1. /\ r \in StagedAttempts
      /\ r.dir = TRUE /\ r.ddir = s.ddir /\ r.cred = issued + 1 /\ r.dcred = s.dcred
  <2>1. s \in StagedAttempts /\ s.dir = TRUE BY DEF RefreshTypeOK, StagedAttempts
  <2>2. issued + 1 \in Nat BY RefreshAssumption DEF RefreshTypeOK, Tokens
  <2> QED BY <2>1, <2>2 DEF StagedAttempts
<1>2. staging' = [staging EXCEPT ![a] = r] BY DEF Gets
<1>3. issued' = issued + 1 /\ issued' \in Tokens
  BY RefreshAssumption DEF Gets, RefreshTypeOK, Tokens
<1> QED BY <1>1, <1>2, <1>3, ExceptStages

-----------------------------------------------------------------------------
(* The lock, the scan and the attempt.                                     *)

\* The next attempt of a process has no app-server.
LEMMA AcquireKeeps ==
    ASSUME RefreshInv, NEW p \in Procs, Acquire(p)
    PROVE  RefreshInv'
<1> USE DEF RefreshInv
<1>a. Typed /\ call[p].pc = "idle" /\ call[p].n < MaxCalls /\ lock' = p
  BY Pointwise DEF Acquire, At
<1>b. /\ \A q \in Procs : q # p => call'[q] = call[q]
      /\ call'[p].pc = "scan" /\ call'[p].n = call[p].n + 1 /\ call'[p].before = 0
      /\ call' \in [Procs -> RefreshCalls]
  <2> DEFINE c == [NoRefresh EXCEPT !.pc = "scan", !.n = call[p].n + 1]
  <2>1. call[p].n + 1 \in 0 .. MaxCalls BY <1>a, RefreshAssumption DEF Typed, RefreshCalls
  <2>2. c \in RefreshCalls /\ c.pc = "scan" /\ c.n = call[p].n + 1 /\ c.before = 0
    BY <2>1 DEF RefreshCalls, NoRefresh, Phases
  <2>3. call' = [call EXCEPT ![p] = c] BY DEF Acquire
  <2> HIDE DEF c
  <2> QED BY <2>2, <2>3 DEF RefreshTypeOK
<1>c. UNCHANGED <<canonical, staging, temp, server, issued, sent, secured, over, faults>>
  BY DEF Acquire, service, ghosts
<1>d. /\ \A q \in Procs : q # p => Mine(q)' = Mine(q)
      /\ Mine(p)' \in Attempts /\ server[Mine(p)'].run = "off"
  <2>1. Mine(p)' = <<p, call[p].n + 1>> /\ \A q \in Procs : q # p => Mine(q)' = Mine(q)
    BY <1>b DEF Mine
  <2>2. call[p].n + 1 \in 1 .. MaxCalls /\ call[p].n + 1 > call[p].n
    BY <1>a, RefreshAssumption DEF Typed, RefreshCalls
  <2> QED BY <2>1, <2>2 DEF ServersFit, Attempts
<1>e. \A q \in Procs : call[q].pc # "idle" => Mine(q) \in Attempts BY ActiveMine
<1>1. RefreshTypeOK' BY <1>a, <1>b, <1>c DEF RefreshTypeOK
<1> USE <1>a, <1>b, <1>c, <1>d, <1>e, MineIsOwn DEF Typed
<1>f. \A a \in Attempts : (Live(a)' <=> Live(a)) /\ (Stays(a) => Stays(a)')
  BY DEF Live, Refreshing, Changed, Stays, Scanned
<1>2. Issued' BY DEF Issued, Known
<1>3. ServersFit' BY DEF ServersFit, RefreshCalls
<1>4. CallsFit' BY DEF CallsFit, Refreshing
<1>5. OneLive' BY <1>f DEF OneLive
<1>6. HolderIsAlone' BY DEF HolderIsAlone, Held, Scanned
<1>7. Unspent' BY DEF Unspent, Refreshing, Changed
<1>8. SpentIsAnchored' BY <1>f DEF SpentIsAnchored, Anchor
<1>9. PromotionFits' BY DEF PromotionFits, Held
<1>10. SecuredIsSafe' BY <1>f DEF SecuredIsSafe, Safe, Anchor
<1>11. SentAtMostOnce' BY DEF SentAtMostOnce
<1> QED BY <1>1, <1>2, <1>3, <1>4, <1>5, <1>6, <1>7, <1>8, <1>9, <1>10, <1>11

\* A scan that finds no artifact proves that nothing is live and that the
\* credential of auth.json was never sent: a spent one has an anchor.
LEMMA ScanKeeps ==
    ASSUME RefreshInv, NEW p \in Procs, Scan(p)
    PROVE  RefreshInv'
<1> USE DEF RefreshInv
<1> DEFINE m == Mine(p)
           s == staging[m]
<1>a. m \in Attempts /\ Typed /\ call[p].pc = "scan"
  BY MineIsAttempt, Pointwise DEF Scan, At, ServersFit
<1>c. /\ \/ Passes(p, "release")
         \/ findRecoveryArtifacts = {} /\ Passes(p, "read")
      /\ call' \in [Procs -> RefreshCalls]
      /\ UNCHANGED <<canonical, staging, temp, server, issued, sent, secured, over, lock>>
  BY <1>a, GoMoves DEF Phases, Scanned, Refreshing, Scan, At, service, ghosts
<1>d. \A q \in Procs : Mine(q)' = Mine(q) BY <1>c, StepsMine DEF Passes, Steps
<1>e. \A q \in Procs : call[q].pc # "idle" => Mine(q) \in Attempts BY ActiveMine
<1>1. RefreshTypeOK' BY <1>c DEF RefreshTypeOK, Scan, service, ghosts
<1> USE <1>a, <1>c, <1>d, <1>e, MineIsOwn DEF Typed, Passes, Steps, Stages, Serves, Writes
<1>2. Issued' BY DEF Issued, Known
<1>3. ServersFit' BY DEF ServersFit
<1>4. CallsFit' BY DEF CallsFit, Refreshing
<1>5. OneLive' BY DEF OneLive, Live, Refreshing, Changed
<1>6. HolderIsAlone'
  <2>1. CASE Passes(p, "release")
    BY <2>1 DEF HolderIsAlone, Held, Scanned, Live, Refreshing, Changed
  <2>2. CASE findRecoveryArtifacts = {} /\ Passes(p, "read")
    <3>1. \A a \in Attempts : ~staging[a].dir BY <2>2 DEF findRecoveryArtifacts
    <3>2. \A a \in Attempts : ~Live(a) BY <3>1 DEF OneLive
    <3>3. \A a \in Attempts : ~Live(a)' BY <2>2, <3>2 DEF Live, Refreshing, Changed
    <3>4. sent[canonical.live] = 0
      BY <3>1, RefreshAssumption DEF SpentIsAnchored, Anchor, Issued, Known, Tokens
    <3> QED BY <2>2, <3>3, <3>4 DEF HolderIsAlone, Held, Scanned
  <2> QED BY <2>1, <2>2
<1>7. Unspent' BY DEF Unspent, Refreshing, Changed
<1>8. SpentIsAnchored'
  BY DEF SpentIsAnchored, Anchor, Stays, Scanned, Changed, findRecoveryArtifacts
<1>9. PromotionFits' BY DEF PromotionFits, Held
<1>10. SecuredIsSafe'
  BY DEF SecuredIsSafe, Safe, Anchor, Stays, Scanned, Changed, findRecoveryArtifacts
<1>11. SentAtMostOnce' BY DEF SentAtMostOnce
<1> QED BY <1>1, <1>2, <1>3, <1>4, <1>5, <1>6, <1>7, <1>8, <1>9, <1>10, <1>11

\* The snapshot is what the scan has shown to be unspent.
LEMMA readManagedAuthSnapshotKeeps ==
    ASSUME RefreshInv, NEW p \in Procs, readManagedAuthSnapshot(p)
    PROVE  RefreshInv'
<1> USE DEF RefreshInv
<1> DEFINE m == Mine(p)
           s == staging[m]
<1>a. m \in Attempts /\ Typed /\ call[p].pc = "read"
  BY MineIsAttempt, Pointwise DEF readManagedAuthSnapshot, At, ServersFit
<1>b. Steps(p, "mkdir", canonical.live, call[p].err, call[p].warned) /\ call' \in [Procs -> RefreshCalls]
  BY ZenonT(30), <1>a DEF readManagedAuthSnapshot, Steps, RefreshTypeOK, RefreshCalls,
     Phases, Scanned
<1>c. /\ Steps(p, "mkdir", canonical.live, call[p].err, call[p].warned)
      /\ call' \in [Procs -> RefreshCalls]
      /\ UNCHANGED <<canonical, staging, temp, server, issued, sent, secured, over, lock>>
  BY <1>a, <1>b, GoMoves DEF Phases, Scanned, Refreshing, readManagedAuthSnapshot, At,
     service, ghosts
<1>d. \A q \in Procs : Mine(q)' = Mine(q) BY <1>c, StepsMine DEF Passes, Steps
<1>e. \A q \in Procs : call[q].pc # "idle" => Mine(q) \in Attempts BY ActiveMine
<1>1. RefreshTypeOK'
  BY <1>b, <1>c DEF RefreshTypeOK, readManagedAuthSnapshot, service, ghosts
<1> USE <1>a, <1>c, <1>d, <1>e, MineIsOwn DEF Typed, Passes, Steps, Stages, Serves, Writes
<1>2. Issued' BY DEF Issued, Known
<1>3. ServersFit' BY DEF ServersFit
<1>4. CallsFit' BY DEF CallsFit, Refreshing, Issued, Known
<1>5. OneLive' BY DEF OneLive, Live, Refreshing, Changed
<1>6. HolderIsAlone' BY DEF HolderIsAlone, Held, Scanned, Live, Refreshing, Changed
<1>7. Unspent' BY DEF Unspent, Refreshing, Changed
<1>8. SpentIsAnchored' BY DEF SpentIsAnchored, Anchor, Stays, Scanned, Changed
<1>9. PromotionFits' BY DEF PromotionFits, Held
<1>10. SecuredIsSafe' BY DEF SecuredIsSafe, Safe, Anchor, Stays, Scanned, Changed
<1>11. SentAtMostOnce' BY DEF SentAtMostOnce
<1> QED BY <1>1, <1>2, <1>3, <1>4, <1>5, <1>6, <1>7, <1>8, <1>9, <1>10, <1>11

\* A new attempt is not live yet.
LEMMA MakeAttemptKeeps ==
    ASSUME RefreshInv, NEW p \in Procs, MakeAttempt(p)
    PROVE  RefreshInv'
<1> USE DEF RefreshInv
<1> DEFINE m == Mine(p)
           s == staging[m]
<1>a. m \in Attempts /\ Typed /\ call[p].pc = "mkdir"
  BY MineIsAttempt, Pointwise DEF MakeAttempt, At, ServersFit
<1>b. /\ \/ UNCHANGED staging /\ Go(p, "release")
         \/ Stages(m, TRUE, s.ddir, s.cred, s.dcred) /\ Go(p, "record")
      /\ staging' \in [Attempts -> StagedAttempts]
  <2>1. CASE UNCHANGED staging /\ Go(p, "release") BY <2>1 DEF RefreshTypeOK
  <2>2. CASE staging' = [staging EXCEPT ![m].dir = TRUE] /\ Go(p, "record")
    <3> DEFINE r == [s EXCEPT !.dir = TRUE]
    <3>1. /\ r \in StagedAttempts
          /\ r.dir /\ r.ddir = s.ddir /\ r.cred = s.cred /\ r.dcred = s.dcred
      BY <1>a DEF RefreshTypeOK, StagedAttempts
    <3> QED BY <1>a, <2>2, <3>1, ExceptStages
  <2> QED BY <1>a, <2>1, <2>2 DEF MakeAttempt, At
<1>c. /\ \/ Stages(m, TRUE, s.ddir, s.cred, s.dcred) /\ Passes(p, "record")
         \/ UNCHANGED staging /\ Passes(p, "release")
      /\ call' \in [Procs -> RefreshCalls]
      /\ UNCHANGED <<canonical, temp, server, issued, sent, secured, over, lock>>
  BY <1>a, <1>b, GoMoves DEF Phases, Scanned, Refreshing, MakeAttempt, At, service, ghosts
<1>d. \A q \in Procs : Mine(q)' = Mine(q) BY <1>c, StepsMine DEF Passes, Steps
<1>e. \A q \in Procs : call[q].pc # "idle" => Mine(q) \in Attempts BY ActiveMine
<1>1. RefreshTypeOK' BY <1>b, <1>c DEF RefreshTypeOK, MakeAttempt, service, ghosts, Fault
<1> USE <1>a, <1>c, <1>d, <1>e, MineIsOwn DEF Typed, Passes, Steps, Stages, Serves, Writes
<1>2. Issued' BY DEF Issued, Known
<1>3. ServersFit' BY DEF ServersFit
<1>4. CallsFit' BY DEF CallsFit, Refreshing
<1>5. OneLive' BY DEF OneLive, Live, Refreshing, Changed
<1>6. HolderIsAlone' BY DEF HolderIsAlone, Held, Scanned, Live, Refreshing, Changed
<1>7. Unspent' BY DEF Unspent, Refreshing, Changed
<1>8. SpentIsAnchored' BY DEF SpentIsAnchored, Anchor, Stays, Scanned, Changed
<1>9. PromotionFits' BY DEF PromotionFits, Held
<1>10. SecuredIsSafe' BY DEF SecuredIsSafe, Safe, Anchor, Stays, Scanned, Changed
<1>11. SentAtMostOnce' BY DEF SentAtMostOnce
<1> QED BY <1>1, <1>2, <1>3, <1>4, <1>5, <1>6, <1>7, <1>8, <1>9, <1>10, <1>11

\* The attempt is durable before the credential is copied into it.
LEMMA RecordAttemptKeeps ==
    ASSUME RefreshInv, NEW p \in Procs, RecordAttempt(p)
    PROVE  RefreshInv'
<1> USE DEF RefreshInv
<1> DEFINE m == Mine(p)
           s == staging[m]
<1>a. m \in Attempts /\ Typed /\ call[p].pc = "record"
  BY MineIsAttempt, Pointwise DEF RecordAttempt, At, ServersFit
<1>b. /\ \/ UNCHANGED staging /\ Go(p, "discard")
         \/ Stages(m, s.dir, TRUE, s.cred, s.dcred) /\ Go(p, "fill")
      /\ staging' \in [Attempts -> StagedAttempts]
  <2>1. CASE UNCHANGED staging /\ Go(p, "discard") BY <2>1 DEF RefreshTypeOK
  <2>2. CASE staging' = [staging EXCEPT ![m].ddir = TRUE] /\ Go(p, "fill")
    <3> DEFINE r == [s EXCEPT !.ddir = TRUE]
    <3>1. /\ r \in StagedAttempts
          /\ r.dir = s.dir /\ r.ddir /\ r.cred = s.cred /\ r.dcred = s.dcred
      BY <1>a DEF RefreshTypeOK, StagedAttempts
    <3> QED BY <1>a, <2>2, <3>1, ExceptStages
  <2> QED BY <1>a, <2>1, <2>2 DEF RecordAttempt, At
<1>c. /\ \/ Stages(m, s.dir, TRUE, s.cred, s.dcred) /\ Passes(p, "fill")
         \/ UNCHANGED staging /\ Passes(p, "discard")
      /\ call' \in [Procs -> RefreshCalls]
      /\ UNCHANGED <<canonical, temp, server, issued, sent, secured, over, lock>>
  BY <1>a, <1>b, GoMoves DEF Phases, Scanned, Refreshing, RecordAttempt, At, service, ghosts
<1>d. \A q \in Procs : Mine(q)' = Mine(q) BY <1>c, StepsMine DEF Passes, Steps
<1>e. \A q \in Procs : call[q].pc # "idle" => Mine(q) \in Attempts BY ActiveMine
<1>1. RefreshTypeOK' BY <1>b, <1>c DEF RefreshTypeOK, RecordAttempt, service, ghosts, Fault
<1> USE <1>a, <1>c, <1>d, <1>e, MineIsOwn DEF Typed, Passes, Steps, Stages, Serves, Writes
<1>2. Issued' BY DEF Issued, Known
<1>3. ServersFit' BY DEF ServersFit
<1>4. CallsFit' BY DEF CallsFit, Refreshing
<1>5. OneLive' BY DEF OneLive, Live, Refreshing, Changed
<1>6. HolderIsAlone' BY DEF HolderIsAlone, Held, Scanned, Live, Refreshing, Changed
<1>7. Unspent' BY DEF Unspent, Refreshing, Changed
<1>8. SpentIsAnchored' BY DEF SpentIsAnchored, Anchor, Stays, Scanned, Changed
<1>9. PromotionFits' BY DEF PromotionFits, Held
<1>10. SecuredIsSafe' BY DEF SecuredIsSafe, Safe, Anchor, Stays, Scanned, Changed
<1>11. SentAtMostOnce' BY DEF SentAtMostOnce
<1> QED BY <1>1, <1>2, <1>3, <1>4, <1>5, <1>6, <1>7, <1>8, <1>9, <1>10, <1>11

\* The copy is the snapshot, or the attempt is discarded.
LEMMA FillAttemptKeeps ==
    ASSUME RefreshInv, NEW p \in Procs, FillAttempt(p)
    PROVE  RefreshInv'
<1> USE DEF RefreshInv
<1> DEFINE m == Mine(p)
           s == staging[m]
<1>a. m \in Attempts /\ Typed /\ call[p].pc = "fill"
  BY MineIsAttempt, Pointwise DEF FillAttempt, At, ServersFit
<1>f. call[p].before \in Nat BY <1>a DEF RefreshTypeOK, RefreshCalls
<1>b. /\ \/ Stages(m, s.dir, s.ddir, call[p].before, call[p].before) /\ Go(p, "start")
         \/ Stages(m, s.dir, s.ddir, 0, s.dcred) /\ Go(p, "discard")
         \/ Stages(m, s.dir, s.ddir, call[p].before, s.dcred) /\ Go(p, "discard")
      /\ staging' \in [Attempts -> StagedAttempts]
  <2>1. CASE staging' = [staging EXCEPT ![m].cred = call[p].before, ![m].dcred = call[p].before] /\ Go(p, "start")
    <3> DEFINE r == [s EXCEPT !.cred = call[p].before, !.dcred = call[p].before]
    <3>1. /\ r \in StagedAttempts
          /\ r.dir = s.dir /\ r.ddir = s.ddir /\ r.cred = call[p].before /\ r.dcred = call[p].before
      BY <1>a, <1>f DEF RefreshTypeOK, StagedAttempts
    <3> QED BY <1>a, <2>1, <3>1, ExceptStages
  <2>2. CASE staging' = [staging EXCEPT ![m].cred = 0] /\ Go(p, "discard")
    <3> DEFINE r == [s EXCEPT !.cred = 0]
    <3>1. /\ r \in StagedAttempts
          /\ r.dir = s.dir /\ r.ddir = s.ddir /\ r.cred = 0 /\ r.dcred = s.dcred
      BY <1>a DEF RefreshTypeOK, StagedAttempts
    <3> QED BY <1>a, <2>2, <3>1, ExceptStages
  <2>3. CASE staging' = [staging EXCEPT ![m].cred = call[p].before] /\ Go(p, "discard")
    <3> DEFINE r == [s EXCEPT !.cred = call[p].before]
    <3>1. /\ r \in StagedAttempts
          /\ r.dir = s.dir /\ r.ddir = s.ddir /\ r.cred = call[p].before /\ r.dcred = s.dcred
      BY <1>a, <1>f DEF RefreshTypeOK, StagedAttempts
    <3> QED BY <1>a, <2>3, <3>1, ExceptStages
  <2> QED BY <1>a, <2>1, <2>2, <2>3 DEF FillAttempt, At
<1>c. /\ \/ Stages(m, s.dir, s.ddir, call[p].before, call[p].before) /\ Passes(p, "start")
         \/ Stages(m, s.dir, s.ddir, 0, s.dcred) /\ Passes(p, "discard")
         \/ Stages(m, s.dir, s.ddir, call[p].before, s.dcred) /\ Passes(p, "discard")
      /\ call' \in [Procs -> RefreshCalls]
      /\ UNCHANGED <<canonical, temp, server, issued, sent, secured, over, lock>>
  BY <1>a, <1>b, GoMoves DEF Phases, Scanned, Refreshing, FillAttempt, At, service, ghosts
<1>d. \A q \in Procs : Mine(q)' = Mine(q) BY <1>c, StepsMine DEF Passes, Steps
<1>e. \A q \in Procs : call[q].pc # "idle" => Mine(q) \in Attempts BY ActiveMine
<1>1. RefreshTypeOK' BY <1>b, <1>c DEF RefreshTypeOK, FillAttempt, service, ghosts, Fault
<1> USE <1>a, <1>c, <1>d, <1>e, MineIsOwn DEF Typed, Passes, Steps, Stages, Serves, Writes
<1>2. Issued' BY DEF Issued, Known
<1>3. ServersFit' BY DEF ServersFit
<1>4. CallsFit' BY DEF CallsFit, Refreshing
<1>5. OneLive' BY DEF OneLive, Live, Refreshing, Changed, ServersFit
<1>6. HolderIsAlone' BY DEF HolderIsAlone, Held, Scanned, Live, Refreshing, Changed
<1>7. Unspent' BY DEF Unspent, Refreshing, Changed, ServersFit
<1>8. SpentIsAnchored' BY DEF SpentIsAnchored, Anchor, Stays, Scanned, Changed
<1>9. PromotionFits' BY DEF PromotionFits, Held
<1>10. SecuredIsSafe' BY DEF SecuredIsSafe, Safe, Anchor, Stays, Scanned, Changed
<1>11. SentAtMostOnce' BY DEF SentAtMostOnce
<1> QED BY <1>1, <1>2, <1>3, <1>4, <1>5, <1>6, <1>7, <1>8, <1>9, <1>10, <1>11

\* An attempt that was never started is no anchor.
LEMMA DiscardKeeps ==
    ASSUME RefreshInv, NEW p \in Procs, Discard(p)
    PROVE  RefreshInv'
<1> USE DEF RefreshInv
<1> DEFINE m == Mine(p)
           s == staging[m]
<1>a. m \in Attempts /\ Typed /\ call[p].pc = "discard"
  BY MineIsAttempt, Pointwise DEF Discard, At, ServersFit
<1>b. /\ \/ Stages(m, FALSE, s.ddir, 0, s.dcred) /\ Go(p, "release")
         \/ Stages(m, s.dir, s.ddir, 0, s.dcred) /\ Go(p, "release")
         \/ Stages(m, s.dir, s.ddir, s.cred, s.dcred) /\ Go(p, "release")
      /\ staging' \in [Attempts -> StagedAttempts]
  <2>1. CASE staging' = [staging EXCEPT ![m].dir = FALSE, ![m].cred = 0] /\ Go(p, "release")
    <3> DEFINE r == [s EXCEPT !.dir = FALSE, !.cred = 0]
    <3>1. /\ r \in StagedAttempts
          /\ r.dir = FALSE /\ r.ddir = s.ddir /\ r.cred = 0 /\ r.dcred = s.dcred
      BY <1>a DEF RefreshTypeOK, StagedAttempts
    <3> QED BY ZenonT(30), <1>a, <2>1, <3>1, ExceptStages
  <2>2. CASE staging' = [staging EXCEPT ![m].cred = 0] /\ Go(p, "release")
    <3> DEFINE r == [s EXCEPT !.cred = 0]
    <3>1. /\ r \in StagedAttempts
          /\ r.dir = s.dir /\ r.ddir = s.ddir /\ r.cred = 0 /\ r.dcred = s.dcred
      BY <1>a DEF RefreshTypeOK, StagedAttempts
    <3> QED BY <1>a, <2>2, <3>1, ExceptStages
  <2>3. CASE staging' = [staging EXCEPT ![m].cred = s.cred] /\ Go(p, "release")
    <3> DEFINE r == [s EXCEPT !.cred = s.cred]
    <3>1. /\ r \in StagedAttempts
          /\ r.dir = s.dir /\ r.ddir = s.ddir /\ r.cred = s.cred /\ r.dcred = s.dcred
      BY <1>a DEF RefreshTypeOK, StagedAttempts
    <3> QED BY <1>a, <2>3, <3>1, ExceptStages
  <2> QED BY <1>a, <2>1, <2>2, <2>3 DEF Discard, At, removeStagingAttempt
<1>c. /\ \/ Stages(m, FALSE, s.ddir, 0, s.dcred) /\ Passes(p, "release")
         \/ Stages(m, s.dir, s.ddir, 0, s.dcred) /\ Passes(p, "release")
         \/ Stages(m, s.dir, s.ddir, s.cred, s.dcred) /\ Passes(p, "release")
      /\ call' \in [Procs -> RefreshCalls]
      /\ UNCHANGED <<canonical, temp, server, issued, sent, secured, over, lock>>
  BY <1>a, <1>b, GoMoves DEF Phases, Scanned, Refreshing, Discard, At, service, ghosts
<1>d. \A q \in Procs : Mine(q)' = Mine(q) BY <1>c, StepsMine DEF Passes, Steps
<1>e. \A q \in Procs : call[q].pc # "idle" => Mine(q) \in Attempts BY ActiveMine
<1>1. RefreshTypeOK'
  BY <1>b, <1>c DEF RefreshTypeOK, Discard, service, ghosts, Fault, removeStagingAttempt
<1> USE <1>a, <1>c, <1>d, <1>e, MineIsOwn DEF Typed, Passes, Steps, Stages, Serves, Writes
<1>2. Issued' BY DEF Issued, Known
<1>3. ServersFit' BY DEF ServersFit
<1>4. CallsFit' BY DEF CallsFit, Refreshing
<1>5. OneLive' BY DEF OneLive, Live, Refreshing, Changed, ServersFit
<1>6. HolderIsAlone' BY DEF HolderIsAlone, Held, Scanned, Live, Refreshing, Changed
<1>7. Unspent' BY DEF Unspent, Refreshing, Changed, ServersFit
<1>8. SpentIsAnchored' BY DEF SpentIsAnchored, Anchor, Stays, Scanned, Changed
<1>9. PromotionFits' BY DEF PromotionFits, Held
<1>10. SecuredIsSafe' BY DEF SecuredIsSafe, Safe, Anchor, Stays, Scanned, Changed
<1>11. SentAtMostOnce' BY DEF SentAtMostOnce
<1> QED BY <1>1, <1>2, <1>3, <1>4, <1>5, <1>6, <1>7, <1>8, <1>9, <1>10, <1>11

-----------------------------------------------------------------------------
(* The app-server and its caller.                                          *)

\* The holder of the lock is alone, so its app-server is the only live one.
LEMMA StartKeeps ==
    ASSUME RefreshInv, NEW p \in Procs, Start(p)
    PROVE  RefreshInv'
<1> USE DEF RefreshInv
<1> DEFINE m == Mine(p)
           s == staging[m]
           sv == server[m]
<1>a. m \in Attempts /\ Typed /\ call[p].pc = "start"
  BY MineIsAttempt, Pointwise DEF Start, At, ServersFit
<1>b. /\ \/ Serves(m, "up", sv.net, sv.result) /\ Held(p) /\ Go(p, "ask")
         \/ UNCHANGED server /\ Go(p, "unsent")
      /\ server' \in [Attempts -> Servers]
  <2>1. CASE server' = [server EXCEPT ![m].run = "up"] /\ Held(p) /\ Go(p, "ask")
    <3> DEFINE r == [sv EXCEPT !.run = "up"]
    <3>1. /\ r \in Servers
          /\ r.run = "up" /\ r.net = sv.net /\ r.result = sv.result
      BY <1>a DEF RefreshTypeOK, Servers
    <3> QED BY <1>a, <2>1, <3>1, ExceptServes
  <2>2. CASE UNCHANGED server /\ Go(p, "unsent") BY <2>2 DEF RefreshTypeOK
  <2> QED BY <1>a, <2>1, <2>2 DEF Start, At
<1>c. /\ \/ Serves(m, "up", sv.net, sv.result) /\ Held(p) /\ Passes(p, "ask")
         \/ UNCHANGED server /\ Passes(p, "unsent")
      /\ call' \in [Procs -> RefreshCalls]
      /\ UNCHANGED <<canonical, staging, temp, issued, sent, secured, over, lock>>
  BY <1>a, <1>b, GoMoves DEF Phases, Scanned, Refreshing, Start, At, service, ghosts
<1>d. \A q \in Procs : Mine(q)' = Mine(q) BY <1>c, StepsMine DEF Passes, Steps
<1>e. \A q \in Procs : call[q].pc # "idle" => Mine(q) \in Attempts BY ActiveMine
<1>1. RefreshTypeOK' BY <1>b, <1>c DEF RefreshTypeOK, Start, service, ghosts
<1> USE <1>a, <1>c, <1>d, <1>e, MineIsOwn DEF Typed, Passes, Steps, Stages, Serves, Writes
<1>2. Issued' BY DEF Issued, Known
<1>3. ServersFit' BY LaterAttempts DEF ServersFit
<1>4. CallsFit' BY DEF CallsFit, Refreshing
<1>5. OneLive'
  BY DEF OneLive, Live, Refreshing, Changed, HolderIsAlone, Held, Scanned, CallsFit
<1>6. HolderIsAlone'
  BY DEF HolderIsAlone, Held, Scanned, Live, Refreshing, Changed, CallsFit
<1>7. Unspent'
  BY DEF Unspent, Refreshing, Changed, HolderIsAlone, Held, Scanned, CallsFit, ServersFit
<1>8. SpentIsAnchored' BY DEF SpentIsAnchored, Anchor, Stays, Scanned, Changed
<1>9. PromotionFits' BY DEF PromotionFits, Held
<1>10. SecuredIsSafe' BY DEF SecuredIsSafe, Safe, Anchor, Stays, Scanned, Changed
<1>11. SentAtMostOnce' BY DEF SentAtMostOnce
<1> QED BY <1>1, <1>2, <1>3, <1>4, <1>5, <1>6, <1>7, <1>8, <1>9, <1>10, <1>11

\* The request is made with the lock, or the app-server is stopped.
LEMMA AskKeeps ==
    ASSUME RefreshInv, NEW p \in Procs, Ask(p)
    PROVE  RefreshInv'
<1> USE DEF RefreshInv
<1> DEFINE m == Mine(p)
           s == staging[m]
           sv == server[m]
<1>a. m \in Attempts /\ Typed /\ call[p].pc = "ask"
  BY MineIsAttempt, Pointwise DEF Ask, At, ServersFit
<1>b. /\ \/ Serves(m, "asked", sv.net, sv.result) /\ Passes(p, "wait")
         \/ Serves(m, "off", "idle", "none") /\ Steps(p, "unsent", call[p].before, TRUE, call[p].warned)
         \/ UNCHANGED server /\ Passes(p, "release")
      /\ server' \in [Attempts -> Servers] /\ call' \in [Procs -> RefreshCalls] /\ faults' \in Nat
  <2>1. CASE server' = [server EXCEPT ![m].run = "asked"] /\ Go(p, "wait") /\ UNCHANGED faults
    <3> DEFINE r == [sv EXCEPT !.run = "asked"]
    <3>1. /\ r \in Servers
          /\ r.run = "asked" /\ r.net = sv.net /\ r.result = sv.result
      BY <1>a DEF RefreshTypeOK, Servers
    <3>2. Passes(p, "wait") /\ call' \in [Procs -> RefreshCalls]
      BY <2>1, GoMoves DEF Phases, Refreshing
    <3>3. Serves(m, "asked", sv.net, sv.result) /\ server' \in [Attempts -> Servers]
      BY <1>a, <2>1, <3>1, ExceptServes
    <3> QED BY <2>1, <3>2, <3>3 DEF RefreshTypeOK
  <2>2. CASE Stopped(p, TRUE, "unsent") BY <1>a, <2>2, StoppedServes DEF Phases
  <2> QED BY <2>1, <2>2 DEF Ask
<1>c. /\ \/ Serves(m, "asked", sv.net, sv.result) /\ Passes(p, "wait")
         \/ Serves(m, "off", "idle", "none") /\ Steps(p, "unsent", call[p].before, TRUE, call[p].warned)
         \/ UNCHANGED server /\ Passes(p, "release")
      /\ call' \in [Procs -> RefreshCalls]
      /\ UNCHANGED <<canonical, staging, temp, issued, sent, secured, over, lock>>
  BY <1>a, <1>b, GoMoves DEF Phases, Scanned, Refreshing, Ask, At, service, ghosts
<1>d. \A q \in Procs : Mine(q)' = Mine(q) BY <1>c, StepsMine DEF Passes, Steps
<1>e. \A q \in Procs : call[q].pc # "idle" => Mine(q) \in Attempts BY ActiveMine
<1>1. RefreshTypeOK' BY <1>b, <1>c DEF RefreshTypeOK, Ask, service, ghosts
<1> USE <1>a, <1>c, <1>d, <1>e, MineIsOwn DEF Typed, Passes, Steps, Stages, Serves, Writes
<1>2. Issued' BY DEF Issued, Known
<1>3. ServersFit' BY LaterAttempts DEF ServersFit
<1>4. CallsFit' BY DEF CallsFit, Refreshing, OneLive, Live, ServersFit
<1>5. OneLive' BY DEF OneLive, Live, Refreshing, Changed
<1>6. HolderIsAlone' BY DEF HolderIsAlone, Held, Scanned, Live, Refreshing, Changed
<1>7. Unspent' BY DEF Unspent, Refreshing, Changed, ServersFit
<1>8. SpentIsAnchored' BY DEF SpentIsAnchored, Anchor, Stays, Scanned, Changed
<1>9. PromotionFits' BY DEF PromotionFits, Held
<1>10. SecuredIsSafe' BY DEF SecuredIsSafe, Safe, Anchor, Stays, Scanned, Changed
<1>11. SentAtMostOnce' BY DEF SentAtMostOnce
<1> QED BY <1>1, <1>2, <1>3, <1>4, <1>5, <1>6, <1>7, <1>8, <1>9, <1>10, <1>11

\* A failed start is settled by what the staged credential says.
LEMMA StartFailsKeeps ==
    ASSUME RefreshInv, NEW p \in Procs, StartFails(p)
    PROVE  RefreshInv'
<1> USE DEF RefreshInv
<1> DEFINE m == Mine(p)
           s == staging[m]
           sv == server[m]
<1>a. m \in Attempts /\ Typed /\ call[p].pc = "ask"
  BY MineIsAttempt, Pointwise DEF StartFails, At, ServersFit
<1>b. /\ \/ Serves(m, "off", "idle", "none") /\ Go(p, "unsent")
         \/ UNCHANGED server /\ Go(p, "release")
      /\ server' \in [Attempts -> Servers]
  <2>1. CASE server' = [server EXCEPT ![m] = NoServer] /\ Go(p, "unsent")
    <3> DEFINE r == NoServer
    <3>1. /\ r \in Servers
          /\ r.run = "off" /\ r.net = "idle" /\ r.result = "none"
      BY <1>a DEF RefreshTypeOK, Servers, NoServer
    <3> QED BY <1>a, <2>1, <3>1, ExceptServes
  <2>2. CASE UNCHANGED server /\ Go(p, "release") BY <2>2 DEF RefreshTypeOK
  <2> QED BY <1>a, <2>1, <2>2 DEF StartFails, At
<1>c. /\ \/ Serves(m, "off", "idle", "none") /\ Passes(p, "unsent")
         \/ UNCHANGED server /\ Passes(p, "release")
      /\ call' \in [Procs -> RefreshCalls]
      /\ UNCHANGED <<canonical, staging, temp, issued, sent, secured, over, lock>>
  BY <1>a, <1>b, GoMoves DEF Phases, Scanned, Refreshing, StartFails, At, service, ghosts
<1>d. \A q \in Procs : Mine(q)' = Mine(q) BY <1>c, StepsMine DEF Passes, Steps
<1>e. \A q \in Procs : call[q].pc # "idle" => Mine(q) \in Attempts BY ActiveMine
<1>1. RefreshTypeOK' BY <1>b, <1>c DEF RefreshTypeOK, StartFails, service, ghosts, Fault
<1> USE <1>a, <1>c, <1>d, <1>e, MineIsOwn DEF Typed, Passes, Steps, Stages, Serves, Writes
<1>2. Issued' BY DEF Issued, Known
<1>3. ServersFit' BY LaterAttempts DEF ServersFit
<1>4. CallsFit' BY DEF CallsFit, Refreshing, OneLive, Live, ServersFit
<1>5. OneLive' BY DEF OneLive, Live, Refreshing, Changed
<1>6. HolderIsAlone' BY DEF HolderIsAlone, Held, Scanned, Live, Refreshing, Changed
<1>7. Unspent' BY DEF Unspent, Refreshing, Changed
<1>8. SpentIsAnchored' BY DEF SpentIsAnchored, Anchor, Stays, Scanned, Changed
<1>9. PromotionFits' BY DEF PromotionFits, Held
<1>10. SecuredIsSafe' BY DEF SecuredIsSafe, Safe, Anchor, Stays, Scanned, Changed
<1>11. SentAtMostOnce' BY DEF SentAtMostOnce
<1> QED BY <1>1, <1>2, <1>3, <1>4, <1>5, <1>6, <1>7, <1>8, <1>9, <1>10, <1>11

\* A lost lock stops the app-server, the attempt stays.
LEMMA AbortKeeps ==
    ASSUME RefreshInv, NEW p \in Procs, Abort(p)
    PROVE  RefreshInv'
<1> USE DEF RefreshInv
<1> DEFINE m == Mine(p)
           s == staging[m]
           sv == server[m]
<1>a. m \in Attempts /\ Typed /\ call[p].pc \in {"ask", "wait"} /\ ~Held(p)
  BY MineIsAttempt, Pointwise DEF Abort, At, ServersFit
<1>b. /\ \/ Serves(m, "off", "idle", "none") /\ Steps(p, "sync", call[p].before, TRUE, call[p].warned)
         \/ UNCHANGED server /\ Passes(p, "release")
      /\ server' \in [Attempts -> Servers] /\ call' \in [Procs -> RefreshCalls] /\ faults' \in Nat
  BY <1>a, StoppedServes DEF Abort, Phases, Refreshing
<1>c. /\ \/ Serves(m, "off", "idle", "none") /\ Steps(p, "sync", call[p].before, TRUE, call[p].warned)
         \/ UNCHANGED server /\ Passes(p, "release")
      /\ call' \in [Procs -> RefreshCalls]
      /\ UNCHANGED <<canonical, staging, temp, issued, sent, secured, over, lock>>
  BY <1>a, <1>b, GoMoves DEF Phases, Scanned, Refreshing, Abort, At, service, ghosts
<1>d. \A q \in Procs : Mine(q)' = Mine(q) BY <1>c, StepsMine DEF Passes, Steps
<1>e. \A q \in Procs : call[q].pc # "idle" => Mine(q) \in Attempts BY ActiveMine
<1>1. RefreshTypeOK' BY <1>b, <1>c DEF RefreshTypeOK, Abort, service, ghosts
<1> USE <1>a, <1>c, <1>d, <1>e, MineIsOwn DEF Typed, Passes, Steps, Stages, Serves, Writes
<1>2. Issued' BY DEF Issued, Known
<1>3. ServersFit' BY LaterAttempts DEF ServersFit
<1>4. CallsFit' BY DEF CallsFit, Refreshing, OneLive, Live, ServersFit
<1>5. OneLive' BY DEF OneLive, Live, Refreshing, Changed
<1>6. HolderIsAlone' BY DEF HolderIsAlone, Held, Scanned, Live, Refreshing, Changed
<1>7. Unspent' BY DEF Unspent, Refreshing, Changed, ServersFit
<1>8. SpentIsAnchored' BY DEF SpentIsAnchored, Anchor, Stays, Scanned, Changed
<1>9. PromotionFits' BY DEF PromotionFits, Held
<1>10. SecuredIsSafe' BY DEF SecuredIsSafe, Safe, Anchor, Stays, Scanned, Changed
<1>11. SentAtMostOnce' BY DEF SentAtMostOnce
<1> QED BY <1>1, <1>2, <1>3, <1>4, <1>5, <1>6, <1>7, <1>8, <1>9, <1>10, <1>11

\* A successful answer leaves a credential that was not sent.
LEMMA RespondedKeeps ==
    ASSUME RefreshInv, NEW p \in Procs, Responded(p)
    PROVE  RefreshInv'
<1> USE DEF RefreshInv
<1> DEFINE m == Mine(p)
           s == staging[m]
           sv == server[m]
<1>a. m \in Attempts /\ Typed /\ call[p].pc = "wait" /\ sv.result # "none"
  BY MineIsAttempt, Pointwise DEF Responded, At, ServersFit
<1>b. /\ \/ Serves(m, "off", "idle", "none") /\ Steps(p, "sync", call[p].before, sv.result = "error", call[p].warned)
         \/ UNCHANGED server /\ Passes(p, "release")
      /\ server' \in [Attempts -> Servers] /\ call' \in [Procs -> RefreshCalls] /\ faults' \in Nat
  BY <1>a, StoppedServes DEF Responded, Phases, Refreshing
<1>c. /\ \/ Serves(m, "off", "idle", "none") /\ Steps(p, "sync", call[p].before, sv.result = "error", call[p].warned)
         \/ UNCHANGED server /\ Passes(p, "release")
      /\ call' \in [Procs -> RefreshCalls]
      /\ UNCHANGED <<canonical, staging, temp, issued, sent, secured, over, lock>>
  BY <1>a, <1>b, GoMoves DEF Phases, Scanned, Refreshing, Responded, At, service, ghosts
<1>d. \A q \in Procs : Mine(q)' = Mine(q) BY <1>c, StepsMine DEF Passes, Steps
<1>e. \A q \in Procs : call[q].pc # "idle" => Mine(q) \in Attempts BY ActiveMine
<1>1. RefreshTypeOK' BY <1>b, <1>c DEF RefreshTypeOK, Responded, service, ghosts
<1> USE <1>a, <1>c, <1>d, <1>e, MineIsOwn DEF Typed, Passes, Steps, Stages, Serves, Writes
<1>2. Issued' BY DEF Issued, Known
<1>3. ServersFit' BY LaterAttempts DEF ServersFit
<1>4. CallsFit' BY DEF CallsFit, Refreshing, OneLive, Live, ServersFit
<1>5. OneLive' BY DEF OneLive, Live, Refreshing, Changed
<1>6. HolderIsAlone' BY DEF HolderIsAlone, Held, Scanned, Live, Refreshing, Changed
<1>7. Unspent'
  <2>1. sv.result # "error" => sent[s.cred] = 0 BY DEF Unspent, ServersFit
  <2>2. \/ Passes(p, "release") /\ UNCHANGED server
        \/ /\ Serves(m, "off", "idle", "none")
           /\ call'[p].pc = "sync" /\ (~call'[p].err => sv.result # "error")
           /\ call'[p].before = call[p].before
           /\ \A q \in Procs : q # p => call'[q] = call[q]
    OBVIOUS
  <2> QED BY <2>1, <2>2 DEF Unspent, Refreshing, Changed
<1>8. SpentIsAnchored' BY DEF SpentIsAnchored, Anchor, Stays, Scanned, Changed
<1>9. PromotionFits' BY DEF PromotionFits, Held
<1>10. SecuredIsSafe' BY DEF SecuredIsSafe, Safe, Anchor, Stays, Scanned, Changed
<1>11. SentAtMostOnce' BY DEF SentAtMostOnce
<1> QED BY <1>1, <1>2, <1>3, <1>4, <1>5, <1>6, <1>7, <1>8, <1>9, <1>10, <1>11

\* After the request every failure keeps the attempt.
LEMMA TimesOutKeeps ==
    ASSUME RefreshInv, NEW p \in Procs, TimesOut(p)
    PROVE  RefreshInv'
<1> USE DEF RefreshInv
<1> DEFINE m == Mine(p)
           s == staging[m]
           sv == server[m]
<1>a. m \in Attempts /\ Typed /\ call[p].pc = "wait"
  BY MineIsAttempt, Pointwise DEF TimesOut, At, ServersFit
<1>f. faults' \in Nat BY DEF RefreshTypeOK, TimesOut, Fault
<1>b. /\ \/ Serves(m, "off", "idle", "none") /\ Steps(p, "sync", call[p].before, TRUE, call[p].warned)
         \/ UNCHANGED server /\ Passes(p, "release")
      /\ server' \in [Attempts -> Servers] /\ call' \in [Procs -> RefreshCalls] /\ faults' \in Nat
  <2>1. CASE /\ server' = [server EXCEPT ![m] = NoServer]
             /\ call' = [call EXCEPT ![p].pc = "sync", ![p].err = TRUE]
    <3>1. Serves(m, "off", "idle", "none") /\ server' \in [Attempts -> Servers]
      BY ZenonT(30), <1>a, <2>1, ExceptServes DEF NoServer, Servers
    <3>2. /\ Steps(p, "sync", call[p].before, TRUE, call[p].warned)
          /\ call' \in [Procs -> RefreshCalls]
      <4>1. "sync" \in Phases BY DEF Phases, Refreshing
      <4> QED BY ZenonT(30), <2>1, <4>1 DEF RefreshTypeOK, Steps, RefreshCalls
    <3> QED BY <3>1, <3>2, <1>f
  <2>2. CASE Go(p, "release") /\ UNCHANGED server
    BY <1>f, <2>2, GoMoves DEF RefreshTypeOK, Phases
  <2> QED BY <2>1, <2>2 DEF TimesOut
<1>c. /\ \/ Serves(m, "off", "idle", "none") /\ Steps(p, "sync", call[p].before, TRUE, call[p].warned)
         \/ UNCHANGED server /\ Passes(p, "release")
      /\ call' \in [Procs -> RefreshCalls]
      /\ UNCHANGED <<canonical, staging, temp, issued, sent, secured, over, lock>>
  BY <1>a, <1>b, GoMoves DEF Phases, Scanned, Refreshing, TimesOut, At, service, ghosts
<1>d. \A q \in Procs : Mine(q)' = Mine(q) BY <1>c, StepsMine DEF Passes, Steps
<1>e. \A q \in Procs : call[q].pc # "idle" => Mine(q) \in Attempts BY ActiveMine
<1>1. RefreshTypeOK' BY <1>b, <1>c DEF RefreshTypeOK, TimesOut, service, ghosts
<1> USE <1>a, <1>c, <1>d, <1>e, MineIsOwn DEF Typed, Passes, Steps, Stages, Serves, Writes
<1>2. Issued' BY DEF Issued, Known
<1>3. ServersFit' BY LaterAttempts DEF ServersFit
<1>4. CallsFit' BY DEF CallsFit, Refreshing, OneLive, Live, ServersFit
<1>5. OneLive' BY DEF OneLive, Live, Refreshing, Changed
<1>6. HolderIsAlone' BY DEF HolderIsAlone, Held, Scanned, Live, Refreshing, Changed
<1>7. Unspent' BY DEF Unspent, Refreshing, Changed, ServersFit
<1>8. SpentIsAnchored' BY DEF SpentIsAnchored, Anchor, Stays, Scanned, Changed
<1>9. PromotionFits' BY DEF PromotionFits, Held
<1>10. SecuredIsSafe' BY DEF SecuredIsSafe, Safe, Anchor, Stays, Scanned, Changed
<1>11. SentAtMostOnce' BY DEF SentAtMostOnce
<1> QED BY <1>1, <1>2, <1>3, <1>4, <1>5, <1>6, <1>7, <1>8, <1>9, <1>10, <1>11

\* An unchanged attempt is no anchor; a changed one is secured where it is.
LEMMA UnsentKeeps ==
    ASSUME RefreshInv, NEW p \in Procs, Unsent(p)
    PROVE  RefreshInv'
<1> USE DEF RefreshInv
<1> DEFINE m == Mine(p)
           s == staging[m]
<1>a. m \in Attempts /\ Typed /\ call[p].pc = "unsent"
  BY MineIsAttempt, Pointwise DEF Unsent, At, ServersFit
<1>b. /\ \/ UNCHANGED staging /\ s.cred = call[p].before /\ UNCHANGED secured /\ Go(p, "remove")
         \/ Stages(m, s.dir, s.ddir, s.cred, s.cred) /\ s.cred # call[p].before /\ secured' = secured \cup ({s.cred} \ {0}) /\ Go(p, "release")
         \/ UNCHANGED staging /\ s.cred # call[p].before /\ UNCHANGED secured /\ Go(p, "release")
      /\ staging' \in [Attempts -> StagedAttempts]
  <2>1. CASE UNCHANGED staging /\ s.cred = call[p].before /\ UNCHANGED secured /\ Go(p, "remove")
    BY <2>1 DEF RefreshTypeOK
  <2>2. CASE staging' = [staging EXCEPT ![m].dcred = s.cred] /\ s.cred # call[p].before /\ secured' = secured \cup ({s.cred} \ {0}) /\ Go(p, "release")
    <3> DEFINE r == [s EXCEPT !.dcred = s.cred]
    <3>1. /\ r \in StagedAttempts
          /\ r.dir = s.dir /\ r.ddir = s.ddir /\ r.cred = s.cred /\ r.dcred = s.cred
      BY <1>a DEF RefreshTypeOK, StagedAttempts
    <3> QED BY <1>a, <2>2, <3>1, ExceptStages
  <2>3. CASE UNCHANGED staging /\ s.cred # call[p].before /\ UNCHANGED secured /\ Go(p, "release")
    BY <2>3 DEF RefreshTypeOK
  <2> QED BY <1>a, <2>1, <2>2, <2>3 DEF Unsent, At
<1>c. /\ \/ UNCHANGED staging /\ s.cred = call[p].before /\ UNCHANGED secured /\ Passes(p, "remove")
         \/ Stages(m, s.dir, s.ddir, s.cred, s.cred) /\ s.cred # call[p].before /\ secured' = secured \cup ({s.cred} \ {0}) /\ Passes(p, "release")
         \/ UNCHANGED staging /\ s.cred # call[p].before /\ UNCHANGED secured /\ Passes(p, "release")
      /\ call' \in [Procs -> RefreshCalls]
      /\ UNCHANGED <<canonical, temp, server, issued, sent, over, lock>>
  BY <1>a, <1>b, GoMoves DEF Phases, Scanned, Refreshing, Unsent, At, service, ghosts
<1>d. \A q \in Procs : Mine(q)' = Mine(q) BY <1>c, StepsMine DEF Passes, Steps
<1>e. \A q \in Procs : call[q].pc # "idle" => Mine(q) \in Attempts BY ActiveMine
<1>1. RefreshTypeOK'
  <2>1. secured' \subseteq Nat /\ faults' \in Nat
    BY <1>a, <1>c DEF RefreshTypeOK, Typed, Unsent, Fault
  <2> QED BY <1>b, <1>c, <2>1 DEF RefreshTypeOK
<1> USE <1>a, <1>c, <1>d, <1>e, MineIsOwn DEF Typed, Passes, Steps, Stages, Serves, Writes
<1>2. Issued'
  <2>1. secured' \subseteq Known
    <3>1. s.cred # 0 => s.cred \in Known BY DEF Issued, Known
    <3> QED BY <3>1 DEF Issued
  <2> QED BY <2>1 DEF Issued, Known
<1>3. ServersFit' BY DEF ServersFit
<1>4. CallsFit' BY DEF CallsFit, Refreshing
<1>5. OneLive' BY DEF OneLive, Live, Refreshing, Changed
<1>6. HolderIsAlone' BY DEF HolderIsAlone, Held, Scanned, Live, Refreshing, Changed
<1>7. Unspent' BY DEF Unspent, Refreshing, Changed
<1>8. SpentIsAnchored' BY DEF SpentIsAnchored, Anchor, Stays, Scanned, Changed
<1>9. PromotionFits' BY DEF PromotionFits, Held, OneLive, Live, Changed, Refreshing
<1>10. SecuredIsSafe'
  <2> SUFFICES ASSUME NEW t \in secured' \ over, sent[t] = 0
               PROVE  Safe(t)'
    BY DEF SecuredIsSafe
  <2>1. CASE t \in secured BY <2>1 DEF SecuredIsSafe, Safe, Anchor, Stays, Scanned, Changed
  <2>2. CASE t \notin secured
    <3>1. t = s.cred /\ s.cred # call[p].before BY <2>2
    <3>2. s.dir /\ s.ddir BY DEF CallsFit
    <3>3. /\ staging'[m].dir /\ staging'[m].ddir
          /\ staging'[m].cred = t /\ staging'[m].dcred = t
      BY <2>2, <3>1, <3>2
    <3>4. Stays(m)' BY <2>2 DEF Stays, Scanned
    <3> QED BY <3>3, <3>4 DEF Safe, Anchor
  <2> QED BY <2>1, <2>2
<1>11. SentAtMostOnce' BY DEF SentAtMostOnce
<1> QED BY <1>1, <1>2, <1>3, <1>4, <1>5, <1>6, <1>7, <1>8, <1>9, <1>10, <1>11

\* What is secured is in the attempt, which is an anchor.
LEMMA syncRefreshedStagingAuthKeeps ==
    ASSUME RefreshInv, NEW p \in Procs, syncRefreshedStagingAuth(p)
    PROVE  RefreshInv'
<1> USE DEF RefreshInv
<1> DEFINE m == Mine(p)
           s == staging[m]
<1>a. m \in Attempts /\ Typed /\ call[p].pc = "sync"
  BY MineIsAttempt, Pointwise DEF syncRefreshedStagingAuth, At, ServersFit
<1>b. /\ \/ Stages(m, s.dir, s.ddir, s.cred, s.cred) /\ secured' = secured \cup ({s.cred} \ {0, call[p].before}) /\ call[p].err /\ Go(p, "release")
         \/ Stages(m, s.dir, s.ddir, s.cred, s.cred) /\ secured' = secured \cup ({s.cred} \ {0, call[p].before}) /\ ~call[p].err /\ Go(p, "validate")
         \/ UNCHANGED staging /\ UNCHANGED secured /\ Go(p, "release")
      /\ staging' \in [Attempts -> StagedAttempts]
  <2>1. CASE staging' = [staging EXCEPT ![m].dcred = s.cred] /\ secured' = secured \cup ({s.cred} \ {0, call[p].before}) /\ call[p].err /\ Go(p, "release")
    <3> DEFINE r == [s EXCEPT !.dcred = s.cred]
    <3>1. /\ r \in StagedAttempts
          /\ r.dir = s.dir /\ r.ddir = s.ddir /\ r.cred = s.cred /\ r.dcred = s.cred
      BY <1>a DEF RefreshTypeOK, StagedAttempts
    <3> QED BY <1>a, <2>1, <3>1, ExceptStages
  <2>2. CASE staging' = [staging EXCEPT ![m].dcred = s.cred] /\ secured' = secured \cup ({s.cred} \ {0, call[p].before}) /\ ~call[p].err /\ Go(p, "validate")
    <3> DEFINE r == [s EXCEPT !.dcred = s.cred]
    <3>1. /\ r \in StagedAttempts
          /\ r.dir = s.dir /\ r.ddir = s.ddir /\ r.cred = s.cred /\ r.dcred = s.cred
      BY <1>a DEF RefreshTypeOK, StagedAttempts
    <3> QED BY <1>a, <2>2, <3>1, ExceptStages
  <2>3. CASE UNCHANGED staging /\ UNCHANGED secured /\ Go(p, "release")
    BY <2>3 DEF RefreshTypeOK
  <2> QED BY <1>a, <2>1, <2>2, <2>3 DEF syncRefreshedStagingAuth, At
<1>c. /\ \/ Stages(m, s.dir, s.ddir, s.cred, s.cred) /\ secured' = secured \cup ({s.cred} \ {0, call[p].before}) /\ call[p].err /\ Passes(p, "release")
         \/ Stages(m, s.dir, s.ddir, s.cred, s.cred) /\ secured' = secured \cup ({s.cred} \ {0, call[p].before}) /\ ~call[p].err /\ Passes(p, "validate")
         \/ UNCHANGED staging /\ UNCHANGED secured /\ Passes(p, "release")
      /\ call' \in [Procs -> RefreshCalls]
      /\ UNCHANGED <<canonical, temp, server, issued, sent, over, lock>>
  BY <1>a, <1>b, GoMoves DEF Phases, Scanned, Refreshing, syncRefreshedStagingAuth, At,
     service, ghosts
<1>d. \A q \in Procs : Mine(q)' = Mine(q) BY <1>c, StepsMine DEF Passes, Steps
<1>e. \A q \in Procs : call[q].pc # "idle" => Mine(q) \in Attempts BY ActiveMine
<1>1. RefreshTypeOK'
  <2>1. secured' \subseteq Nat /\ faults' \in Nat
    BY <1>a, <1>c DEF RefreshTypeOK, Typed, syncRefreshedStagingAuth, Fault
  <2> QED BY <1>b, <1>c, <2>1 DEF RefreshTypeOK
<1> USE <1>a, <1>c, <1>d, <1>e, MineIsOwn DEF Typed, Passes, Steps, Stages, Serves, Writes
<1>2. Issued'
  <2>1. secured' \subseteq Known
    <3>1. s.cred # 0 => s.cred \in Known BY DEF Issued, Known
    <3> QED BY ZenonT(30), <3>1 DEF Issued
  <2> QED BY <2>1 DEF Issued, Known
<1>3. ServersFit' BY DEF ServersFit
<1>4. CallsFit' BY DEF CallsFit, Refreshing
<1>5. OneLive' BY DEF OneLive, Live, Refreshing, Changed
<1>6. HolderIsAlone' BY DEF HolderIsAlone, Held, Scanned, Live, Refreshing, Changed
<1>7. Unspent' BY DEF Unspent, Refreshing, Changed
<1>8. SpentIsAnchored' BY DEF SpentIsAnchored, Anchor, Stays, Scanned, Changed
<1>9. PromotionFits' BY DEF PromotionFits, Held, OneLive, Live, Changed, Refreshing
<1>10. SecuredIsSafe'
  <2> SUFFICES ASSUME NEW t \in secured' \ over, sent[t] = 0
               PROVE  Safe(t)'
    BY DEF SecuredIsSafe
  <2>1. CASE t \in secured BY <2>1 DEF SecuredIsSafe, Safe, Anchor, Stays, Scanned, Changed
  <2>2. CASE t \notin secured
    <3>1. t = s.cred /\ s.cred # call[p].before BY <2>2
    <3>2. s.dir /\ s.ddir BY DEF OneLive, Live, Refreshing
    <3>3. /\ staging'[m].dir /\ staging'[m].ddir
          /\ staging'[m].cred = t /\ staging'[m].dcred = t
      BY <2>2, <3>1, <3>2
    <3>4. Stays(m)' BY <2>2 DEF Stays, Scanned
    <3> QED BY <3>3, <3>4 DEF Safe, Anchor
  <2> QED BY <2>1, <2>2
<1>11. SentAtMostOnce' BY DEF SentAtMostOnce
<1> QED BY <1>1, <1>2, <1>3, <1>4, <1>5, <1>6, <1>7, <1>8, <1>9, <1>10, <1>11

-----------------------------------------------------------------------------
(* The promotion.                                                          *)

\* Only a changed credential becomes a candidate.
LEMMA ValidateKeeps ==
    ASSUME RefreshInv, NEW p \in Procs, Validate(p)
    PROVE  RefreshInv'
<1> USE DEF RefreshInv
<1> DEFINE m == Mine(p)
           s == staging[m]
<1>a. m \in Attempts /\ Typed /\ call[p].pc = "validate"
  BY MineIsAttempt, Pointwise DEF Validate, At, ServersFit
<1>c. /\ \/ Passes(p, "release")
         \/ staging[m].cred # call[p].before /\ Passes(p, "temp")
      /\ call' \in [Procs -> RefreshCalls]
      /\ UNCHANGED <<canonical, staging, temp, server, issued, sent, secured, over, lock>>
  BY <1>a, GoMoves DEF Phases, Scanned, Refreshing, Validate, At, service, ghosts
<1>d. \A q \in Procs : Mine(q)' = Mine(q) BY <1>c, StepsMine DEF Passes, Steps
<1>e. \A q \in Procs : call[q].pc # "idle" => Mine(q) \in Attempts BY ActiveMine
<1>1. RefreshTypeOK' BY <1>c DEF RefreshTypeOK, Validate, service, ghosts
<1> USE <1>a, <1>c, <1>d, <1>e, MineIsOwn DEF Typed, Passes, Steps, Stages, Serves, Writes
<1>2. Issued' BY DEF Issued, Known
<1>3. ServersFit' BY DEF ServersFit
<1>4. CallsFit' BY DEF CallsFit, Refreshing
<1>5. OneLive' BY DEF OneLive, Live, Refreshing, Changed
<1>6. HolderIsAlone' BY DEF HolderIsAlone, Held, Scanned, Live, Refreshing, Changed
<1>7. Unspent' BY DEF Unspent, Refreshing, Changed
<1>8. SpentIsAnchored' BY DEF SpentIsAnchored, Anchor, Stays, Scanned, Changed
<1>9. PromotionFits' BY DEF PromotionFits, Held
<1>10. SecuredIsSafe' BY DEF SecuredIsSafe, Safe, Anchor, Stays, Scanned, Changed
<1>11. SentAtMostOnce' BY DEF SentAtMostOnce
<1> QED BY <1>1, <1>2, <1>3, <1>4, <1>5, <1>6, <1>7, <1>8, <1>9, <1>10, <1>11

\* The candidate is a copy of the staged credential.
LEMMA CandidateKeeps ==
    ASSUME RefreshInv, NEW p \in Procs, Candidate(p)
    PROVE  RefreshInv'
<1> USE DEF RefreshInv
<1> DEFINE m == Mine(p)
           s == staging[m]
<1>a. m \in Attempts /\ Typed /\ call[p].pc = "temp"
  BY MineIsAttempt, Pointwise DEF Candidate, At, ServersFit
<1>b. /\ \/ Writes(m, s.cred) /\ Go(p, "compare")
         \/ Writes(m, s.cred) /\ Go(p, "release")
         \/ Writes(m, 0) /\ Go(p, "release")
      /\ temp' \in [Attempts -> Nat]
  <2>1. CASE temp' = [temp EXCEPT ![m] = s.cred] /\ Go(p, "compare")
    BY <1>a, <2>1, ExceptWrites DEF RefreshTypeOK, StagedAttempts
  <2>2. CASE temp' = [temp EXCEPT ![m] = s.cred] /\ Go(p, "release")
    BY <1>a, <2>2, ExceptWrites DEF RefreshTypeOK, StagedAttempts
  <2>3. CASE temp' = [temp EXCEPT ![m] = 0] /\ Go(p, "release")
    BY <1>a, <2>3, ExceptWrites DEF RefreshTypeOK, StagedAttempts
  <2> QED BY <1>a, <2>1, <2>2, <2>3 DEF Candidate
<1>c. /\ \/ Writes(m, s.cred) /\ Passes(p, "compare")
         \/ Writes(m, s.cred) /\ Passes(p, "release")
         \/ Writes(m, 0) /\ Passes(p, "release")
      /\ call' \in [Procs -> RefreshCalls]
      /\ UNCHANGED <<canonical, staging, server, issued, sent, secured, over, lock>>
  BY <1>a, <1>b, GoMoves DEF Phases, Scanned, Refreshing, Candidate, At, service, ghosts
<1>d. \A q \in Procs : Mine(q)' = Mine(q) BY <1>c, StepsMine DEF Passes, Steps
<1>e. \A q \in Procs : call[q].pc # "idle" => Mine(q) \in Attempts BY ActiveMine
<1>1. RefreshTypeOK' BY <1>b, <1>c DEF RefreshTypeOK, Candidate, service, ghosts, Fault
<1> USE <1>a, <1>c, <1>d, <1>e, MineIsOwn DEF Typed, Passes, Steps, Stages, Serves, Writes
<1>2. Issued' BY DEF Issued, Known
<1>3. ServersFit' BY DEF ServersFit
<1>4. CallsFit' BY DEF CallsFit, Refreshing
<1>5. OneLive' BY DEF OneLive, Live, Refreshing, Changed
<1>6. HolderIsAlone' BY DEF HolderIsAlone, Held, Scanned, Live, Refreshing, Changed
<1>7. Unspent' BY DEF Unspent, Refreshing, Changed
<1>8. SpentIsAnchored' BY DEF SpentIsAnchored, Anchor, Stays, Scanned, Changed
<1>9. PromotionFits' BY DEF PromotionFits, Held
<1>10. SecuredIsSafe' BY DEF SecuredIsSafe, Safe, Anchor, Stays, Scanned, Changed
<1>11. SentAtMostOnce' BY DEF SentAtMostOnce
<1> QED BY <1>1, <1>2, <1>3, <1>4, <1>5, <1>6, <1>7, <1>8, <1>9, <1>10, <1>11

\* The credential that is to be replaced is the one that was spent.
LEMMA CompareKeeps ==
    ASSUME RefreshInv, NEW p \in Procs, Compare(p)
    PROVE  RefreshInv'
<1> USE DEF RefreshInv
<1> DEFINE m == Mine(p)
           s == staging[m]
<1>a. m \in Attempts /\ Typed /\ call[p].pc = "compare"
  BY MineIsAttempt, Pointwise DEF Compare, At, ServersFit
<1>b. /\ \/ UNCHANGED temp /\ canonical.live = call[p].before /\ Go(p, "rename")
         \/ Writes(m, 0) /\ Go(p, "release")
      /\ temp' \in [Attempts -> Nat]
  <2>1. CASE UNCHANGED temp /\ canonical.live = call[p].before /\ Go(p, "rename")
    BY <1>a, <2>1, ExceptWrites DEF RefreshTypeOK, StagedAttempts
  <2>2. CASE temp' = [temp EXCEPT ![m] = 0] /\ Go(p, "release")
    BY <1>a, <2>2, ExceptWrites DEF RefreshTypeOK, StagedAttempts
  <2> QED BY <1>a, <2>1, <2>2 DEF Compare
<1>c. /\ \/ UNCHANGED temp /\ canonical.live = call[p].before /\ Passes(p, "rename")
         \/ Writes(m, 0) /\ Passes(p, "release")
      /\ call' \in [Procs -> RefreshCalls]
      /\ UNCHANGED <<canonical, staging, server, issued, sent, secured, over, lock>>
  BY <1>a, <1>b, GoMoves DEF Phases, Scanned, Refreshing, Compare, At, service, ghosts
<1>d. \A q \in Procs : Mine(q)' = Mine(q) BY <1>c, StepsMine DEF Passes, Steps
<1>e. \A q \in Procs : call[q].pc # "idle" => Mine(q) \in Attempts BY ActiveMine
<1>1. RefreshTypeOK' BY <1>b, <1>c DEF RefreshTypeOK, Compare, service, ghosts
<1> USE <1>a, <1>c, <1>d, <1>e, MineIsOwn DEF Typed, Passes, Steps, Stages, Serves, Writes
<1>2. Issued' BY DEF Issued, Known
<1>3. ServersFit' BY DEF ServersFit
<1>4. CallsFit' BY DEF CallsFit, Refreshing
<1>5. OneLive' BY DEF OneLive, Live, Refreshing, Changed
<1>6. HolderIsAlone' BY DEF HolderIsAlone, Held, Scanned, Live, Refreshing, Changed
<1>7. Unspent' BY DEF Unspent, Refreshing, Changed
<1>8. SpentIsAnchored' BY DEF SpentIsAnchored, Anchor, Stays, Scanned, Changed
<1>9. PromotionFits' BY DEF PromotionFits, Held
<1>10. SecuredIsSafe' BY DEF SecuredIsSafe, Safe, Anchor, Stays, Scanned, Changed
<1>11. SentAtMostOnce' BY DEF SentAtMostOnce
<1> QED BY <1>1, <1>2, <1>3, <1>4, <1>5, <1>6, <1>7, <1>8, <1>9, <1>10, <1>11

\* The rename replaces a spent credential or one that a login replaced; the
\* attempt stays an anchor.
LEMMA RenameKeeps ==
    ASSUME RefreshInv, NEW p \in Procs, Rename(p)
    PROVE  RefreshInv'
<1> USE DEF RefreshInv
<1> DEFINE m == Mine(p)
           s == staging[m]
<1>a. m \in Attempts /\ Typed /\ call[p].pc = "rename"
  BY MineIsAttempt, Pointwise DEF Rename, At, ServersFit
<1>f. temp[m] = s.cred /\ s.cred # call[p].before BY <1>a DEF CallsFit
<1>b. /\ \/ Held(p) /\ Renamed(p) /\ Passes(p, "syncdir")
         \/ Held(p) /\ Renamed(p) /\ Passes(p, "release")
         \/ UNCHANGED canonical /\ temp' = [temp EXCEPT ![m] = 0] /\ Passes(p, "release")
         \/ UNCHANGED <<canonical, temp>> /\ Passes(p, "release")
      /\ call' \in [Procs -> RefreshCalls] /\ faults' \in Nat
  BY GoMoves DEF Rename, Phases, Refreshing, RefreshTypeOK, Fault
<1>g. /\ \/ Held(p) /\ canonical'.live = s.cred /\ Writes(m, 0) /\ Passes(p, "syncdir")
         \/ Held(p) /\ canonical'.live = s.cred /\ Writes(m, 0) /\ Passes(p, "release")
         \/ UNCHANGED canonical /\ Writes(m, 0) /\ Passes(p, "release")
         \/ UNCHANGED <<canonical, temp>> /\ Passes(p, "release")
      /\ canonical'.durable = canonical.durable
      /\ canonical' \in [live : Nat, durable : Nat] /\ temp' \in [Attempts -> Nat]
  <2>1. CASE UNCHANGED <<canonical, temp>> /\ Passes(p, "release") BY <2>1 DEF RefreshTypeOK
  <2>2. CASE UNCHANGED canonical /\ temp' = [temp EXCEPT ![m] = 0] /\ Passes(p, "release")
    BY <1>a, <2>2, ExceptWrites DEF RefreshTypeOK
  <2>3. CASE Held(p) /\ Renamed(p) /\ (Passes(p, "syncdir") \/ Passes(p, "release"))
    <3>1. /\ canonical' \in [live : Nat, durable : Nat]
          /\ canonical'.live = s.cred /\ canonical'.durable = canonical.durable
      BY <1>a, <1>f, <2>3 DEF Renamed, RefreshTypeOK, Typed
    <3>2. Writes(m, 0) /\ temp' \in [Attempts -> Nat]
      BY <1>a, <2>3, ExceptWrites DEF Renamed
    <3> QED BY <2>3, <3>1, <3>2
  <2> QED BY <1>b, <2>1, <2>2, <2>3
<1>c. UNCHANGED <<staging, server, issued, sent, secured, over, lock>>
  BY DEF Rename, service, ghosts
<1>d. \A q \in Procs : Mine(q)' = Mine(q) BY <1>b, StepsMine DEF Passes, Steps
<1>e. \A q \in Procs : call[q].pc # "idle" => Mine(q) \in Attempts BY ActiveMine
<1>1. RefreshTypeOK' BY <1>b, <1>g, <1>c DEF RefreshTypeOK
<1> USE <1>a, <1>c, <1>g, <1>d, <1>e, MineIsOwn DEF Typed, Passes, Steps, Stages, Serves, Writes
<1>2. Issued' BY DEF Issued, Known, OneLive, Live, Refreshing
<1>3. ServersFit' BY SMTT(30) DEF ServersFit
<1>4. CallsFit' BY DEF CallsFit, Refreshing
<1>5. OneLive' BY DEF OneLive, Live, Refreshing, Changed
<1>6. HolderIsAlone' BY DEF HolderIsAlone, Held, Scanned, Live, Refreshing, Changed
<1>7. Unspent' BY SMTT(30) DEF Unspent, Refreshing, Changed
<1>8. SpentIsAnchored'
  <2>1. Anchor(m)' BY DEF Anchor, OneLive, Live, Stays, Refreshing, Scanned
  <2> QED BY <2>1 DEF SpentIsAnchored
<1>9. PromotionFits' BY DEF PromotionFits, Held
<1>10. SecuredIsSafe'
  <2> SUFFICES ASSUME NEW t \in secured \ over, sent[t] = 0
               PROVE  Safe(t)'
    BY DEF SecuredIsSafe
  <2>1. \A a \in Attempts : Anchor(a) => Anchor(a)' BY DEF Anchor, Stays, Scanned, Changed
  <2>2. CASE \E a \in Attempts : Anchor(a) /\ staging[a].cred = t /\ staging[a].dcred = t
    BY <2>1, <2>2 DEF Safe
  <2>3. CASE canonical.live = t /\ canonical.durable = t
    <3>1. Held(p) => canonical.live # t
      <4>1. sent[call[p].before] > 0 BY <1>f DEF Unspent, Refreshing, Changed
      <4> QED BY <4>1, <2>3 DEF PromotionFits
    <3> QED BY <3>1, <2>3 DEF Safe
  <2> QED BY <2>2, <2>3 DEF SecuredIsSafe, Safe
<1>11. SentAtMostOnce' BY DEF SentAtMostOnce
<1> QED BY <1>1, <1>2, <1>3, <1>4, <1>5, <1>6, <1>7, <1>8, <1>9, <1>10, <1>11

\* A synchronized promotion is durable, any other is warned of.
LEMMA syncParentDirectoryKeeps ==
    ASSUME RefreshInv, NEW p \in Procs, syncParentDirectory(p)
    PROVE  RefreshInv'
<1> USE DEF RefreshInv
<1> DEFINE m == Mine(p)
           s == staging[m]
<1>a. m \in Attempts /\ Typed /\ call[p].pc = "syncdir"
  BY MineIsAttempt, Pointwise DEF syncParentDirectory, At, ServersFit
<1>f. faults' \in Nat /\ "verify" \in Phases
  BY DEF syncParentDirectory, RefreshTypeOK, Fault, Phases, Refreshing
<1>b. /\ \/ /\ canonical' = [canonical EXCEPT !.durable = canonical.live]
            /\ Passes(p, "verify")
         \/ /\ UNCHANGED canonical
            /\ Steps(p, "verify", call[p].before, call[p].err, TRUE)
      /\ call' \in [Procs -> RefreshCalls] /\ faults' \in Nat
  <2>1. CASE canonical' = [canonical EXCEPT !.durable = canonical.live] /\ Go(p, "verify")
    BY <1>f, <2>1, GoMoves
  <2>2. CASE /\ UNCHANGED canonical
             /\ call' = [call EXCEPT ![p].pc = "verify", ![p].warned = TRUE]
    <3>1. /\ Steps(p, "verify", call[p].before, call[p].err, TRUE)
          /\ call' \in [Procs -> RefreshCalls]
      BY ZenonT(30), <1>f, <2>2 DEF RefreshTypeOK, Steps, RefreshCalls
    <3> QED BY <1>f, <2>2, <3>1
  <2> QED BY <2>1, <2>2 DEF syncParentDirectory
<1>c. /\ \/ /\ canonical'.live = canonical.live /\ canonical'.durable = canonical.live
            /\ Passes(p, "verify")
         \/ /\ UNCHANGED canonical
            /\ Steps(p, "verify", call[p].before, call[p].err, TRUE)
      /\ call' \in [Procs -> RefreshCalls]
      /\ canonical' \in [live : Nat, durable : Nat]
      /\ UNCHANGED <<staging, temp, server, issued, sent, secured, over, lock>>
  BY <1>a, <1>b, Pointwise DEF RefreshTypeOK, syncParentDirectory, service, ghosts
<1>d. \A q \in Procs : Mine(q)' = Mine(q) BY <1>c, StepsMine DEF Passes, Steps
<1>e. \A q \in Procs : call[q].pc # "idle" => Mine(q) \in Attempts BY ActiveMine
<1>1. RefreshTypeOK' BY <1>b, <1>c DEF RefreshTypeOK, Typed
<1> USE <1>a, <1>c, <1>d, <1>e, MineIsOwn DEF Typed, Passes, Steps, Stages, Serves, Writes
<1>2. Issued' BY DEF Issued, Known
<1>3. ServersFit' BY DEF ServersFit
<1>4. CallsFit' BY DEF CallsFit, Refreshing
<1>5. OneLive' BY DEF OneLive, Live, Refreshing, Changed
<1>6. HolderIsAlone' BY DEF HolderIsAlone, Held, Scanned, Live, Refreshing, Changed
<1>7. Unspent' BY DEF Unspent, Refreshing, Changed
<1>8. SpentIsAnchored' BY DEF SpentIsAnchored, Anchor, Stays, Scanned, Changed
<1>9. PromotionFits' BY DEF PromotionFits, Held
<1>10. SecuredIsSafe' BY DEF SecuredIsSafe, Safe, Anchor, Stays, Scanned, Changed
<1>11. SentAtMostOnce' BY DEF SentAtMostOnce
<1> QED BY <1>1, <1>2, <1>3, <1>4, <1>5, <1>6, <1>7, <1>8, <1>9, <1>10, <1>11

\* The attempt is given up only for a promotion that is visible and durable.
LEMMA VerifyKeeps ==
    ASSUME RefreshInv, NEW p \in Procs, Verify(p)
    PROVE  RefreshInv'
<1> USE DEF RefreshInv
<1> DEFINE m == Mine(p)
           s == staging[m]
<1>a. m \in Attempts /\ Typed /\ call[p].pc = "verify"
  BY MineIsAttempt, Pointwise DEF Verify, At, ServersFit
<1>c. /\ \/ Passes(p, "release")
         \/ Removable(p) /\ Passes(p, "remove")
      /\ call' \in [Procs -> RefreshCalls]
      /\ UNCHANGED <<canonical, staging, temp, server, issued, sent, secured, over, lock>>
  BY <1>a, GoMoves DEF Phases, Scanned, Refreshing, Verify, At, service, ghosts
<1>d. \A q \in Procs : Mine(q)' = Mine(q) BY <1>c, StepsMine DEF Passes, Steps
<1>e. \A q \in Procs : call[q].pc # "idle" => Mine(q) \in Attempts BY ActiveMine
<1>1. RefreshTypeOK' BY <1>c DEF RefreshTypeOK, Verify, service, ghosts
<1> USE <1>a, <1>c, <1>d, <1>e, MineIsOwn DEF Typed, Passes, Steps, Stages, Serves, Writes
<1>2. Issued' BY DEF Issued, Known
<1>3. ServersFit' BY DEF ServersFit
<1>4. CallsFit' BY DEF CallsFit, Refreshing
<1>5. OneLive' BY DEF OneLive, Live, Refreshing, Changed
<1>6. HolderIsAlone' BY DEF HolderIsAlone, Held, Scanned, Live, Refreshing, Changed
<1>7. Unspent' BY DEF Unspent, Refreshing, Changed
<1>8. SpentIsAnchored'
  <2>1. CASE Passes(p, "release")
    BY <2>1 DEF SpentIsAnchored, Anchor, Stays, Scanned, Changed
  <2>2. CASE Removable(p) /\ Passes(p, "remove")
    <3>1. sent[s.cred] = 0 BY DEF Unspent, Refreshing
    <3>2. canonical.live = s.cred /\ canonical.durable = s.cred
      BY <2>2 DEF Removable, PromotionFits, Held
    <3> QED BY <3>1, <3>2 DEF SpentIsAnchored
  <2> QED BY <2>1, <2>2
<1>9. PromotionFits' BY DEF PromotionFits, Held
<1>10. SecuredIsSafe'
  BY DEF SecuredIsSafe, Safe, Anchor, Stays, Scanned, Changed, PromotionFits, Removable,
     Held
<1>11. SentAtMostOnce' BY DEF SentAtMostOnce
<1> QED BY <1>1, <1>2, <1>3, <1>4, <1>5, <1>6, <1>7, <1>8, <1>9, <1>10, <1>11

\* A promoted or unsent attempt is no anchor any more.
LEMMA cleanupManagedRefreshArtifactsKeeps ==
    ASSUME RefreshInv, NEW p \in Procs, cleanupManagedRefreshArtifacts(p)
    PROVE  RefreshInv'
<1> USE DEF RefreshInv
<1> DEFINE m == Mine(p)
           s == staging[m]
<1>a. m \in Attempts /\ Typed /\ call[p].pc = "remove"
  BY MineIsAttempt, Pointwise DEF cleanupManagedRefreshArtifacts, At, ServersFit
<1>b. /\ \/ Stages(m, FALSE, s.ddir, 0, s.dcred) /\ Go(p, "release")
         \/ Stages(m, s.dir, s.ddir, 0, s.dcred) /\ Go(p, "release")
         \/ Stages(m, s.dir, s.ddir, s.cred, s.dcred) /\ Go(p, "release")
      /\ staging' \in [Attempts -> StagedAttempts]
  <2>1. CASE staging' = [staging EXCEPT ![m].dir = FALSE, ![m].cred = 0] /\ Go(p, "release")
    <3> DEFINE r == [s EXCEPT !.dir = FALSE, !.cred = 0]
    <3>1. /\ r \in StagedAttempts
          /\ r.dir = FALSE /\ r.ddir = s.ddir /\ r.cred = 0 /\ r.dcred = s.dcred
      BY <1>a DEF RefreshTypeOK, StagedAttempts
    <3> QED BY ZenonT(30), <1>a, <2>1, <3>1, ExceptStages
  <2>2. CASE staging' = [staging EXCEPT ![m].cred = 0] /\ Go(p, "release")
    <3> DEFINE r == [s EXCEPT !.cred = 0]
    <3>1. /\ r \in StagedAttempts
          /\ r.dir = s.dir /\ r.ddir = s.ddir /\ r.cred = 0 /\ r.dcred = s.dcred
      BY <1>a DEF RefreshTypeOK, StagedAttempts
    <3> QED BY <1>a, <2>2, <3>1, ExceptStages
  <2>3. CASE staging' = [staging EXCEPT ![m].cred = s.cred] /\ Go(p, "release")
    <3> DEFINE r == [s EXCEPT !.cred = s.cred]
    <3>1. /\ r \in StagedAttempts
          /\ r.dir = s.dir /\ r.ddir = s.ddir /\ r.cred = s.cred /\ r.dcred = s.dcred
      BY <1>a DEF RefreshTypeOK, StagedAttempts
    <3> QED BY <1>a, <2>3, <3>1, ExceptStages
  <2> QED BY <1>a, <2>1, <2>2, <2>3 DEF cleanupManagedRefreshArtifacts, At,
    removeStagingAttempt
<1>c. /\ \/ Stages(m, FALSE, s.ddir, 0, s.dcred) /\ Passes(p, "release")
         \/ Stages(m, s.dir, s.ddir, 0, s.dcred) /\ Passes(p, "release")
         \/ Stages(m, s.dir, s.ddir, s.cred, s.dcred) /\ Passes(p, "release")
      /\ call' \in [Procs -> RefreshCalls]
      /\ UNCHANGED <<canonical, temp, server, issued, sent, secured, over, lock>>
  BY <1>a, <1>b, GoMoves DEF Phases, Scanned, Refreshing, cleanupManagedRefreshArtifacts,
     At, service, ghosts
<1>d. \A q \in Procs : Mine(q)' = Mine(q) BY <1>c, StepsMine DEF Passes, Steps
<1>e. \A q \in Procs : call[q].pc # "idle" => Mine(q) \in Attempts BY ActiveMine
<1>1. RefreshTypeOK'
  BY <1>b, <1>c DEF RefreshTypeOK, cleanupManagedRefreshArtifacts, service, ghosts, Fault,
     removeStagingAttempt
<1> USE <1>a, <1>c, <1>d, <1>e, MineIsOwn DEF Typed, Passes, Steps, Stages, Serves, Writes
<1>2. Issued' BY DEF Issued, Known
<1>3. ServersFit' BY DEF ServersFit
<1>4. CallsFit' BY DEF CallsFit, Refreshing
<1>5. OneLive' BY SMTT(30) DEF OneLive, Live, Refreshing, Changed, ServersFit
<1>6. HolderIsAlone' BY DEF HolderIsAlone, Held, Scanned, Live, Refreshing, Changed
<1>7. Unspent' BY SMTT(30) DEF Unspent, Refreshing, Changed, ServersFit
<1>8. SpentIsAnchored' BY DEF SpentIsAnchored, Anchor, Stays, Scanned, Changed
<1>9. PromotionFits' BY DEF PromotionFits, Held
<1>10. SecuredIsSafe' BY DEF SecuredIsSafe, Safe, Anchor, Stays, Scanned, Changed
<1>11. SentAtMostOnce' BY DEF SentAtMostOnce
<1> QED BY <1>1, <1>2, <1>3, <1>4, <1>5, <1>6, <1>7, <1>8, <1>9, <1>10, <1>11

\* Neither the lock nor an attempt is taken from anyone else.
LEMMA ReleaseKeeps ==
    ASSUME RefreshInv, NEW p \in Procs, Release(p)
    PROVE  RefreshInv'
<1> USE DEF RefreshInv
<1> DEFINE m == Mine(p)
           s == staging[m]
<1>a. m \in Attempts /\ Typed /\ call[p].pc = "release"
  BY MineIsAttempt, Pointwise DEF Release, At, ServersFit
<1>c. /\ Passes(p, "idle") /\ lock' \in {lock, Nobody}
      /\ call' \in [Procs -> RefreshCalls]
      /\ UNCHANGED <<canonical, staging, temp, server, issued, sent, secured, over>>
  BY <1>a, GoMoves DEF Phases, Scanned, Held, Release, At, service, ghosts
<1>d. \A q \in Procs : Mine(q)' = Mine(q) BY <1>c, StepsMine DEF Passes, Steps
<1>e. \A q \in Procs : call[q].pc # "idle" => Mine(q) \in Attempts BY ActiveMine
<1>1. RefreshTypeOK' BY <1>c DEF RefreshTypeOK, Release, service, ghosts, Held
<1> USE <1>a, <1>c, <1>d, <1>e, MineIsOwn DEF Typed, Passes, Steps, Stages, Serves, Writes
<1>2. Issued' BY DEF Issued, Known
<1>3. ServersFit' BY DEF ServersFit
<1>4. CallsFit' BY DEF CallsFit, Refreshing
<1>5. OneLive' BY DEF OneLive, Live, Refreshing, Changed
<1>6. HolderIsAlone'
  BY RefreshAssumption DEF HolderIsAlone, Held, Scanned, Live, Refreshing, Changed
<1>7. Unspent' BY DEF Unspent, Refreshing, Changed
<1>8. SpentIsAnchored' BY DEF SpentIsAnchored, Anchor, Stays, Scanned, Changed
<1>9. PromotionFits' BY RefreshAssumption DEF PromotionFits, Held
<1>10. SecuredIsSafe' BY DEF SecuredIsSafe, Safe, Anchor, Stays, Scanned, Changed
<1>11. SentAtMostOnce' BY DEF SentAtMostOnce
<1> QED BY <1>1, <1>2, <1>3, <1>4, <1>5, <1>6, <1>7, <1>8, <1>9, <1>10, <1>11

-----------------------------------------------------------------------------
(* The app-server itself, and the world.                                   *)

\* An app-server that refreshes unasked makes its attempt an anchor at once.
LEMMA AppRefreshesKeeps ==
    ASSUME RefreshInv, NEW a \in Attempts, AppRefreshes(a)
    PROVE  RefreshInv'
<1> USE DEF RefreshInv
<1> DEFINE s == staging[a]
           sv == server[a]
<1>a. Typed /\ s.dir /\ s.ddir /\ s.cred > 0 /\ sv.run = "up" /\ sv.net = "idle" /\ sent[s.cred] = 0
  BY Pointwise, SendsSpends DEF AppRefreshes, OneLive, Live, Unspent
<1>b. /\ Spends(s.cred) /\ Stages(a, TRUE, s.ddir, issued + 1, s.dcred)
      /\ issued' = issued + 1 /\ s.cred \in Tokens
      /\ sent' \in [Tokens -> Nat] /\ issued' \in Tokens
      /\ staging' \in [Attempts -> StagedAttempts]
  BY <1>a, SendsSpends, GetsStages DEF AppRefreshes
<1>c. UNCHANGED <<canonical, temp, server, secured, over, lock, call, faults>>
  BY DEF AppRefreshes, ghosts
<1>d. \A q \in Procs : Mine(q)' = Mine(q) BY <1>c DEF Mine
<1>e. \A q \in Procs : call[q].pc # "idle" => Mine(q) \in Attempts BY ActiveMine
<1>1. RefreshTypeOK' BY <1>b, <1>c DEF RefreshTypeOK
<1> USE <1>a, <1>b, <1>c, <1>d, <1>e, MineIsOwn DEF Typed, Stages, Serves, Spends
<1>f. Anchor(a)' /\ \A q \in Procs : Mine(q) = a => call[q].pc \in {"ask", "release", "idle"}
  <2>1. \A q \in Procs : Mine(q) = a => call[q].pc \in {"ask", "release", "idle"}
    BY DEF ServersFit
  <2>2. Stays(a)' BY <2>1 DEF Stays, Scanned, Changed, Issued
  <2> QED BY <2>1, <2>2 DEF Anchor
<1>g. \A b \in Attempts : Live(b) => b = a BY DEF OneLive, Live
<1>i. \A b \in Attempts : b # a =>
        server[b].run = "off" /\ server[b].net = "idle" /\ server[b].result = "none"
  BY <1>g DEF Live, ServersFit
<1>j. \A q \in Procs : call[q].pc \in Refreshing => Mine(q) = a /\ call[q].pc = "ask"
  BY <1>f, <1>g DEF Live, Refreshing
<1>h. \A q \in Procs : Held(q) => call[q].pc \notin Scanned BY DEF HolderIsAlone, Live
<1>2. Issued'
  <2>1. ASSUME NEW t \in Tokens, t > issued' PROVE sent'[t] = 0
    <3>1. t > issued /\ t # s.cred BY <2>1, RefreshAssumption DEF Issued, Tokens
    <3> QED BY <3>1 DEF Issued
  <2>2. Known \subseteq Known' BY DEF Known
  <2> QED BY <2>1, <2>2 DEF Issued, RefreshCalls
<1>3. ServersFit' BY DEF ServersFit
<1>4. CallsFit' BY <1>f DEF CallsFit, Refreshing
<1>5. OneLive'
  <2>1. \A b \in Attempts : Live(b)' => b = a
    BY <1>f, <1>i DEF Live, Refreshing, OneLive, Changed
  <2>2. staging'[a].dir /\ staging'[a].ddir /\ staging'[a].cred > 0
    OBVIOUS
  <2> QED BY <2>1, <2>2 DEF OneLive
<1>6. HolderIsAlone' BY <1>h DEF HolderIsAlone, Held
<1>7. Unspent'
  <2>1. \A b \in Attempts : b # a =>
          server'[b].run = "off" /\ server'[b].net = "idle" /\ server'[b].result = "none"
    BY <1>i
  <2>2. \A q \in Procs : call[q].pc \in Refreshing \ {"syncdir", "verify"} /\ Changed(q)' =>
          sent'[call[q].before] > 0
    <3>1. \A q \in Procs : call[q].pc \in Refreshing => call[q].before \in Tokens
      BY SMTT(30), RefreshAssumption DEF RefreshCalls, CallsFit, Issued, Tokens
    <3>2. \A q \in Procs : call[q].pc \in Refreshing =>
            sent[call[q].before] > 0 \/ call[q].before = s.cred
      BY <1>j DEF Unspent, Changed, Refreshing
    <3>3. \A t \in Tokens : sent[t] > 0 \/ t = s.cred => sent'[t] > 0
      OBVIOUS
    <3> QED BY <3>1, <3>2, <3>3
  <2>3. \A q \in Procs : call[q].pc \in Refreshing => call[q].pc \in {"ask", "wait"} BY <1>j
  <2>4. /\ server'[a].net = "idle" => sent'[staging'[a].cred] = 0
        /\ server'[a].net = "sent" => sent'[staging'[a].cred] > 0
    BY SMTT(30), RefreshAssumption DEF Issued, Tokens
  <2> QED BY <2>1, <2>2, <2>3, <2>4 DEF Unspent, Refreshing
<1>8. SpentIsAnchored' BY <1>f DEF SpentIsAnchored
<1>9. PromotionFits' BY DEF PromotionFits, Held
<1>10. SecuredIsSafe'
  <2> SUFFICES ASSUME NEW t \in secured \ over, sent'[t] = 0
               PROVE  Safe(t)'
    BY DEF SecuredIsSafe
  <2>1. t # s.cred /\ sent[t] = 0
    <3>1. t \in Tokens BY RefreshAssumption DEF Issued, Known, Tokens
    <3> QED BY <3>1
  <2>2. \A b \in Attempts : b # a /\ Anchor(b) => Anchor(b)' BY DEF Anchor, Stays, Changed
  <2> QED BY <2>1, <2>2 DEF SecuredIsSafe, Safe
<1>11. SentAtMostOnce' BY DEF SentAtMostOnce
<1> QED BY <1>1, <1>2, <1>3, <1>4, <1>5, <1>6, <1>7, <1>8, <1>9, <1>10, <1>11

\* A token is sent by the one live app-server, from an attempt that stays.
LEMMA AppSendsKeeps ==
    ASSUME RefreshInv, NEW a \in Attempts, AppSends(a)
    PROVE  RefreshInv'
<1> USE DEF RefreshInv
<1> DEFINE s == staging[a]
           sv == server[a]
<1>a. Typed /\ s.dir /\ s.ddir /\ s.cred > 0 /\ sv.run = "asked" /\ sent[s.cred] = 0
  BY Pointwise, SendsSpends DEF AppSends, OneLive, Live, Unspent
<1>b. /\ Spends(s.cred) /\ s.cred \in Tokens /\ sent' \in [Tokens -> Nat]
      /\ Serves(a, "asked", "sent", "none") /\ server' \in [Attempts -> Servers]
  <2> DEFINE r == [sv EXCEPT !.net = "sent"]
  <2>1. r \in Servers /\ r.run = "asked" /\ r.net = "sent" /\ r.result = "none"
    BY <1>a, SendsSpends DEF RefreshTypeOK, Servers, AppSends
  <2>2. server' = [server EXCEPT ![a] = r] BY DEF AppSends
  <2>3. Spends(s.cred) /\ s.cred \in Tokens /\ sent' \in [Tokens -> Nat]
    BY SendsSpends DEF AppSends
  <2> QED BY <2>1, <2>2, <2>3, ExceptServes
<1>c. UNCHANGED <<canonical, staging, temp, issued, secured, over, lock, call, faults>>
  BY DEF AppSends, ghosts
<1>d. \A q \in Procs : Mine(q)' = Mine(q) BY <1>c DEF Mine
<1>e. \A q \in Procs : call[q].pc # "idle" => Mine(q) \in Attempts BY ActiveMine
<1>1. RefreshTypeOK' BY <1>b, <1>c DEF RefreshTypeOK
<1> USE <1>a, <1>b, <1>c, <1>d, <1>e, MineIsOwn DEF Typed, Stages, Serves, Spends
<1>f. Anchor(a)' /\ \A q \in Procs : Mine(q) = a => call[q].pc \in {"wait", "release", "idle"}
  <2>1. \A q \in Procs : Mine(q) = a => call[q].pc \in {"wait", "release", "idle"}
    BY DEF ServersFit
  <2>2. Stays(a)' BY <2>1 DEF Stays, Scanned, Changed, Issued
  <2> QED BY <2>1, <2>2 DEF Anchor
<1>g. \A b \in Attempts : Live(b) => b = a BY DEF OneLive, Live
<1>i. \A b \in Attempts : b # a =>
        server[b].run = "off" /\ server[b].net = "idle" /\ server[b].result = "none"
  BY <1>g DEF Live, ServersFit
<1>j. \A q \in Procs : call[q].pc \in Refreshing => Mine(q) = a /\ call[q].pc = "wait"
  BY <1>f, <1>g DEF Live, Refreshing
<1>h. \A q \in Procs : Held(q) => call[q].pc \notin Scanned BY DEF HolderIsAlone, Live
<1>2. Issued' BY DEF Issued, Known
<1>3. ServersFit' BY LaterAttempts DEF ServersFit
<1>4. CallsFit' BY DEF CallsFit, Refreshing
<1>5. OneLive' BY DEF OneLive, Live, Refreshing, Changed
<1>6. HolderIsAlone' BY <1>h DEF HolderIsAlone, Held
<1>7. Unspent'
  <2>1. \A b \in Attempts : b # a =>
          server'[b].run = "off" /\ server'[b].net = "idle" /\ server'[b].result = "none"
    BY <1>i
  <2>2. \A q \in Procs : call[q].pc \in Refreshing \ {"syncdir", "verify"} /\ Changed(q)' =>
          sent'[call[q].before] > 0
    <3>1. \A q \in Procs : call[q].pc \in Refreshing => call[q].before \in Tokens
      BY RefreshAssumption DEF RefreshCalls, CallsFit, Issued, Tokens
    <3>2. \A q \in Procs : call[q].pc \in Refreshing =>
            sent[call[q].before] > 0 \/ call[q].before = s.cred
      BY <1>j DEF Unspent, Changed, Refreshing
    <3>3. \A t \in Tokens : sent[t] > 0 \/ t = s.cred => sent'[t] > 0
      OBVIOUS
    <3> QED BY <3>1, <3>2, <3>3
  <2>3. \A q \in Procs : call[q].pc \in Refreshing => call[q].pc \in {"ask", "wait"} BY <1>j
  <2>4. /\ server'[a].net = "idle" => sent'[staging'[a].cred] = 0
        /\ server'[a].net = "sent" => sent'[staging'[a].cred] > 0
    BY RefreshAssumption DEF Issued, Tokens
  <2> QED BY <2>1, <2>2, <2>3, <2>4 DEF Unspent, Refreshing
<1>8. SpentIsAnchored' BY <1>f DEF SpentIsAnchored
<1>9. PromotionFits' BY DEF PromotionFits, Held
<1>10. SecuredIsSafe'
  <2> SUFFICES ASSUME NEW t \in secured \ over, sent'[t] = 0
               PROVE  Safe(t)'
    BY DEF SecuredIsSafe
  <2>1. t # s.cred /\ sent[t] = 0
    <3>1. t \in Tokens BY RefreshAssumption DEF Issued, Known, Tokens
    <3> QED BY <3>1
  <2>2. \A b \in Attempts : b # a /\ Anchor(b) => Anchor(b)' BY DEF Anchor, Stays, Changed
  <2> QED BY <2>1, <2>2 DEF SecuredIsSafe, Safe
<1>11. SentAtMostOnce' BY DEF SentAtMostOnce
<1> QED BY <1>1, <1>2, <1>3, <1>4, <1>5, <1>6, <1>7, <1>8, <1>9, <1>10, <1>11

\* The answer replaces a spent credential by an unsent one.
LEMMA AppReceivesKeeps ==
    ASSUME RefreshInv, NEW a \in Attempts, AppReceives(a)
    PROVE  RefreshInv'
<1> USE DEF RefreshInv
<1> DEFINE s == staging[a]
           sv == server[a]
<1>a. Typed /\ s.dir /\ s.ddir /\ s.cred > 0 /\ sv.run = "asked" /\ sv.net = "sent" /\ sent[s.cred] > 0
  <2>1. Typed /\ sv.net = "sent" BY Pointwise DEF AppReceives
  <2>2. sv.run = "asked" BY <2>1 DEF ServersFit, Typed, Servers
  <2> QED BY <2>1, <2>2 DEF OneLive, Live, Unspent
<1>b. /\ \/ /\ Stages(a, TRUE, s.ddir, issued + 1, s.dcred) /\ issued' = issued + 1
            /\ Serves(a, "asked", "idle", "ok")
         \/ UNCHANGED <<issued, staging>> /\ Serves(a, "asked", "idle", "error")
      /\ issued' \in Tokens
      /\ staging' \in [Attempts -> StagedAttempts] /\ server' \in [Attempts -> Servers]
  <2>1. \A result \in {"ok", "error"} :
          server' = [server EXCEPT ![a] = [@ EXCEPT !.net = "idle", !.result = result]] =>
          Serves(a, "asked", "idle", result) /\ server' \in [Attempts -> Servers]
    <3> TAKE result \in {"ok", "error"}
    <3> DEFINE r == [sv EXCEPT !.net = "idle", !.result = result]
    <3>1. r \in Servers /\ r.run = "asked" /\ r.net = "idle" /\ r.result = result
      BY <1>a DEF RefreshTypeOK, Servers
    <3> QED BY <3>1, ExceptServes
  <2>2. CASE /\ issued < MaxToken /\ Gets(a)
             /\ server' = [server EXCEPT ![a] = [@ EXCEPT !.net = "idle", !.result = "ok"]]
    BY <1>a, <2>1, <2>2, GetsStages
  <2>3. CASE /\ server' = [server EXCEPT ![a] = [@ EXCEPT !.net = "idle", !.result = "error"]]
             /\ UNCHANGED <<issued, staging>>
    BY <2>1, <2>3 DEF RefreshTypeOK
  <2> QED BY <2>2, <2>3 DEF AppReceives
<1>c. UNCHANGED <<canonical, temp, sent, secured, over, lock, call, faults>>
  BY DEF AppReceives, ghosts
<1>k. /\ \A b \in Attempts : b # a => staging'[b] = staging[b] /\ server'[b] = server[b]
      /\ staging'[a].dir /\ staging'[a].ddir /\ staging'[a].dcred = s.dcred
      /\ server'[a].run = "asked" /\ server'[a].net = "idle"
      /\ \/ /\ staging'[a].cred = issued + 1 /\ issued' = issued + 1
            /\ server'[a].result = "ok" /\ issued < MaxToken
         \/ /\ staging'[a].cred = s.cred /\ issued' = issued
            /\ server'[a].result = "error"
  <2>1. CASE /\ Stages(a, TRUE, s.ddir, issued + 1, s.dcred) /\ issued' = issued + 1
             /\ Serves(a, "asked", "idle", "ok")
    <3>1. issued < MaxToken BY <1>a, <1>b, <2>1, RefreshAssumption DEF Tokens, Typed
    <3> QED BY <1>a, <2>1, <3>1 DEF Stages, Serves
  <2>2. CASE UNCHANGED <<issued, staging>> /\ Serves(a, "asked", "idle", "error")
    BY <1>a, <2>2 DEF Serves
  <2> QED BY <1>b, <2>1, <2>2
<1>d. \A q \in Procs : Mine(q)' = Mine(q) BY <1>c DEF Mine
<1>e. \A q \in Procs : call[q].pc # "idle" => Mine(q) \in Attempts BY ActiveMine
<1>1. RefreshTypeOK' BY <1>b, <1>c DEF RefreshTypeOK
<1> USE <1>a, <1>c, <1>k, <1>d, <1>e, MineIsOwn DEF Typed, Stages, Serves, Spends
<1>f. Anchor(a)' /\ \A q \in Procs : Mine(q) = a => call[q].pc \in {"wait", "release", "idle"}
  <2>1. \A q \in Procs : Mine(q) = a => call[q].pc \in {"wait", "release", "idle"}
    BY DEF ServersFit
  <2>2. Stays(a)' BY <2>1 DEF Stays, Scanned, Changed, Issued
  <2> QED BY <2>1, <2>2 DEF Anchor
<1>g. \A b \in Attempts : Live(b) => b = a BY DEF OneLive, Live
<1>i. \A b \in Attempts : b # a =>
        server[b].run = "off" /\ server[b].net = "idle" /\ server[b].result = "none"
  BY <1>g DEF Live, ServersFit
<1>j. \A q \in Procs : call[q].pc \in Refreshing => Mine(q) = a /\ call[q].pc = "wait"
  BY <1>f, <1>g DEF Live, Refreshing
<1>h. \A q \in Procs : Held(q) => call[q].pc \notin Scanned BY DEF HolderIsAlone, Live
<1>2. Issued'
  <2>1. \A t \in Tokens : t > issued' => sent'[t] = 0
    BY RefreshAssumption DEF Issued, Tokens
  <2>2. Known \subseteq Known' BY DEF Known
  <2> QED BY <2>1, <2>2 DEF Issued, RefreshCalls
<1>3. ServersFit' BY LaterAttempts DEF ServersFit
<1>4. CallsFit' BY <1>f DEF CallsFit, Refreshing
<1>5. OneLive'
  <2>1. \A b \in Attempts : Live(b)' => b = a
    BY <1>f, <1>i DEF Live, Refreshing, OneLive, Changed
  <2>2. staging'[a].dir /\ staging'[a].ddir /\ staging'[a].cred > 0
    OBVIOUS
  <2> QED BY <2>1, <2>2 DEF OneLive
<1>6. HolderIsAlone' BY <1>h DEF HolderIsAlone, Held
<1>7. Unspent'
  <2>1. \A b \in Attempts : b # a =>
          server'[b].run = "off" /\ server'[b].net = "idle" /\ server'[b].result = "none"
    BY <1>i
  <2>2. \A q \in Procs : call[q].pc \in Refreshing => sent[call[q].before] > 0
    BY <1>j DEF Unspent, Changed, Refreshing
  <2>3. \A q \in Procs : call[q].pc \in Refreshing => call[q].pc = "wait" BY <1>j
  <2>4. server'[a].result = "ok" => sent[staging'[a].cred] = 0
    BY RefreshAssumption DEF Issued, Tokens
  <2> QED BY <2>1, <2>2, <2>3, <2>4 DEF Unspent, Refreshing
<1>8. SpentIsAnchored' BY <1>f DEF SpentIsAnchored
<1>9. PromotionFits' BY DEF PromotionFits, Held
<1>10. SecuredIsSafe'
  <2> SUFFICES ASSUME NEW t \in secured \ over, sent[t] = 0
               PROVE  Safe(t)'
    BY DEF SecuredIsSafe
  <2>1. \A b \in Attempts : b # a /\ Anchor(b) => Anchor(b)' BY DEF Anchor, Stays, Changed
  <2> QED BY <2>1 DEF SecuredIsSafe, Safe
<1>11. SentAtMostOnce' BY DEF SentAtMostOnce
<1> QED BY <1>1, <1>2, <1>3, <1>4, <1>5, <1>6, <1>7, <1>8, <1>9, <1>10, <1>11

\* An answer says nothing about what was sent.
LEMMA AppAnswersKeeps ==
    ASSUME RefreshInv, NEW a \in Attempts, AppAnswers(a)
    PROVE  RefreshInv'
<1> USE DEF RefreshInv
<1> DEFINE s == staging[a]
           sv == server[a]
<1>a. Typed /\ sv.run = "asked" /\ sv.net = "idle" /\ sv.result = "none"
  BY Pointwise DEF AppAnswers
<1>b. /\ Serves(a, "asked", "idle", "ok") \/ Serves(a, "asked", "idle", "error")
      /\ server' \in [Attempts -> Servers]
  <2>1. PICK result \in {"ok", "error"} : server' = [server EXCEPT ![a].result = result]
    BY DEF AppAnswers
  <2> DEFINE r == [sv EXCEPT !.result = result]
  <2>2. r \in Servers /\ r.run = "asked" /\ r.net = "idle" /\ r.result = result
    BY <1>a DEF RefreshTypeOK, Servers
  <2> QED BY <2>1, <2>2, ExceptServes
<1>c. UNCHANGED <<canonical, staging, temp, issued, sent, secured, over, lock, call, faults>>
  BY DEF AppAnswers, service, ghosts
<1>d. \A q \in Procs : Mine(q)' = Mine(q) BY <1>c DEF Mine
<1>e. \A q \in Procs : call[q].pc # "idle" => Mine(q) \in Attempts BY ActiveMine
<1>1. RefreshTypeOK' BY <1>b, <1>c DEF RefreshTypeOK
<1> USE <1>a, <1>b, <1>c, <1>d, <1>e, MineIsOwn DEF Typed, Stages, Serves, Spends
<1>2. Issued' BY DEF Issued, Known
<1>3. ServersFit' BY LaterAttempts DEF ServersFit
<1>4. CallsFit' BY DEF CallsFit, Refreshing
<1>5. OneLive' BY DEF OneLive, Live, Refreshing, Changed
<1>6. HolderIsAlone' BY DEF HolderIsAlone, Held, Scanned, Live, Refreshing, Changed
<1>7. Unspent' BY DEF Unspent, Refreshing, Changed
<1>8. SpentIsAnchored' BY DEF SpentIsAnchored, Anchor, Stays, Scanned, Changed
<1>9. PromotionFits' BY DEF PromotionFits, Held
<1>10. SecuredIsSafe' BY DEF SecuredIsSafe, Safe, Anchor, Stays, Scanned, Changed
<1>11. SentAtMostOnce' BY DEF SentAtMostOnce
<1> QED BY <1>1, <1>2, <1>3, <1>4, <1>5, <1>6, <1>7, <1>8, <1>9, <1>10, <1>11

\* A call that gives up keeps its attempt.
LEMMA AuthorityReplacedKeeps ==
    ASSUME RefreshInv, NEW p \in Procs, AuthorityReplaced(p)
    PROVE  RefreshInv'
<1> USE DEF RefreshInv
<1> DEFINE m == Mine(p)
           s == staging[m]
<1>a. m \in Attempts /\ Typed /\ call[p].pc \notin {"idle", "release"}
  BY MineIsAttempt, Pointwise DEF AuthorityReplaced, At, ServersFit
<1>b. /\ \/ Serves(m, "off", "idle", "none") /\ Go(p, "release")
         \/ UNCHANGED server /\ Go(p, "release")
      /\ server' \in [Attempts -> Servers]
  <2>1. CASE server' = [server EXCEPT ![m] = NoServer] /\ Go(p, "release")
    <3> DEFINE r == NoServer
    <3>1. /\ r \in Servers
          /\ r.run = "off" /\ r.net = "idle" /\ r.result = "none"
      BY <1>a DEF RefreshTypeOK, Servers, NoServer
    <3> QED BY <1>a, <2>1, <3>1, ExceptServes
  <2>2. CASE UNCHANGED server /\ Go(p, "release") BY <2>2 DEF RefreshTypeOK
  <2> QED BY <1>a, <2>1, <2>2 DEF AuthorityReplaced, At
<1>c. /\ \/ Serves(m, "off", "idle", "none") /\ Passes(p, "release")
         \/ UNCHANGED server /\ Passes(p, "release")
      /\ call' \in [Procs -> RefreshCalls]
      /\ UNCHANGED <<canonical, staging, temp, issued, sent, secured, over, lock>>
  BY <1>a, <1>b, GoMoves DEF Phases, Scanned, Refreshing, AuthorityReplaced, At, service,
     ghosts
<1>d. \A q \in Procs : Mine(q)' = Mine(q) BY <1>c, StepsMine DEF Passes, Steps
<1>e. \A q \in Procs : call[q].pc # "idle" => Mine(q) \in Attempts BY ActiveMine
<1>1. RefreshTypeOK'
  BY <1>b, <1>c DEF RefreshTypeOK, AuthorityReplaced, service, ghosts, Fault
<1> USE <1>a, <1>c, <1>d, <1>e, MineIsOwn DEF Typed, Passes, Steps, Stages, Serves, Writes
<1>2. Issued' BY DEF Issued, Known
<1>3. ServersFit' BY LaterAttempts DEF ServersFit
<1>4. CallsFit' BY DEF CallsFit, Refreshing, OneLive, Live, ServersFit
<1>5. OneLive' BY DEF OneLive, Live, Refreshing, Changed
<1>6. HolderIsAlone' BY DEF HolderIsAlone, Held, Scanned, Live, Refreshing, Changed
<1>7. Unspent' BY DEF Unspent, Refreshing, Changed, ServersFit
<1>8. SpentIsAnchored' BY DEF SpentIsAnchored, Anchor, Stays, Scanned, Changed
<1>9. PromotionFits' BY DEF PromotionFits, Held
<1>10. SecuredIsSafe' BY DEF SecuredIsSafe, Safe, Anchor, Stays, Scanned, Changed
<1>11. SentAtMostOnce' BY DEF SentAtMostOnce
<1> QED BY <1>1, <1>2, <1>3, <1>4, <1>5, <1>6, <1>7, <1>8, <1>9, <1>10, <1>11

\* A process that dies keeps its attempt and may leave its app-server.
LEMMA CrashKeeps ==
    ASSUME RefreshInv, NEW p \in Procs, Crash(p)
    PROVE  RefreshInv'
<1> USE DEF RefreshInv
<1> DEFINE m == Mine(p)
           s == staging[m]
<1>a. m \in Attempts /\ Typed /\ call[p].pc # "idle"
  BY MineIsAttempt, Pointwise DEF Crash, At, ServersFit
<1>b. /\ \/ Serves(m, "off", "idle", "none") /\ Go(p, "idle")
         \/ UNCHANGED server /\ Go(p, "idle")
      /\ server' \in [Attempts -> Servers]
  <2>1. CASE server' = [server EXCEPT ![m] = NoServer] /\ Go(p, "idle")
    <3> DEFINE r == NoServer
    <3>1. /\ r \in Servers
          /\ r.run = "off" /\ r.net = "idle" /\ r.result = "none"
      BY <1>a DEF RefreshTypeOK, Servers, NoServer
    <3> QED BY <1>a, <2>1, <3>1, ExceptServes
  <2>2. CASE UNCHANGED server /\ Go(p, "idle") BY <2>2 DEF RefreshTypeOK
  <2> QED BY <1>a, <2>1, <2>2 DEF Crash, At
<1>c. /\ \/ lock' \in {lock, Nobody} /\ Serves(m, "off", "idle", "none") /\ Passes(p, "idle")
         \/ lock' \in {lock, Nobody} /\ UNCHANGED server /\ Passes(p, "idle")
      /\ call' \in [Procs -> RefreshCalls]
      /\ UNCHANGED <<canonical, staging, temp, issued, sent, secured, over>>
  BY <1>a, <1>b, GoMoves DEF Phases, Scanned, Held, Crash, At, service, ghosts
<1>d. \A q \in Procs : Mine(q)' = Mine(q) BY <1>c, StepsMine DEF Passes, Steps
<1>e. \A q \in Procs : call[q].pc # "idle" => Mine(q) \in Attempts BY ActiveMine
<1>1. RefreshTypeOK' BY <1>b, <1>c DEF RefreshTypeOK, Crash, service, ghosts, Fault, Held
<1> USE <1>a, <1>c, <1>d, <1>e, MineIsOwn DEF Typed, Passes, Steps, Stages, Serves, Writes
<1>2. Issued' BY DEF Issued, Known
<1>3. ServersFit' BY LaterAttempts DEF ServersFit
<1>4. CallsFit' BY DEF CallsFit, Refreshing
<1>5. OneLive' BY DEF OneLive, Live, Refreshing, Changed
<1>6. HolderIsAlone'
  BY RefreshAssumption DEF HolderIsAlone, Held, Scanned, Live, Refreshing, Changed
<1>7. Unspent' BY DEF Unspent, Refreshing, Changed
<1>8. SpentIsAnchored' BY DEF SpentIsAnchored, Anchor, Stays, Scanned, Changed
<1>9. PromotionFits' BY RefreshAssumption DEF PromotionFits, Held
<1>10. SecuredIsSafe' BY DEF SecuredIsSafe, Safe, Anchor, Stays, Scanned, Changed
<1>11. SentAtMostOnce' BY DEF SentAtMostOnce
<1> QED BY <1>1, <1>2, <1>3, <1>4, <1>5, <1>6, <1>7, <1>8, <1>9, <1>10, <1>11

\* Without the lock nobody is a holder.
LEMMA LockLostKeeps ==
    ASSUME RefreshInv, LockLost
    PROVE  RefreshInv'
<1> USE DEF RefreshInv
<1>a. Typed BY Pointwise
<1>b. lock' = Nobody /\ faults' \in Nat BY DEF LockLost, RefreshTypeOK, Fault
<1>c. UNCHANGED <<canonical, staging, temp, server, issued, sent, secured, over, call>>
  BY DEF LockLost, service, ghosts
<1>d. \A q \in Procs : Mine(q)' = Mine(q) BY <1>c DEF Mine
<1>e. \A q \in Procs : call[q].pc # "idle" => Mine(q) \in Attempts BY ActiveMine
<1>1. RefreshTypeOK' BY <1>b, <1>c DEF RefreshTypeOK
<1> USE <1>a, <1>b, <1>c, <1>d, <1>e, MineIsOwn DEF Typed, Stages, Serves, Spends
<1>2. Issued' BY DEF Issued, Known
<1>3. ServersFit' BY DEF ServersFit
<1>4. CallsFit' BY DEF CallsFit, Refreshing
<1>5. OneLive' BY DEF OneLive, Live, Refreshing, Changed
<1>6. HolderIsAlone' BY RefreshAssumption DEF HolderIsAlone, Held
<1>7. Unspent' BY DEF Unspent, Refreshing, Changed
<1>8. SpentIsAnchored' BY DEF SpentIsAnchored, Anchor, Stays, Scanned, Changed
<1>9. PromotionFits' BY RefreshAssumption DEF PromotionFits, Held
<1>10. SecuredIsSafe' BY DEF SecuredIsSafe, Safe, Anchor, Stays, Scanned, Changed
<1>11. SentAtMostOnce' BY DEF SentAtMostOnce
<1> QED BY <1>1, <1>2, <1>3, <1>4, <1>5, <1>6, <1>7, <1>8, <1>9, <1>10, <1>11

\* What a power loss leaves of an attempt: never more than there was, and all
\* of one whose directory and credential were synchronized.
Survives(s, r) ==
    /\ r \in StagedAttempts
    /\ s.dir /\ s.ddir => r.dir /\ r.ddir
    /\ s.dir /\ s.ddir /\ s.cred = s.dcred => r.cred = s.cred /\ r.dcred = s.cred
    /\ r.cred \in {0, s.cred, s.dcred} /\ r.dcred \in {0, s.cred, s.dcred}

LEMMA AfterLossSurvives ==
    ASSUME NEW s \in StagedAttempts, NEW r \in AfterPowerLoss(s)
    PROVE  Survives(s, IF r.dir THEN r ELSE NoAttempt)
<1>1. PICK d \in {s.dir, s.ddir}, c \in {s.cred, s.dcred} :
         r = [dir |-> d, ddir |-> d, cred |-> c, dcred |-> c]
  BY DEF AfterPowerLoss
<1>2. r \in StagedAttempts /\ r.dir = d /\ r.ddir = d /\ r.cred = c /\ r.dcred = c
  BY <1>1 DEF StagedAttempts
<1>3. /\ NoAttempt \in StagedAttempts
      /\ NoAttempt.cred = 0 /\ NoAttempt.dcred = 0
  BY DEF NoAttempt, StagedAttempts
<1>4. CASE r.dir BY <1>2, <1>4 DEF Survives
<1>5. CASE ~r.dir BY <1>2, <1>3, <1>5 DEF Survives
<1> QED BY <1>4, <1>5

LEMMA OtherLossSurvives ==
    ASSUME NEW s \in StagedAttempts
    PROVE  Survives(s, [s EXCEPT !.dir = s.ddir, !.cred = s.dcred])
BY DEF Survives, StagedAttempts

\* After a power loss nothing runs and every anchor still stands.
LEMMA PowerLossKeeps ==
    ASSUME RefreshInv, PowerLoss
    PROVE  RefreshInv'
<1> USE DEF RefreshInv
<1>a. Typed BY Pointwise
<1>b. /\ \A a \in Attempts : Survives(staging[a], staging'[a])
      /\ staging' \in [Attempts -> StagedAttempts] /\ temp' \in [Attempts -> Nat]
  <2>1. PICK a \in Attempts :
          \E s \in AfterPowerLoss(staging[a]), left \in {0, temp[a]} :
              /\ staging' = [b \in Attempts |->
                   IF b = a THEN IF s.dir THEN s ELSE NoAttempt
                   ELSE [staging[b] EXCEPT !.dir = staging[b].ddir, !.cred = staging[b].dcred]]
              /\ temp' = [temp EXCEPT ![a] = left]
    BY DEF PowerLoss
  <2>2. PICK s \in AfterPowerLoss(staging[a]), left \in {0, temp[a]} :
              /\ staging' = [b \in Attempts |->
                   IF b = a THEN IF s.dir THEN s ELSE NoAttempt
                   ELSE [staging[b] EXCEPT !.dir = staging[b].ddir, !.cred = staging[b].dcred]]
              /\ temp' = [temp EXCEPT ![a] = left]
    BY <2>1
  <2>3. temp' \in [Attempts -> Nat]
    <3>1. temp[a] \in Nat BY <1>a DEF Typed
    <3>2. left \in Nat BY <3>1
    <3> QED BY <2>2, <3>2, ExceptWrites
  <2>4. \A b \in Attempts : staging[b] \in StagedAttempts BY DEF RefreshTypeOK
  <2>5. ASSUME NEW b \in Attempts PROVE Survives(staging[b], staging'[b])
    <3>1. CASE b = a
      <4>1. staging'[b] = IF s.dir THEN s ELSE NoAttempt BY <2>2, <3>1
      <4> QED BY <4>1, <3>1, <2>4, AfterLossSurvives
    <3>2. CASE b # a
      <4>1. staging'[b] = [staging[b] EXCEPT !.dir = staging[b].ddir, !.cred = staging[b].dcred]
        BY <2>2, <3>2
      <4> QED BY <4>1, <2>4, OtherLossSurvives
    <3> QED BY <3>1, <3>2
  <2>6. staging' \in [Attempts -> StagedAttempts]
    <3>1. staging' = [b \in Attempts |-> staging'[b]] BY <2>2
    <3> QED BY <3>1, <2>5 DEF Survives
  <2> QED BY <2>3, <2>5, <2>6
<1>c. /\ canonical'.live = canonical'.durable
      /\ canonical'.live \in {canonical.live, canonical.durable}
      /\ canonical' \in [live : Nat, durable : Nat]
      /\ lock' = Nobody /\ faults' \in Nat
      /\ UNCHANGED <<issued, sent, secured, over>>
  <2>1. PICK c \in {canonical.live, canonical.durable} :
          canonical' = [live |-> c, durable |-> c]
    BY DEF PowerLoss
  <2>2. c \in Nat BY <1>a, <2>1 DEF Typed
  <2>3. lock' = Nobody /\ faults' \in Nat /\ UNCHANGED <<issued, sent, secured, over>>
    <3>1. lock' = Nobody /\ Fault /\ UNCHANGED service /\ UNCHANGED ghosts BY DEF PowerLoss
    <3> QED BY <3>1 DEF Fault, service, ghosts, RefreshTypeOK
  <2> QED BY <2>1, <2>2, <2>3
<1>f. /\ server' \in [Attempts -> Servers]
      /\ \A a \in Attempts : /\ server'[a].run = "off" /\ server'[a].net = "idle"
                             /\ server'[a].result = "none"
  BY DEF PowerLoss, NoServer, Servers
<1>g. /\ call' \in [Procs -> RefreshCalls]
      /\ \A q \in Procs : /\ call'[q].pc = "idle" /\ call'[q].n = call[q].n
                          /\ call'[q].before = 0
  <2>1. call' = [q \in Procs |-> [NoRefresh EXCEPT !.n = call[q].n]] BY DEF PowerLoss
  <2>2. \A q \in Procs : call[q].n \in 0 .. MaxCalls BY DEF RefreshTypeOK, RefreshCalls
  <2> QED BY <2>1, <2>2 DEF RefreshCalls, NoRefresh, Phases
<1>1. RefreshTypeOK' BY <1>b, <1>c, <1>f, <1>g, RefreshAssumption DEF RefreshTypeOK
<1>h. /\ \A a \in Attempts : ~Live(a)'
      /\ \A a \in Attempts : Stays(a)'
  BY <1>f, <1>g DEF Live, Refreshing, Stays, Scanned
<1>i. \A q \in Procs : ~Held(q)' BY <1>c, RefreshAssumption DEF Held
<1>2. Issued' BY <1>a, <1>b, <1>c, <1>g DEF Issued, Known, Survives, Typed
<1>3. ServersFit' BY <1>f, <1>g, LaterAttempts DEF ServersFit
<1>4. CallsFit' BY <1>g DEF CallsFit, Refreshing
<1>5. OneLive' BY <1>h DEF OneLive
<1>6. HolderIsAlone' BY <1>i DEF HolderIsAlone
<1>7. Unspent' BY <1>f, <1>g DEF Unspent, Refreshing
<1>8. SpentIsAnchored' BY <1>b, <1>c, <1>h DEF SpentIsAnchored, Anchor, Survives
<1>9. PromotionFits' BY <1>i DEF PromotionFits
<1>10. SecuredIsSafe' BY <1>b, <1>c, <1>h DEF SecuredIsSafe, Safe, Anchor, Survives
<1>11. SentAtMostOnce' BY <1>c DEF SentAtMostOnce
<1> QED BY <1>1, <1>2, <1>3, <1>4, <1>5, <1>6, <1>7, <1>8, <1>9, <1>10, <1>11

\* A login issues a credential nobody has sent or secured.
LEMMA LoginKeeps ==
    ASSUME RefreshInv, Login
    PROVE  RefreshInv'
<1> USE DEF RefreshInv
<1>a. Typed BY Pointwise
<1>b. /\ issued' = issued + 1 /\ issued' \in Tokens
      /\ over' = over \cup {canonical.live}
      /\ canonical'.live = issued + 1 /\ canonical'.durable = issued + 1
      /\ canonical' \in [live : Nat, durable : Nat] /\ faults' \in Nat
  BY RefreshAssumption DEF Login, RefreshTypeOK, Fault, Tokens
<1>c. UNCHANGED <<staging, temp, server, sent, secured, lock, call>> BY DEF Login
<1>d. \A q \in Procs : Mine(q)' = Mine(q) BY <1>c DEF Mine
<1>e. \A q \in Procs : call[q].pc # "idle" => Mine(q) \in Attempts BY ActiveMine
<1>1. RefreshTypeOK' BY <1>b, <1>c DEF RefreshTypeOK
<1> USE <1>a, <1>b, <1>c, <1>d, <1>e, MineIsOwn DEF Typed, Stages, Serves, Spends
<1>f. sent[canonical'.live] = 0 /\ sent[canonical'.durable] = 0
  BY RefreshAssumption DEF Issued, Tokens
<1>g. canonical'.live \notin secured BY DEF Issued, Known
<1>2. Issued'
  <2>1. \A t \in Tokens : t > issued' => sent'[t] = 0
    BY RefreshAssumption DEF Issued, Tokens
  <2>2. Known \subseteq Known' BY DEF Known
  <2>3. canonical'.live \in Known' /\ canonical'.durable \in Known' BY DEF Known
  <2> QED BY <2>1, <2>2, <2>3 DEF Issued, RefreshCalls
<1>3. ServersFit' BY DEF ServersFit
<1>4. CallsFit' BY DEF CallsFit, Refreshing
<1>5. OneLive' BY DEF OneLive, Live, Refreshing, Changed
<1>6. HolderIsAlone' BY <1>f DEF HolderIsAlone, Held, Scanned, Live, Refreshing, Changed
<1>7. Unspent' BY DEF Unspent, Refreshing, Changed
<1>8. SpentIsAnchored' BY <1>f DEF SpentIsAnchored, Anchor, Stays, Scanned, Changed
<1>9. PromotionFits' BY <1>g DEF PromotionFits, Held
<1>10. SecuredIsSafe' BY DEF SecuredIsSafe, Safe, Anchor, Stays, Scanned, Changed
<1>11. SentAtMostOnce' BY DEF SentAtMostOnce
<1> QED BY <1>1, <1>2, <1>3, <1>4, <1>5, <1>6, <1>7, <1>8, <1>9, <1>10, <1>11

-----------------------------------------------------------------------------
(* The theorems.                                                           *)

LEMMA InitKeeps == Init => RefreshInv
<1> SUFFICES ASSUME Init PROVE RefreshInv
  OBVIOUS
<1> USE RefreshAssumption DEF Init
<1>a. /\ canonical.live = 1 /\ canonical.durable = 1
      /\ \A a \in Attempts : /\ ~staging[a].dir /\ ~staging[a].ddir
                             /\ staging[a].cred = 0 /\ staging[a].dcred = 0
      /\ \A t \in Tokens : sent[t] = 0
      /\ issued = 1 /\ secured = {} /\ lock = Nobody
  BY DEF NoAttempt
<1>b. \A a \in Attempts : /\ server[a].run = "off" /\ server[a].net = "idle"
                          /\ server[a].result = "none"
  BY DEF NoServer
<1>c. \A p \in Procs : call[p].pc = "idle" /\ call[p].n = 0 /\ call[p].before = 0
  BY DEF NoRefresh
<1>1. RefreshTypeOK
  <2>1. staging \in [Attempts -> StagedAttempts] /\ temp \in [Attempts -> Nat]
    BY DEF NoAttempt, StagedAttempts
  <2>2. server \in [Attempts -> Servers] BY DEF NoServer, Servers
  <2>3. call \in [Procs -> RefreshCalls] BY DEF NoRefresh, RefreshCalls, Phases
  <2>4. sent \in [Tokens -> Nat] /\ issued \in Tokens BY DEF Tokens
  <2> QED BY <2>1, <2>2, <2>3, <2>4 DEF RefreshTypeOK
<1>d. /\ \A a \in Attempts : ~Live(a)
      /\ \A p \in Procs : ~Held(p)
  BY <1>b, <1>c DEF Live, Refreshing, Held
<1>2. Issued BY <1>a, <1>c DEF Issued, Known
<1>3. ServersFit BY <1>b, <1>c, <1>1, LaterAttempts DEF ServersFit
<1>4. CallsFit BY <1>c DEF CallsFit, Refreshing
<1>5. OneLive /\ HolderIsAlone /\ PromotionFits
  BY <1>d DEF OneLive, HolderIsAlone, PromotionFits
<1>6. Unspent BY <1>b, <1>c DEF Unspent, Refreshing
<1>7. SpentIsAnchored /\ SecuredIsSafe /\ SentAtMostOnce
  BY <1>a DEF SpentIsAnchored, SecuredIsSafe, SentAtMostOnce, Tokens
<1> QED BY <1>1, <1>2, <1>3, <1>4, <1>5, <1>6, <1>7 DEF RefreshInv

LEMMA StutterKeeps ==
    ASSUME RefreshInv, UNCHANGED vars
    PROVE  RefreshInv'
<1> USE DEF RefreshInv, vars, Mine, Held, Live, Anchor, Stays, Changed, Known
<1>1. RefreshTypeOK' /\ Issued' /\ ServersFit' /\ CallsFit'
  BY DEF RefreshTypeOK, Issued, ServersFit, CallsFit
<1>2. OneLive' /\ HolderIsAlone' /\ Unspent' BY DEF OneLive, HolderIsAlone, Unspent
<1>3. SpentIsAnchored' /\ PromotionFits' /\ SecuredIsSafe' /\ SentAtMostOnce'
  BY DEF SpentIsAnchored, PromotionFits, SecuredIsSafe, Safe, SentAtMostOnce
<1> QED BY <1>1, <1>2, <1>3

LEMMA NextKeeps == RefreshInv /\ [Next]_vars => RefreshInv'
<1> SUFFICES ASSUME RefreshInv, [Next]_vars PROVE RefreshInv'
  OBVIOUS
<1>1. ASSUME NEW p \in Procs, Setup(p) PROVE RefreshInv'
  BY <1>1, AcquireKeeps, ScanKeeps, readManagedAuthSnapshotKeeps, MakeAttemptKeeps,
     RecordAttemptKeeps, FillAttemptKeeps, DiscardKeeps DEF Setup
<1>2. ASSUME NEW p \in Procs, Refresh(p) PROVE RefreshInv'
  BY <1>2, StartKeeps, AskKeeps, StartFailsKeeps, AbortKeeps, RespondedKeeps, TimesOutKeeps,
     UnsentKeeps, syncRefreshedStagingAuthKeeps DEF Refresh
<1>3. ASSUME NEW p \in Procs, Promote(p) PROVE RefreshInv'
  BY <1>3, ValidateKeeps, CandidateKeeps, CompareKeeps, RenameKeeps,
     syncParentDirectoryKeeps, VerifyKeeps, cleanupManagedRefreshArtifactsKeeps,
     ReleaseKeeps DEF Promote
<1>4. ASSUME NEW a \in Attempts, App(a) PROVE RefreshInv'
  BY <1>4, AppRefreshesKeeps, AppSendsKeeps, AppReceivesKeeps, AppAnswersKeeps DEF App
<1>5. ASSUME NEW p \in Procs, AuthorityReplaced(p) \/ Crash(p) PROVE RefreshInv'
  BY <1>5, AuthorityReplacedKeeps, CrashKeeps
<1>6. ASSUME LockLost \/ PowerLoss \/ Login PROVE RefreshInv'
  BY <1>6, LockLostKeeps, PowerLossKeeps, LoginKeeps
<1> QED BY <1>1, <1>2, <1>3, <1>4, <1>5, <1>6, StutterKeeps DEF Next

\* The invariant holds in every reachable state.
THEOREM RefreshInvariant == Spec => []RefreshInv
BY InitKeeps, NextKeeps, PTL DEF Spec

\* No refresh token is sent to the service twice, whatever fails: a call sends
\* only while it is the one live attempt, and what was sent has an anchor that
\* findRecoveryArtifacts reports to every later call.
THEOREM RefreshSentAtMostOnce == Spec => []SentAtMostOnce
<1>1. RefreshInv => SentAtMostOnce BY DEF RefreshInv
<1> QED BY <1>1, RefreshInvariant, PTL

\* A refreshed credential that was synchronized stays in auth.json or in a
\* staging attempt that neither cleanup nor a power loss removes.
THEOREM RefreshRefreshedIsKept == Spec => []RefreshedIsKept
<1>1. RefreshInv => RefreshedIsKept
  BY DEF RefreshInv, SecuredIsSafe, RefreshedIsKept, Safe, Kept, Anchor
<1> QED BY <1>1, RefreshInvariant, PTL

-----------------------------------------------------------------------------
(***************************************************************************)
(* Nothing outlives a deployment: its pools are closed under nobody, what  *)
(* says it has stopped is quiet, and an image reservation that has ended   *)
(* stays so, for every set of callers and groups and every deployment.     *)
(***************************************************************************)
-----------------------------------------------------------------------------
(* The deployment: types.                                                  *)

Lives == {"running", "stopping", "stopped", "failed"}
Stops == {"none", "pending"} \cup Outcomes
SlotPhases == {"idle", "accepting", "draining", "quiescing", "done", "breached"}

Slots == [group : Groups \cup {NoGroup}, phase : SlotPhases, pending : BOOLEAN,
          time : {"early", "due", "over"}, result : {"none", "success", "failure"}]

Settlements ==
    [life : [Groups -> Lives], stop : [Groups -> Stops], broken : SUBSET Groups,
     slot : [Works -> Slots], stray : SUBSET Groups, fatal : BOOLEAN]

Schedulers ==
    [state : {"idle", "running", "stopping", "stopped", "failed"},
     loop : {"none", "step", "stepped", "threw", "delay", "woken", "end"},
     completion : {"none"} \cup Outcomes]

Controllers ==
    [state : {"idle", "starting", "ready", "stopping", "stopped", "failed"},
     start : {"none", "migrate", "step", "ok", "undo", "failed"},
     first : {"none", "completed", "uncertain", "observer-failed"},
     stop : Stops]

Deployment ==
    [state : {"idle", "starting", "ready", "stopping", "stopped", "failed"},
     start : {"none", "preflight", "controller", "ok", "cleanup", "failed"},
     stop : {"none", "waiting", "pools"} \cup Outcomes,
     awaits : BOOLEAN, refused : BOOLEAN, fatal : BOOLEAN,
     pools : {"open", "closing", "closed"}]

Parts == [phys : Settlements, sched : Schedulers, ctl : Controllers, dep : Deployment]

Reservations ==
    [binding : {"none", "issued", "using", "consumed", "revoked"},
     coordinator : {"none", "issued", "revalidating", "consumed", "revoked"}]

Uses == {"none", "revalidate", "consume", "holds", "refused"}

LifeTypeOK ==
    /\ reach \in [Works -> SUBSET Groups]
    /\ job \in [Callers -> {"out", "in"}]
    /\ rsv \in Reservations /\ use \in [Callers -> Uses]

-----------------------------------------------------------------------------
(* What a settlement state keeps.                                          *)

\* A provider that is still running belongs to an active invocation, or was
\* given up by a group that is broken and not quiescent.
PendingIsKnown(p) ==
    \A w \in Works :
        LET r == p.slot[w] IN
        /\ Active(r) => r.group \in Groups
        /\ r.pending /\ ~Active(r) =>
              /\ r.phase = "breached"
              /\ r.group \in p.broken \ QuiescentGroups

\* A group that was asked to stop starts nothing, and has settled its stop
\* only without an active invocation; it has stopped well only unbroken.
StopIsFinal(p) ==
    \A g \in Groups :
        /\ p.stop[g] # "none" => p.life[g] # "running"
        /\ p.stop[g] \in Outcomes =>
              \A w \in Works : p.slot[w].group = g => ~Active(p.slot[w])
        /\ p.stop[g] = "resolved" => g \notin p.broken

Settled(p) ==
    /\ p \in Settlements
    /\ PendingIsKnown(p) /\ StopIsFinal(p) /\ p.stray \subseteq p.broken

\* What no step of the groups takes back.
Keeps(p, q) ==
    \A g \in Groups : p.stop[g] \in Outcomes => q.stop[g] = p.stop[g]

-----------------------------------------------------------------------------
(* The scheduler, the controller and the deployment, in a next state s that *)
(* a step has computed so far, with the calls j.                            *)

\* A scheduler that has completed does not run, and one that never ran has
\* nothing to complete.
SchedulerFits(s) ==
    /\ s.sched.state = "idle" => s.sched.loop = "none" /\ s.sched.completion = "none"
    /\ s.sched.completion # "none" =>
          /\ s.sched.loop \in {"none", "end"}
          /\ s.sched.state \notin {"idle", "running"}

\* A controller that may still start its scheduler has not been stopped; one
\* that has settled its stop has nothing in flight.
ControllerFits(s, j) ==
    /\ s.ctl.start = "none" /\ s.ctl.stop = "none" => s.sched.state = "idle"
    /\ s.ctl.start = "migrate" /\ s.ctl.state = "starting" => s.sched.state = "idle"
    /\ s.ctl.stop # "none" => s.ctl.state \notin {"idle", "starting", "ready"}
    /\ s.ctl.stop \in Outcomes =>
          /\ s.sched.completion # "none"
          /\ s.ctl.start \notin {"migrate", "step", "undo"}
          /\ \A c \in Callers : j[c] = "out"

\* A stop of the deployment is never refused and begins with the controller's;
\* the pools are closed after the controller and every group have stopped and
\* the start is over.
DeploymentFits(s) ==
    /\ ~s.dep.refused
    /\ s.dep.state \in {"idle", "starting", "ready"} <=> s.dep.stop = "none"
    /\ s.dep.stop # "none" <=> s.ctl.stop # "none"
    /\ s.dep.state = "idle" => s.dep.start = "none"
    /\ s.dep.start \in {"none", "preflight"} => s.ctl.start = "none"
    /\ s.dep.stop # "none" /\ ~s.dep.awaits =>
          s.dep.start \in {"none", "cleanup", "failed"}
    /\ s.dep.pools = "open" <=> s.dep.stop \in {"none", "waiting"}
    /\ s.dep.pools # "open" =>
          /\ s.dep.start \in {"none", "ok", "cleanup", "failed"}
          /\ s.ctl.stop \in Outcomes
          /\ \A g \in Groups : s.phys.stop[g] \in Outcomes

\* What has stopped well had every group stop well, and no fatal event.
StoppedWell(s) ==
    s.dep.state = "stopped" =>
        /\ ~s.dep.fatal /\ s.dep.pools = "closed"
        /\ \A g \in Groups : s.phys.stop[g] = "resolved"

Fits(s, j) ==
    /\ s \in Parts /\ Settled(s.phys)
    /\ SchedulerFits(s) /\ ControllerFits(s, j) /\ DeploymentFits(s) /\ StoppedWell(s)

\* At most one call is at its inspection; an interrupted one finds the
\* reservation revoked.
Inspecting(c) == use[c] \in {"revalidate", "consume"}
ReservationFits ==
    /\ \A c \in Callers : Inspecting(c) => rsv.binding \in {"using", "revoked"}
    /\ \A c, d \in Callers : Inspecting(c) /\ Inspecting(d) => c = d

LifeInv ==
    /\ LifeTypeOK /\ Fits(Now, job) /\ ~phys.fatal
    /\ ReservationFits

-----------------------------------------------------------------------------
(* The settlement groups.                                                  *)

Failing == {"quiescing", "breached"}

\* What an invocation r may become while its work awaits it: it stays with its
\* group, no provider starts, and a provider is given up only by a breach now.
Moves(r, n) ==
    /\ n \in Slots /\ n.group = r.group
    /\ Active(n) => Active(r)
    /\ n.pending => r.pending
    /\ n.pending /\ ~Active(n) =>
          IF Active(r)
          THEN /\ n.phase = "breached" /\ r.phase \notin Failing
               /\ n.group \notin QuiescentGroups
          ELSE n.phase = r.phase
    /\ n.phase \in Failing /\ r.phase \notin Failing => Active(r)

LEMMA EnforceMoves ==
    ASSUME NEW r \in Slots
    PROVE  Moves(r, enforceElapsedBoundaries(r))
BY DEF Moves, enforceElapsedBoundaries, beginGrace, enforceGraceExpiry, breachRecord,
   Active, Failing, Slots, SlotPhases

LEMMA AbortMoves ==
    ASSUME NEW r \in Slots
    PROVE  Moves(r, abortActive(r))
<1> DEFINE e == enforceElapsedBoundaries(r)
<1>1. Moves(r, e) BY EnforceMoves
<1>2. abortActive(r) = IF e.phase = "accepting"
                       THEN [e EXCEPT !.phase = "draining", !.time = "early"] ELSE e
  BY DEF abortActive
<1> HIDE DEF e
<1> QED BY <1>1, <1>2 DEF Moves, Active, Failing, Slots, SlotPhases

LEMMA ObserveMoves ==
    ASSUME NEW r \in Slots, NEW ok \in BOOLEAN
    PROVE  Moves(r, observeProvider(r, ok))
<1> DEFINE e == enforceElapsedBoundaries(r)
<1>1. Moves(r, e) BY EnforceMoves
<1>2. observeProvider(r, ok) =
         IF ~Active(e) THEN [e EXCEPT !.pending = FALSE]
         ELSE [e EXCEPT !.phase = "done", !.pending = FALSE,
                        !.result = IF ok /\ e.phase = "accepting" THEN "success"
                                   ELSE "failure"]
  BY DEF observeProvider
<1> HIDE DEF e
<1> QED BY <1>1, <1>2 DEF Moves, Active, Failing, Slots, SlotPhases

\* A new invocation of a group that is running.
Starts(p, n) ==
    /\ n \in Slots /\ n.group \in Groups /\ p.life[n.group] = "running"
    /\ Active(n) \/ ~n.pending

LEMMA WithSlotsSettled ==
    ASSUME NEW p, Settled(p), NEW slots \in [Works -> Slots],
           \A w \in Works : Moves(p.slot[w], slots[w]) \/ Starts(p, slots[w])
    PROVE  /\ Settled(WithSlots(p, slots))
           /\ WithSlots(p, slots).stop = p.stop
<1> DEFINE failing == {"quiescing", "breached"}
           hit == {slots[w].group : w \in {v \in Works :
                     slots[v].phase \in failing /\ p.slot[v].phase \notin failing}}
           q == WithSlots(p, slots)
<1>1. \A w \in Works : Active(slots[w]) => slots[w].group \in Groups
  BY DEF Moves, Starts, Settled, PendingIsKnown
<1>2. \A g \in Groups : p.stop[g] \in Outcomes => g \notin hit
  <2> SUFFICES ASSUME NEW w \in Works, p.stop[slots[w].group] \in Outcomes,
                      slots[w].group \in Groups,
                      slots[w].phase \in failing, p.slot[w].phase \notin failing
               PROVE  FALSE
    OBVIOUS
  <2>1. CASE Moves(p.slot[w], slots[w]) BY <2>1 DEF Moves, Failing, Settled, StopIsFinal
  <2>2. CASE Starts(p, slots[w]) BY <2>2 DEF Starts, Settled, StopIsFinal, Outcomes
  <2> QED BY <2>1, <2>2
<1>3. hit \subseteq Groups BY DEF Moves, Starts, Settled, PendingIsKnown, Failing
<1>4. q = [p EXCEPT
            !.slot = slots,
            !.broken = @ \cup hit,
            !.life = [g \in Groups |-> IF g \in hit /\ @[g] = "running"
                                       THEN "failed" ELSE @[g]],
            !.fatal = @ \/ hit # {}]
  BY DEF WithSlots
<1> HIDE DEF q
<1>5. q \in Settlements BY <1>3, <1>4 DEF Settled, Settlements, Lives
<1>6. /\ q.slot = slots /\ q.stop = p.stop /\ q.stray = p.stray
      /\ q.broken = p.broken \cup hit
      /\ \A g \in Groups : q.life[g] = "running" => p.life[g] = "running"
  BY <1>4 DEF Settled, Settlements
<1>7. \A w \in Works : slots[w].pending /\ ~Active(slots[w]) =>
         /\ slots[w].phase = "breached"
         /\ slots[w].group \in (p.broken \cup hit) \ QuiescentGroups
  BY DEF Moves, Starts, Settled, PendingIsKnown, Failing
<1> HIDE DEF hit
<1>8. PendingIsKnown(q) BY <1>1, <1>6, <1>7 DEF PendingIsKnown
<1>9. StopIsFinal(q)
  <2>1. \A g \in Groups : q.stop[g] # "none" => q.life[g] # "running"
    BY <1>6 DEF Settled, StopIsFinal
  <2>2. \A g \in Groups : q.stop[g] \in Outcomes =>
           \A w \in Works : q.slot[w].group = g => ~Active(q.slot[w])
    BY <1>6 DEF Settled, StopIsFinal, Moves, Starts, Outcomes
  <2>3. \A g \in Groups : q.stop[g] = "resolved" => g \notin q.broken
    BY <1>2, <1>6 DEF Settled, StopIsFinal, Outcomes
  <2> QED BY <2>1, <2>2, <2>3 DEF StopIsFinal
<1> QED BY <1>5, <1>6, <1>8, <1>9 DEF Settled, q

LEMMA WithSlotSettled ==
    ASSUME NEW p, Settled(p), NEW w \in Works, NEW n \in Slots,
           Moves(p.slot[w], n) \/ Starts(p, n)
    PROVE  /\ Settled(WithSlot(p, w, n))
           /\ WithSlot(p, w, n).stop = p.stop
<1> DEFINE slots == [p.slot EXCEPT ![w] = n]
<1>1. slots \in [Works -> Slots] BY DEF Settled, Settlements
<1>2. \A v \in Works : Moves(p.slot[v], slots[v]) \/ Starts(p, slots[v])
  BY DEF Settled, Settlements, Moves
<1> QED BY <1>1, <1>2, WithSlotsSettled DEF WithSlot

\* invoke(): a provider that breaks its contract on the spot is not running.
LEMMA InvokeSettled ==
    ASSUME NEW p, Settled(p), NEW w \in Works, NEW g \in Groups, NEW contract \in BOOLEAN,
           p.life[g] = "running"
    PROVE  /\ Settled(invoke(p, w, g, contract))
           /\ invoke(p, w, g, contract).stop = p.stop
<1> DEFINE r == [group |-> g, phase |-> "accepting", pending |-> contract,
                 time |-> "early", result |-> "none"]
           n == IF contract THEN r ELSE breachRecord(r)
<1>1. n \in Slots /\ Starts(p, n) BY DEF Starts, breachRecord, Active, Slots, SlotPhases
<1>2. invoke(p, w, g, contract) = WithSlot(p, w, n) BY DEF invoke
<1> HIDE DEF n
<1> QED BY <1>1, <1>2, WithSlotSettled

LEMMA CompleteSettled ==
    ASSUME NEW p, Settled(p)
    PROVE  LET q == maybeCompleteStop(p) IN
           Settled(q) /\ Keeps(p, q) /\ q.fatal = p.fatal
<1> DEFINE ended == {g \in Groups : /\ p.stop[g] = "pending"
                                   /\ \A w \in Works :
                                         p.slot[w].group = g => ~Active(p.slot[w])}
           q == maybeCompleteStop(p)
<1>1. q = [p EXCEPT
             !.stop = [g \in Groups |-> IF g \in ended
                                        THEN IF g \in p.broken THEN "rejected" ELSE "resolved"
                                        ELSE @[g]],
             !.life = [g \in Groups |-> IF g \notin ended THEN @[g]
                                        ELSE IF g \in p.broken THEN "failed" ELSE "stopped"]]
  BY DEF maybeCompleteStop
<1> HIDE DEF q, ended
<1>2. q \in Settlements BY <1>1 DEF Settled, Settlements, Lives, Stops, Outcomes
<1>3. /\ q.slot = p.slot /\ q.stray = p.stray /\ q.broken = p.broken /\ q.fatal = p.fatal
      /\ \A g \in Groups : g \notin ended => q.stop[g] = p.stop[g] /\ q.life[g] = p.life[g]
      /\ \A g \in ended : /\ g \in Groups => q.life[g] # "running"
                          /\ g \in Groups =>
                               q.stop[g] = IF g \in p.broken THEN "rejected" ELSE "resolved"
  BY <1>1 DEF Settled, Settlements
<1>4. \A g \in ended : /\ p.stop[g] = "pending"
                       /\ \A w \in Works : p.slot[w].group = g => ~Active(p.slot[w])
  BY DEF ended
<1>5. PendingIsKnown(q) BY <1>3 DEF Settled, PendingIsKnown
<1>6. StopIsFinal(q) /\ Keeps(p, q) BY <1>3, <1>4 DEF Settled, StopIsFinal, Keeps, Outcomes
<1> QED BY <1>2, <1>3, <1>5, <1>6 DEF Settled, q

\* A stop of every group: each of them was asked, and those that had settled
\* their stop are as they were.
LEMMA StopGroupsSettled ==
    ASSUME NEW p, Settled(p)
    PROVE  LET q == stopGroups(p, Groups) IN Settled(q) /\ Keeps(p, q)
<1> DEFINE fresh == {g \in Groups : p.stop[g] = "none"}
           asked == [p EXCEPT
                       !.stop = [g \in Groups |-> IF g \in fresh THEN "pending" ELSE @[g]],
                       !.life = [g \in Groups |-> IF g \in fresh /\ @[g] # "failed"
                                                  THEN "stopping" ELSE @[g]]]
           slots == [w \in Works |-> IF p.slot[w].group \in fresh
                                     THEN abortActive(p.slot[w]) ELSE p.slot[w]]
<1>1. asked \in Settlements BY DEF Settled, Settlements, Lives, Stops
<1>2. /\ asked.slot = p.slot /\ asked.stray = p.stray /\ asked.broken = p.broken
      /\ \A g \in Groups : p.stop[g] # "none" =>
            asked.stop[g] = p.stop[g] /\ asked.life[g] = p.life[g]
      /\ \A g \in Groups : p.stop[g] = "none" =>
            asked.stop[g] = "pending" /\ asked.life[g] # "running"
  BY DEF Settled, Settlements
<1> HIDE DEF asked
<1>3. Settled(asked) BY <1>1, <1>2 DEF Settled, PendingIsKnown, StopIsFinal, Outcomes
<1>4. \A w \in Works : p.slot[w] \in Slots /\ Moves(p.slot[w], p.slot[w])
  BY DEF Settled, Settlements, Moves
<1>5. \A w \in Works : slots[w] \in Slots /\ Moves(p.slot[w], slots[w])
  BY <1>4, AbortMoves DEF Moves
<1>6. slots \in [Works -> Slots] BY <1>5
<1>7. stopGroups(p, Groups) = WithSlots(asked, slots) BY DEF stopGroups, asked
<1> HIDE DEF slots
<1> QED BY <1>2, <1>3, <1>5, <1>6, <1>7, WithSlotsSettled DEF Keeps, Outcomes

\* The await of an invocation that is over is left behind; a provider that was
\* given up is a stray of its broken group.
LEMMA ConsumedSettled ==
    ASSUME NEW p, Settled(p), NEW w \in Works, p.slot[w].phase \in {"done", "breached"}
    PROVE  Settled(Consumed(p, w)) /\ Consumed(p, w).stop = p.stop
                                   /\ Consumed(p, w).fatal = p.fatal
<1> DEFINE q == Consumed(p, w)
<1>1. Idle \in Slots /\ ~Active(Idle) /\ ~Idle.pending
  BY DEF Idle, Slots, SlotPhases, Active
<1>2. p.slot[w].pending => p.slot[w].group \in p.broken
  BY DEF Settled, PendingIsKnown, Active
<1>3. q \in Settlements BY <1>1, <1>2 DEF Consumed, Settled, Settlements
<1>4. /\ q.stop = p.stop /\ q.life = p.life /\ q.broken = p.broken /\ q.fatal = p.fatal
      /\ q.slot = [p.slot EXCEPT ![w] = Idle] /\ q.stray \subseteq p.broken
  BY <1>2 DEF Consumed, Settled, Settlements
<1> HIDE DEF q
<1>5. \A v \in Works : q.slot[v] = IF v = w THEN Idle ELSE p.slot[v]
  BY <1>4 DEF Settled, Settlements
<1> QED BY <1>1, <1>3, <1>4, <1>5 DEF Settled, PendingIsKnown, StopIsFinal, q

-----------------------------------------------------------------------------
(* Stops.                                                                  *)

\* stop() of the scheduler.
LEMMA SchedulerStopFits ==
    ASSUME NEW s \in Parts, SchedulerFits(s), NEW t \in Parts, t.sched = schedulerStop(s.sched)
    PROVE  SchedulerFits(t) /\ t.sched.state # "running"
BY DEF SchedulerFits, schedulerStop, Parts, Schedulers, Outcomes

LEMMA SchedulerStopType ==
    ASSUME NEW z \in Schedulers
    PROVE  schedulerStop(z) \in Schedulers
BY DEF schedulerStop, Schedulers, Outcomes

\* The stops of a deployment that has just turned to stopping: what is stopped
\* of the controller, and what of the groups.
LEMMA BothStop ==
    ASSUME NEW s \in Parts, Settled(s.phys), s.ctl.stop = "none"
    PROVE  LET t == beginControllerAndSettlementStops(s, "outside") IN
           /\ t \in Parts /\ Settled(t.phys) /\ Keeps(s.phys, t.phys)
           /\ t.dep = s.dep /\ t.sched = schedulerStop(s.sched)
           /\ t.ctl = [s.ctl EXCEPT !.state = "stopping", !.stop = "pending"]
<1> DEFINE c == controllerStop(s, "outside")
           t == beginControllerAndSettlementStops(s, "outside")
<1>1. c = [s EXCEPT !.ctl.state = "stopping", !.ctl.stop = "pending",
                    !.sched = schedulerStop(@)]
  BY DEF controllerStop
<1>2. /\ c \in Parts /\ c.phys = s.phys /\ c.dep = s.dep /\ c.sched = schedulerStop(s.sched)
      /\ c.ctl = [s.ctl EXCEPT !.state = "stopping", !.stop = "pending"]
  <2> DEFINE z == schedulerStop(s.sched)
             k == [s.ctl EXCEPT !.state = "stopping", !.stop = "pending"]
  <2>1. z \in Schedulers BY SchedulerStopType DEF Parts
  <2>2. k \in Controllers BY DEF Parts, Controllers, Stops
  <2>3. c = [s EXCEPT !.ctl = k, !.sched = z] BY <1>1 DEF Parts, Controllers
  <2> HIDE DEF z, k
  <2>4. /\ c \in Parts /\ c.phys = s.phys /\ c.dep = s.dep /\ c.sched = z
        /\ c.ctl = k
    BY <2>1, <2>2, <2>3 DEF Parts
  <2> QED BY <2>4 DEF z, k
<1> HIDE DEF c
<1>3. t = [c EXCEPT !.phys = stopGroups(@, Groups)]
  BY DEF beginControllerAndSettlementStops, c
<1>4. Settled(stopGroups(s.phys, Groups)) /\ Keeps(s.phys, stopGroups(s.phys, Groups))
  BY StopGroupsSettled
<1>5. stopGroups(s.phys, Groups) \in Settlements BY <1>4 DEF Settled
<1> HIDE DEF t
<1> QED BY <1>2, <1>3, <1>4, <1>5 DEF Parts, t

\* What turns a deployment to stopping fits, whether it is a stop of its own
\* or a start that fails.
LEMMA TurnsToStopping ==
    ASSUME NEW s \in Parts, NEW j, Fits(s, j), s.dep.stop = "none",
           NEW d \in Deployment, d.state = "stopping", d.stop = "waiting",
           d.refused = FALSE, d.pools = s.dep.pools,
           d.start \in {s.dep.start, "cleanup"},
           ~d.awaits => d.start \in {"none", "cleanup"}
    PROVE  LET t == beginControllerAndSettlementStops([s EXCEPT !.dep = d], "outside") IN
           Fits(t, j) /\ Keeps(s.phys, t.phys)
<1> DEFINE u == [s EXCEPT !.dep = d]
           t == beginControllerAndSettlementStops(u, "outside")
<1>1. u \in Parts /\ u.phys = s.phys /\ u.dep = d /\ u.ctl = s.ctl /\ u.sched = s.sched
  BY DEF Parts
<1>2. s.ctl.stop = "none" BY DEF Fits, DeploymentFits
<1> HIDE DEF u
<1>3. /\ t \in Parts /\ Settled(t.phys) /\ Keeps(s.phys, t.phys)
      /\ t.dep = d /\ t.sched = schedulerStop(s.sched)
      /\ t.ctl = [s.ctl EXCEPT !.state = "stopping", !.stop = "pending"]
  <2>1. Settled(u.phys) /\ u.ctl.stop = "none" BY <1>1, <1>2 DEF Fits
  <2>2. /\ t \in Parts /\ Settled(t.phys) /\ Keeps(u.phys, t.phys)
        /\ t.dep = u.dep /\ t.sched = schedulerStop(u.sched)
        /\ t.ctl = [u.ctl EXCEPT !.state = "stopping", !.stop = "pending"]
    BY <1>1, <2>1, BothStop
  <2> HIDE DEF t
  <2> QED BY <1>1, <2>2
<1> HIDE DEF t
<1>4. SchedulerFits(t) BY <1>3, SchedulerStopFits DEF Fits
<1>5. t.ctl.state = "stopping" /\ t.ctl.stop = "pending" /\ t.ctl.start = s.ctl.start
  BY <1>3 DEF Parts, Controllers
<1>6. ControllerFits(t, j) BY <1>5 DEF ControllerFits, Outcomes
<1>7. DeploymentFits(t) BY <1>3, <1>5 DEF Fits, DeploymentFits
<1>8. StoppedWell(t) BY <1>3 DEF StoppedWell
<1> QED BY <1>3, <1>4, <1>6, <1>7, <1>8 DEF Fits, t, u

LEMMA BeginStopFits ==
    ASSUME NEW s, NEW j, Fits(s, j), NEW fatal \in BOOLEAN
    PROVE  LET t == beginStop(s, fatal, "outside") IN Fits(t, j) /\ Keeps(s.phys, t.phys)
<1> DEFINE fd == s.dep.fatal \/ (fatal /\ s.dep.state # "stopped")
           f == [s EXCEPT !.dep.fatal = fd]
<1>1. s \in Parts BY DEF Fits
<1>2. CASE s.dep.stop # "none"
  <2>1. /\ f \in Parts /\ f.phys = s.phys /\ f.sched = s.sched /\ f.ctl = s.ctl
        /\ f.dep = [s.dep EXCEPT !.fatal = fd] /\ f.dep \in Deployment
    BY <1>1 DEF Parts, Deployment
  <2>2. beginStop(s, fatal, "outside") = f BY <1>1, <1>2 DEF beginStop, Parts, Deployment
  <2> HIDE DEF f
  <2>3. SchedulerFits(f) /\ ControllerFits(f, j)
    BY <2>1 DEF Fits, SchedulerFits, ControllerFits
  <2>4. DeploymentFits(f) /\ StoppedWell(f)
    BY <1>1, <2>1 DEF Fits, DeploymentFits, StoppedWell, Parts, Deployment
  <2> QED BY <2>1, <2>2, <2>3, <2>4 DEF Fits, Keeps
<1>3. CASE s.dep.stop = "none"
  <2> DEFINE d == [s.dep EXCEPT !.fatal = fd, !.state = "stopping", !.stop = "waiting",
                                !.awaits = (s.dep.start # "none")]
  <2>1. [f EXCEPT !.dep.state = "stopping", !.dep.stop = "waiting",
                  !.dep.awaits = (f.dep.start # "none")] = [s EXCEPT !.dep = d]
    BY <1>1 DEF Parts, Deployment
  <2>2. beginStop(s, fatal, "outside")
          = beginControllerAndSettlementStops([s EXCEPT !.dep = d], "outside")
    BY <1>1, <1>3, <2>1 DEF beginStop, Parts, Deployment
  <2>3. /\ d \in Deployment /\ d.state = "stopping" /\ d.stop = "waiting"
        /\ d.refused = FALSE /\ d.pools = s.dep.pools /\ d.start = s.dep.start
        /\ ~d.awaits => d.start = "none"
    BY <1>1 DEF Fits, DeploymentFits, Parts, Deployment
  <2> HIDE DEF d
  <2> QED BY <1>1, <1>3, <2>2, <2>3, TurnsToStopping
<1> QED BY <1>2, <1>3

\* A start that fails by itself, and one that was stopped.
LEMMA StartFailsFits ==
    ASSUME NEW s, NEW j, Fits(s, j), s.dep.start \in {"preflight", "controller"}
    PROVE  Fits(startFails(s), j) /\ Keeps(s.phys, startFails(s).phys)
<1>1. s \in Parts BY DEF Fits
<1>2. CASE s.dep.state = "starting"
  <2> DEFINE d == [s.dep EXCEPT !.state = "stopping", !.start = "cleanup",
                                !.stop = "waiting", !.awaits = FALSE]
  <2>1. startFails(s)
          = beginControllerAndSettlementStops([s EXCEPT !.dep = d], "outside")
    BY <1>1, <1>2 DEF startFails, Parts, Deployment
  <2>2. /\ d \in Deployment /\ d.state = "stopping" /\ d.stop = "waiting"
        /\ d.refused = FALSE /\ d.pools = s.dep.pools /\ d.start = "cleanup"
    BY <1>1 DEF Fits, DeploymentFits, Parts, Deployment
  <2>3. s.dep.stop = "none" BY <1>2 DEF Fits, DeploymentFits
  <2> HIDE DEF d
  <2> QED BY <1>1, <2>1, <2>2, <2>3, TurnsToStopping
<1>3. CASE s.dep.state # "starting"
  <2> DEFINE f == [s EXCEPT !.dep.start = "failed"]
  <2>1. /\ f \in Parts /\ f.phys = s.phys /\ f.sched = s.sched /\ f.ctl = s.ctl
        /\ f.dep = [s.dep EXCEPT !.start = "failed"] /\ f.dep \in Deployment
    BY <1>1 DEF Parts, Deployment
  <2>2. startFails(s) = f BY <1>3 DEF startFails
  <2> HIDE DEF f
  <2>3. SchedulerFits(f) /\ ControllerFits(f, j)
    BY <2>1 DEF Fits, SchedulerFits, ControllerFits
  <2>4. DeploymentFits(f) /\ StoppedWell(f)
    BY <1>1, <1>3, <2>1 DEF Fits, DeploymentFits, StoppedWell, Parts, Deployment
  <2> QED BY <2>1, <2>2, <2>3, <2>4 DEF Fits, Keeps
<1> QED BY <1>2, <1>3

\* requestFatalShutdown of what a step has computed.
LEMMA AfterFatalFits ==
    ASSUME NEW s, NEW j, Fits(s, j), NEW context
    PROVE  LET t == AfterFatal(s, context) IN
           Fits(t, j) /\ Keeps(s.phys, t.phys) /\ ~t.phys.fatal
<1>1. CASE ~s.phys.fatal BY <1>1 DEF AfterFatal, Keeps
<1>2. CASE s.phys.fatal
  <2> DEFINE u == beginStop(s, TRUE, "outside")
             t == [u EXCEPT !.phys.fatal = FALSE]
  <2>1. Fits(u, j) /\ Keeps(s.phys, u.phys) BY BeginStopFits
  <2>2. AfterFatal(s, context) = t BY <1>2 DEF AfterFatal, fatalScope
  <2> HIDE DEF u
  <2>3. /\ t \in Parts /\ t.dep = u.dep /\ t.sched = u.sched /\ t.ctl = u.ctl
        /\ t.phys = [u.phys EXCEPT !.fatal = FALSE] /\ ~t.phys.fatal
        /\ t.phys \in Settlements
    BY <2>1 DEF Fits, Parts, Settlements
  <2>4. /\ t.phys.stop = u.phys.stop /\ t.phys.life = u.phys.life
        /\ t.phys.slot = u.phys.slot /\ t.phys.broken = u.phys.broken
        /\ t.phys.stray = u.phys.stray
    BY <2>1, <2>3 DEF Fits, Settled, Settlements
  <2> HIDE DEF t
  <2>5. Settled(t.phys) /\ Keeps(s.phys, t.phys)
    BY <2>1, <2>3, <2>4 DEF Fits, Settled, PendingIsKnown, StopIsFinal, Keeps
  <2>6. SchedulerFits(t) /\ ControllerFits(t, j) /\ DeploymentFits(t) /\ StoppedWell(t)
    BY <2>1, <2>3, <2>4 DEF Fits, SchedulerFits, ControllerFits, DeploymentFits, StoppedWell
  <2> QED BY <2>2, <2>3, <2>5, <2>6 DEF Fits
<1> QED BY <1>1, <1>2 DEF Settlements, Settled, Fits

\* Only the groups take a step.
LEMMA PhysFits ==
    ASSUME NEW s, NEW j, Fits(s, j), NEW q, Settled(q), Keeps(s.phys, q)
    PROVE  Fits([s EXCEPT !.phys = q], j)
<1> DEFINE t == [s EXCEPT !.phys = q]
<1>1. t \in Parts /\ t.phys = q /\ t.dep = s.dep /\ t.ctl = s.ctl /\ t.sched = s.sched
  BY DEF Fits, Settled, Parts
<1> HIDE DEF t
<1>2. SchedulerFits(t) /\ ControllerFits(t, j)
  BY <1>1 DEF Fits, SchedulerFits, ControllerFits
<1>3. DeploymentFits(t) /\ StoppedWell(t)
  BY <1>1 DEF Fits, DeploymentFits, StoppedWell, Keeps, Outcomes
<1> QED BY <1>1, <1>2, <1>3 DEF Fits, t

-----------------------------------------------------------------------------
(* The actions.                                                            *)

LEMMA BecomesFits ==
    ASSUME NEW s, NEW j, Fits(s, j), ~s.phys.fatal, Becomes(s)
    PROVE  Fits(Now', j) /\ ~phys'.fatal
<1>1. /\ phys' = maybeCompleteStop(s.phys)
      /\ sched' = s.sched /\ ctl' = s.ctl /\ dep' = s.dep
  BY DEF Becomes
<1>2. Settled(phys') /\ Keeps(s.phys, phys') /\ phys'.fatal = s.phys.fatal
  BY <1>1, CompleteSettled DEF Fits
<1>3. Now' = [s EXCEPT !.phys = phys'] BY <1>1 DEF Now, Fits, Parts
<1> QED BY <1>2, <1>3, PhysFits

LEMMA FatalBecomesFits ==
    ASSUME NEW s, NEW j, Fits(s, j), NEW context, Becomes(AfterFatal(s, context))
    PROVE  Fits(Now', j) /\ ~phys'.fatal
BY AfterFatalFits, BecomesFits

LEMMA PhysicalFits ==
    ASSUME NEW j, Fits(Now, j), NEW q, Settled(q), q.stop = phys.stop, NEW context,
           Physical(q, context)
    PROVE  Fits(Now', j) /\ ~phys'.fatal
<1>1. Keeps(Now.phys, q) BY DEF Keeps, Now
<1>2. Fits([Now EXCEPT !.phys = q], j) BY <1>1, PhysFits
<1> QED BY <1>2, FatalBecomesFits DEF Physical

\* A work goes on, or time passes: nothing but the slots changes.
LEMMA SlotFits ==
    ASSUME NEW j, Fits(Now, j), ~phys.fatal, Settled(phys'), phys'.stop = phys.stop,
           phys'.fatal = phys.fatal, UNCHANGED <<sched, ctl, dep>>
    PROVE  Fits(Now', j) /\ ~phys'.fatal
<1>1. Keeps(Now.phys, phys') BY DEF Keeps, Now
<1>2. Now' = [Now EXCEPT !.phys = phys'] BY DEF Now
<1> QED BY <1>1, <1>2, PhysFits

LEMMA NowFacts ==
    ASSUME NEW j, Fits(Now, j)
    PROVE  /\ phys \in Settlements /\ Settled(phys)
           /\ sched \in Schedulers /\ ctl \in Controllers /\ dep \in Deployment
           /\ phys.slot \in [Works -> Slots]
           /\ \A w \in Works : phys.slot[w] \in Slots
BY DEF Fits, Parts, Now, Settlements

\* A call that comes or goes while the controller has not settled its stop, or
\* one that goes.
LEMMA JobFits ==
    ASSUME NEW s, NEW j, Fits(s, j), NEW k,
           \/ s.ctl.stop \notin Outcomes
           \/ \A c \in Callers : j[c] = "out" => k[c] = "out"
    PROVE  Fits(s, k)
BY DEF Fits, ControllerFits

RestAsIs == UNCHANGED <<reach, rsv, use>>

LEMMA RestKept ==
    ASSUME LifeInv, RestAsIs, job' \in [Callers -> {"out", "in"}],
           Fits(Now', job'), ~phys'.fatal
    PROVE  LifeInv'
<1>1. LifeTypeOK' BY DEF LifeInv, LifeTypeOK, RestAsIs
<1>2. ReservationFits' BY DEF LifeInv, ReservationFits, Inspecting, RestAsIs
<1>3. Fits(Now, job)'
  OBVIOUS
<1> QED BY <1>1, <1>2, <1>3 DEF LifeInv

LEMMA RunIngressInv ==
    ASSUME LifeInv, NEW c \in Callers, runIngress(c), UNCHANGED reach
    PROVE  LifeInv'
<1>1. Now' = Now /\ UNCHANGED phys BY DEF runIngress, Now
<1>2. ctl.stop \notin Outcomes
  BY DEF runIngress, LifeInv, Fits, ControllerFits, Now, Outcomes
<1>3. Fits(Now', job') BY <1>1, <1>2, JobFits DEF LifeInv, Now
<1>4. job' \in [Callers -> {"out", "in"}] BY DEF runIngress, LifeInv, LifeTypeOK
<1> QED BY <1>1, <1>3, <1>4, RestKept DEF runIngress, RestAsIs, LifeInv

LEMMA IngressReturnsInv ==
    ASSUME LifeInv, NEW c \in Callers, IngressReturns(c), UNCHANGED reach
    PROVE  LifeInv'
<1>1. Now' = Now /\ UNCHANGED phys BY DEF IngressReturns, Now
<1>2. \A d \in Callers : job[d] = "out" => job'[d] = "out"
  BY DEF IngressReturns, LifeInv, LifeTypeOK
<1>3. Fits(Now', job') BY <1>1, <1>2, JobFits DEF LifeInv
<1>4. LifeTypeOK' BY DEF IngressReturns, LifeInv, LifeTypeOK, Uses
<1>5. ReservationFits'
  BY DEF IngressReturns, LifeInv, LifeTypeOK, ReservationFits, Inspecting
<1>6. Fits(Now, job)' BY <1>3
<1> QED BY <1>1, <1>4, <1>5, <1>6 DEF LifeInv

LEMMA PrepareInv ==
    ASSUME DeploymentAssumption, LifeInv, NEW c \in Callers, prepareImageReservation(c), UNCHANGED reach
    PROVE  LifeInv'
<1>1. c \in Works BY DEF DeploymentAssumption
<1>2. Settled(phys') /\ phys'.stop = phys.stop /\ phys'.fatal = phys.fatal
  BY <1>1, ConsumedSettled, NowFacts DEF prepareImageReservation, LifeInv
<1>3. Fits(Now', job) /\ ~phys'.fatal BY <1>2, SlotFits DEF prepareImageReservation, LifeInv
<1>4. Fits(Now, job)' BY <1>3 DEF prepareImageReservation
<1>5. LifeTypeOK' BY DEF prepareImageReservation, LifeInv, LifeTypeOK, Reservations
<1>6. ReservationFits'
  BY DEF prepareImageReservation, NoReservation, LifeInv, ReservationFits, Inspecting
<1> QED BY <1>3, <1>4, <1>5, <1>6 DEF LifeInv

LEMMA UseRefusedInv ==
    ASSUME LifeInv, NEW c \in Callers, useRefused(c), UNCHANGED reach
    PROVE  LifeInv'
<1>1. Now' = Now /\ UNCHANGED <<phys, job>> BY DEF useRefused, Now
<1>2. Fits(Now, job)' BY <1>1 DEF LifeInv
<1>3. LifeTypeOK' BY DEF useRefused, LifeInv, LifeTypeOK, Reservations, Uses
<1>4. ReservationFits'
  BY DEF useRefused, LifeInv, LifeTypeOK, Reservations, ReservationFits, Inspecting
<1> QED BY <1>1, <1>2, <1>3, <1>4 DEF LifeInv

\* A work asks a group, inside a call or inside a recovery step.
LEMMA SettledValueFits ==
    ASSUME LifeInv, NEW w \in Works, NEW g \in Groups, NEW contract \in BOOLEAN,
           settledValue(w, g, contract)
    PROVE  Fits(Now', job) /\ ~phys'.fatal
<1> DEFINE q == invoke(phys, w, g, contract)
<1>1. Settled(q) /\ q.stop = phys.stop BY InvokeSettled, NowFacts DEF settledValue, LifeInv
<1>2. Physical(q, Context(w)) BY DEF settledValue
<1> HIDE DEF q
<1> QED BY <1>1, <1>2, PhysicalFits DEF LifeInv

LEMMA UseReservationInv ==
    ASSUME DeploymentAssumption, LifeInv, NEW c \in Callers, useReservation(c), UNCHANGED reach
    PROVE  LifeInv'
<1>1. c \in Works /\ ImageGroup \in Groups BY DEF DeploymentAssumption
<1>2. Fits(Now', job) /\ ~phys'.fatal BY <1>1, SettledValueFits DEF useReservation
<1>3. Fits(Now, job)' BY <1>2 DEF useReservation
<1>4. LifeTypeOK' BY DEF useReservation, LifeInv, LifeTypeOK, Reservations, Uses
<1>5. ReservationFits'
  BY DEF useReservation, LifeInv, LifeTypeOK, ReservationFits, Inspecting
<1> QED BY <1>2, <1>3, <1>4, <1>5 DEF LifeInv

LEMMA ReservationUsedInv ==
    ASSUME DeploymentAssumption, LifeInv, NEW c \in Callers, reservationUsed(c), UNCHANGED reach
    PROVE  LifeInv'
<1>1. c \in Works BY DEF DeploymentAssumption
<1>2. Settled(phys') /\ phys'.stop = phys.stop /\ phys'.fatal = phys.fatal
  BY <1>1, ConsumedSettled, NowFacts DEF reservationUsed, LifeInv
<1>3. Fits(Now', job) /\ ~phys'.fatal BY <1>2, SlotFits DEF reservationUsed, LifeInv
<1>4. Fits(Now, job)' BY <1>3 DEF reservationUsed
<1>5. LifeTypeOK'
  BY DEF reservationUsed, revalidated, LifeInv, LifeTypeOK, Reservations, Uses
<1>6. ReservationFits'
  BY DEF reservationUsed, LifeInv, LifeTypeOK, ReservationFits, Inspecting
<1> QED BY <1>3, <1>4, <1>5, <1>6 DEF LifeInv

LEMMA ProvidesInv ==
    ASSUME DeploymentAssumption, LifeInv, NEW w \in Works, Provides(w), UNCHANGED reach
    PROVE  LifeInv'
<1>1. /\ phys \in Settlements /\ Settled(phys) /\ phys.slot[w] \in Slots
      /\ Fits(Now, job) /\ ~phys.fatal
  BY NowFacts DEF LifeInv
<1>2. SUFFICES UNCHANGED <<job, rsv, use>> /\ Fits(Now', job) /\ ~phys'.fatal
  <2>1. UNCHANGED <<job, rsv, use>>
    BY DEF Provides, ClockPasses, TimerFires, ProviderSettles, Continues, Invokes
  <2> QED BY <1>2, <2>1, RestKept DEF RestAsIs, LifeInv, LifeTypeOK
<1>3. CASE ClockPasses(w)
  <2> DEFINE n == [phys.slot[w] EXCEPT
                     !.time = IF phys.slot[w].phase = "accepting" /\ phys.slot[w].time = "early"
                              THEN "due" ELSE "over"]
  <2>1. phys' = [phys EXCEPT !.slot = [phys.slot EXCEPT ![w] = n]]
    BY <1>1, <1>3 DEF ClockPasses, Settlements
  <2>2. /\ n \in Slots /\ n.group = phys.slot[w].group /\ n.phase = phys.slot[w].phase
        /\ n.pending = phys.slot[w].pending
    BY <1>1 DEF Slots
  <2> HIDE DEF n
  <2>3. /\ phys' \in Settlements /\ phys'.stop = phys.stop /\ phys'.life = phys.life
        /\ phys'.broken = phys.broken /\ phys'.stray = phys.stray /\ phys'.fatal = phys.fatal
        /\ \A v \in Works : phys'.slot[v] = IF v = w THEN n ELSE phys.slot[v]
    BY <1>1, <2>1, <2>2 DEF Settlements
  <2>4. Settled(phys') BY <1>1, <2>2, <2>3 DEF Settled, PendingIsKnown, StopIsFinal, Active
  <2> QED BY <1>1, <1>3, <2>3, <2>4, SlotFits DEF ClockPasses
<1>4. CASE TimerFires(w)
  <2> DEFINE n == enforceElapsedBoundaries(phys.slot[w])
  <2>1. n \in Slots /\ Moves(phys.slot[w], n) BY <1>1, EnforceMoves DEF Moves
  <2>2. Physical(WithSlot(phys, w, n), Context(w)) BY <1>4 DEF TimerFires
  <2> HIDE DEF n
  <2> QED BY <1>1, <1>4, <2>1, <2>2, WithSlotSettled, PhysicalFits DEF TimerFires
<1>5. CASE ProviderSettles(w)
  <2>1. PICK ok \in BOOLEAN :
          Physical(WithSlot(phys, w, observeProvider(phys.slot[w], ok)), Context(w))
    BY <1>5 DEF ProviderSettles
  <2> DEFINE n == observeProvider(phys.slot[w], ok)
  <2>2. n \in Slots /\ Moves(phys.slot[w], n) BY <1>1, ObserveMoves DEF Moves
  <2> HIDE DEF n
  <2> QED BY <1>1, <1>5, <2>1, <2>2, WithSlotSettled, PhysicalFits DEF ProviderSettles, n
<1>6. CASE Continues(w)
  <2>1. Settled(phys') /\ phys'.stop = phys.stop /\ phys'.fatal = phys.fatal
    BY <1>1, <1>6, ConsumedSettled DEF Continues
  <2> QED BY <1>1, <1>6, <2>1, SlotFits DEF Continues
<1>7. ASSUME NEW g \in reach[w], Invokes(w, g)
      PROVE  UNCHANGED <<job, rsv, use>> /\ Fits(Now', job) /\ ~phys'.fatal
  <2>1. g \in Groups BY DEF LifeInv, LifeTypeOK
  <2> QED BY <1>7, <2>1, SettledValueFits DEF Invokes
<1> QED BY <1>3, <1>4, <1>5, <1>6, <1>7 DEF Provides

\* A step of scheduler, controller and deployment alone: the parts it leaves
\* fit as they are.
LEMMA ProcessFits ==
    ASSUME LifeInv, UNCHANGED <<reach, phys, job, rsv, use>>,
           sched' \in Schedulers, ctl' \in Controllers, dep' \in Deployment,
           SchedulerFits(Now'), ControllerFits(Now', job), DeploymentFits(Now'),
           StoppedWell(Now')
    PROVE  LifeInv'
<1>1. Fits(Now', job') BY DEF LifeInv, Fits, Parts, Now
<1> QED BY <1>1, RestKept DEF RestAsIs, LifeInv, LifeTypeOK

LEMMA SchedulesInv ==
    ASSUME LifeInv, Schedules, UNCHANGED reach
    PROVE  LifeInv'
<1>1. /\ sched \in Schedulers /\ ctl \in Controllers /\ dep \in Deployment
      /\ Fits(Now, job)
  BY NowFacts DEF LifeInv
<1>2. CASE StepSettles
  <2>1. sched' \in Schedulers /\ ctl' \in Controllers
    BY <1>1, <1>2 DEF StepSettles, settleStep, Schedulers, Controllers
  <2>2. SchedulerFits(Now') /\ ControllerFits(Now', job)
    BY <1>1, <1>2 DEF StepSettles, settleStep, Schedulers, Controllers, Fits, SchedulerFits,
       ControllerFits, Now
  <2>3. DeploymentFits(Now') /\ StoppedWell(Now')
    BY <1>1, <1>2 DEF StepSettles, Controllers, Fits, DeploymentFits, StoppedWell, Now
  <2> QED BY <1>1, <1>2, <2>1, <2>2, <2>3, ProcessFits DEF StepSettles
<1>3. CASE LoopContinues
  <2>1. sched' \in Schedulers BY <1>1, <1>3 DEF LoopContinues, runLoop, Schedulers, Outcomes
  <2>2. SchedulerFits(Now') /\ ControllerFits(Now', job)
    BY <1>1, <1>3 DEF LoopContinues, runLoop, Schedulers, Fits, SchedulerFits,
       ControllerFits, Now, Outcomes
  <2>3. DeploymentFits(Now') /\ StoppedWell(Now')
    BY <1>1, <1>3 DEF LoopContinues, Fits, DeploymentFits, StoppedWell, Now
  <2> QED BY <1>1, <1>3, <2>1, <2>2, <2>3, ProcessFits DEF LoopContinues
<1>4. CASE IntervalEnds
  <2>1. sched' \in Schedulers BY <1>1, <1>4 DEF IntervalEnds, Schedulers
  <2>2. SchedulerFits(Now') /\ ControllerFits(Now', job)
    BY <1>1, <1>4 DEF IntervalEnds, Schedulers, Fits, SchedulerFits, ControllerFits, Now
  <2>3. DeploymentFits(Now') /\ StoppedWell(Now')
    BY <1>1, <1>4 DEF IntervalEnds, Fits, DeploymentFits, StoppedWell, Now
  <2> QED BY <1>1, <1>4, <2>1, <2>2, <2>3, ProcessFits DEF IntervalEnds
<1> QED BY <1>2, <1>3, <1>4 DEF Schedules

\* The catch of startInternal.
LEMMA ControllerUndoesInv ==
    ASSUME LifeInv, ctl.start \in {"migrate", "step"}, ControllerUndoes,
           UNCHANGED <<reach, phys, dep, job, rsv, use>>
    PROVE  LifeInv'
<1>1. /\ sched \in Schedulers /\ ctl \in Controllers /\ dep \in Deployment
      /\ Fits(Now, job)
  BY NowFacts DEF LifeInv
<1>2. sched' \in Schedulers /\ ctl' \in Controllers
  BY <1>1, SchedulerStopType DEF ControllerUndoes, Controllers
<1>3. Now \in Parts /\ Now' \in Parts /\ Now.sched = sched /\ Now'.sched = sched'
  BY <1>1, <1>2 DEF Fits, Parts, Now
<1>4. SchedulerFits(Now') BY <1>1, <1>3, SchedulerStopFits DEF ControllerUndoes, Fits
<1>5. ControllerFits(Now', job)
  BY <1>1 DEF ControllerUndoes, Controllers, Fits, ControllerFits, Now
<1>6. DeploymentFits(Now') /\ StoppedWell(Now')
  BY <1>1 DEF ControllerUndoes, Controllers, Fits, ControllerFits, DeploymentFits,
     StoppedWell, Now
<1> QED BY <1>1, <1>2, <1>4, <1>5, <1>6, ProcessFits

LEMMA ControlsInv ==
    ASSUME LifeInv, Controls, UNCHANGED reach
    PROVE  LifeInv'
<1>1. /\ sched \in Schedulers /\ ctl \in Controllers /\ dep \in Deployment
      /\ Fits(Now, job)
  BY NowFacts DEF LifeInv
<1>2. CASE observeSchedulerCompletion
  <2>1. ctl' \in Controllers BY <1>1, <1>2 DEF observeSchedulerCompletion, Controllers
  <2>2. SchedulerFits(Now') /\ ControllerFits(Now', job)
    BY <1>1, <1>2 DEF observeSchedulerCompletion, Controllers, Fits, SchedulerFits,
       ControllerFits, Now, Outcomes
  <2>3. DeploymentFits(Now') /\ StoppedWell(Now')
    BY <1>1, <1>2 DEF observeSchedulerCompletion, Controllers, Fits, DeploymentFits,
       StoppedWell, Now
  <2> QED BY <1>1, <1>2, <2>1, <2>2, <2>3, ProcessFits DEF observeSchedulerCompletion
<1>3. CASE Migrated
  <2>1. CASE ControllerUndoes BY <1>3, <2>1, ControllerUndoesInv DEF Migrated
  <2>2. CASE /\ ctl.state = "starting" /\ sched' = schedulerStart(sched)
             /\ ctl' = [ctl EXCEPT !.start = "step"]
    <3>1. sched' \in Schedulers /\ ctl' \in Controllers
      BY <1>1, <2>2 DEF schedulerStart, Schedulers, Controllers
    <3>2. SchedulerFits(Now') /\ ControllerFits(Now', job)
      BY <1>1, <1>3, <2>2 DEF Migrated, schedulerStart, Schedulers, Controllers, Fits,
         SchedulerFits, ControllerFits, Now, Outcomes
    <3>3. DeploymentFits(Now') /\ StoppedWell(Now')
      BY <1>1, <1>3, <2>2 DEF Migrated, Controllers, Fits, ControllerFits, DeploymentFits,
         StoppedWell, Now, Outcomes
    <3> QED BY <1>1, <1>3, <3>1, <3>2, <3>3, ProcessFits DEF Migrated
  <2> QED BY <1>3, <2>1, <2>2 DEF Migrated
<1>4. CASE validateInitialRecoveryReceipt
  <2>1. CASE ControllerUndoes
    BY <1>4, <2>1, ControllerUndoesInv DEF validateInitialRecoveryReceipt
  <2>2. CASE /\ ctl.state = "starting" /\ UNCHANGED sched
             /\ ctl' = [ctl EXCEPT !.start = "ok", !.state = "ready"]
    <3>1. ctl' \in Controllers BY <1>1, <2>2 DEF Controllers
    <3>2. SchedulerFits(Now') /\ ControllerFits(Now', job)
      BY <1>1, <2>2 DEF Controllers, Fits, SchedulerFits, ControllerFits, Now, Outcomes
    <3>3. DeploymentFits(Now') /\ StoppedWell(Now')
      BY <1>1, <1>4, <2>2 DEF validateInitialRecoveryReceipt, Controllers, Fits,
         DeploymentFits, StoppedWell, Now
    <3> QED BY <1>1, <1>4, <2>2, <3>1, <3>2, <3>3, ProcessFits DEF
      validateInitialRecoveryReceipt
  <2> QED BY <1>4, <2>1, <2>2 DEF validateInitialRecoveryReceipt
<1>5. CASE stopSchedulerAfterStartFailure
  <2>1. ctl' \in Controllers BY <1>1, <1>5 DEF stopSchedulerAfterStartFailure, Controllers
  <2>2. SchedulerFits(Now') /\ ControllerFits(Now', job)
    BY <1>1, <1>5 DEF stopSchedulerAfterStartFailure, Controllers, Fits, SchedulerFits,
       ControllerFits, Now, Outcomes
  <2>3. DeploymentFits(Now') /\ StoppedWell(Now')
    BY <1>1, <1>5 DEF stopSchedulerAfterStartFailure, Controllers, Fits, DeploymentFits,
       StoppedWell, Now
  <2> QED BY <1>1, <1>5, <2>1, <2>2, <2>3, ProcessFits DEF stopSchedulerAfterStartFailure
<1>6. CASE ControllerStops
  <2>1. ctl' \in Controllers BY <1>1, <1>6 DEF ControllerStops, Controllers, Stops, Outcomes
  <2>2. SchedulerFits(Now') /\ ControllerFits(Now', job)
    BY <1>1, <1>6 DEF ControllerStops, ControllerDrained, Controllers, Fits, SchedulerFits,
       ControllerFits, Now, Outcomes
  <2>3. DeploymentFits(Now') /\ StoppedWell(Now')
    BY <1>1, <1>6 DEF ControllerStops, Controllers, Fits, DeploymentFits, StoppedWell, Now,
       Outcomes
  <2> QED BY <1>1, <1>6, <2>1, <2>2, <2>3, ProcessFits DEF ControllerStops
<1> QED BY <1>2, <1>3, <1>4, <1>5, <1>6 DEF Controls

LEMMA DeploysInv ==
    ASSUME LifeInv, Deploys, UNCHANGED reach
    PROVE  LifeInv'
<1>1. /\ sched \in Schedulers /\ ctl \in Controllers /\ dep \in Deployment
      /\ Fits(Now, job) /\ Now.dep = dep /\ job \in [Callers -> {"out", "in"}]
  BY NowFacts DEF LifeInv, LifeTypeOK, Now
<1>2. ASSUME Fits(Now', job), ~phys'.fatal, UNCHANGED <<job, rsv, use>>
      PROVE  LifeInv'
  BY <1>1, <1>2, RestKept DEF RestAsIs
<1>3. CASE deploymentStart
  <2>1. dep' \in Deployment BY <1>1, <1>3 DEF deploymentStart, Deployment
  <2>2. SchedulerFits(Now') /\ ControllerFits(Now', job)
    BY <1>1, <1>3 DEF deploymentStart, Fits, SchedulerFits, ControllerFits, Now
  <2>3. DeploymentFits(Now') /\ StoppedWell(Now')
    BY <1>1, <1>3 DEF deploymentStart, Deployment, Fits, DeploymentFits, StoppedWell, Now
  <2> QED BY <1>1, <1>3, <2>1, <2>2, <2>3, ProcessFits DEF deploymentStart
<1>4. CASE topologyPreflight
  <2>1. CASE Becomes(AfterFatal(startFails(Now), "outside"))
    <3>1. Fits(startFails(Now), job) BY <1>1, <1>4, StartFailsFits DEF topologyPreflight
    <3> QED BY <1>2, <1>4, <2>1, <3>1, FatalBecomesFits DEF topologyPreflight
  <2>2. CASE /\ dep.state = "starting" /\ dep' = [dep EXCEPT !.start = "controller"]
             /\ ctl' = [ctl EXCEPT !.state = "starting", !.start = "migrate"]
             /\ UNCHANGED <<phys, sched>>
    <3>1. dep' \in Deployment /\ ctl' \in Controllers
      BY <1>1, <2>2 DEF Deployment, Controllers
    <3>2. /\ dep.stop = "none" /\ ctl.stop = "none" /\ ctl.start = "none"
          /\ sched.state = "idle"
      BY <1>1, <1>4, <2>2 DEF topologyPreflight, Fits, DeploymentFits, ControllerFits, Now
    <3>3. SchedulerFits(Now') /\ ControllerFits(Now', job)
      BY <1>1, <2>2, <3>2 DEF Controllers, Fits, SchedulerFits, ControllerFits, Now,
         Outcomes
    <3>4. DeploymentFits(Now') /\ StoppedWell(Now')
      BY <1>1, <2>2, <3>2 DEF Deployment, Controllers, Fits, DeploymentFits, StoppedWell,
         Now
    <3> QED BY <1>1, <1>4, <2>2, <3>1, <3>3, <3>4, ProcessFits DEF topologyPreflight
  <2> QED BY <1>4, <2>1, <2>2 DEF topologyPreflight
<1>5. CASE ControllerStarted
  <2>1. CASE Becomes(AfterFatal(startFails(Now), "outside"))
    <3>1. Fits(startFails(Now), job) BY <1>1, <1>5, StartFailsFits DEF ControllerStarted
    <3> QED BY <1>2, <1>5, <2>1, <3>1, FatalBecomesFits DEF ControllerStarted
  <2>2. CASE /\ dep.state = "starting"
             /\ dep' = [dep EXCEPT !.state = "ready", !.start = "ok"]
             /\ UNCHANGED <<phys, sched, ctl>>
    <3>1. dep' \in Deployment BY <1>1, <2>2 DEF Deployment
    <3>2. SchedulerFits(Now') /\ ControllerFits(Now', job)
      BY <1>1, <2>2 DEF Fits, SchedulerFits, ControllerFits, Now
    <3>3. DeploymentFits(Now') /\ StoppedWell(Now')
      BY <1>1, <2>2 DEF Deployment, Fits, DeploymentFits, StoppedWell, Now
    <3> QED BY <1>1, <1>5, <2>2, <3>1, <3>2, <3>3, ProcessFits DEF ControllerStarted
  <2> QED BY <1>5, <2>1, <2>2 DEF ControllerStarted
<1>6. CASE StartCleanedUp
  <2>1. dep' \in Deployment BY <1>1, <1>6 DEF StartCleanedUp, Deployment
  <2>2. SchedulerFits(Now') /\ ControllerFits(Now', job)
    BY <1>1, <1>6 DEF StartCleanedUp, Fits, SchedulerFits, ControllerFits, Now
  <2>3. DeploymentFits(Now') /\ StoppedWell(Now')
    BY <1>1, <1>6 DEF StartCleanedUp, Deployment, Fits, DeploymentFits, StoppedWell, Now
  <2> QED BY <1>1, <1>6, <2>1, <2>2, <2>3, ProcessFits DEF StartCleanedUp
<1>7. CASE deploymentStop
  <2>1. Fits(beginStop(Now, FALSE, "outside"), job) BY <1>1, BeginStopFits
  <2> QED BY <1>2, <1>7, <2>1, FatalBecomesFits DEF deploymentStop
<1>8. CASE handlePoolError
  <2>1. Fits(beginStop(Now, TRUE, "outside"), job) BY <1>1, BeginStopFits
  <2>2. PICK context : Becomes(AfterFatal(beginStop(Now, TRUE, "outside"), context))
    BY <1>8 DEF handlePoolError, fatalScope
  <2> QED BY <1>2, <1>8, <2>1, <2>2, FatalBecomesFits DEF handlePoolError
<1>9. CASE StopsSettled
  <2>1. dep' \in Deployment BY <1>1, <1>9 DEF StopsSettled, Deployment
  <2>2. SchedulerFits(Now') /\ ControllerFits(Now', job)
    BY <1>1, <1>9 DEF StopsSettled, Fits, SchedulerFits, ControllerFits, Now
  <2>3. DeploymentFits(Now') /\ StoppedWell(Now')
    BY <1>1, <1>9 DEF StopsSettled, AllGroupsStopped, Deployment, Fits, DeploymentFits,
       StoppedWell, Now
  <2> QED BY <1>1, <1>9, <2>1, <2>2, <2>3, ProcessFits DEF StopsSettled
<1>10. CASE closePools
  <2>1. dep' \in Deployment BY <1>1, <1>10 DEF closePools, Deployment, Outcomes
  <2>2. SchedulerFits(Now') /\ ControllerFits(Now', job)
    BY <1>1, <1>10 DEF closePools, Fits, SchedulerFits, ControllerFits, Now
  <2>3. DeploymentFits(Now') /\ StoppedWell(Now')
    BY <1>1, <1>10 DEF closePools, lifecycleStopFailed, Deployment, Fits, DeploymentFits,
       StoppedWell, Now, Outcomes
  <2> QED BY <1>1, <1>10, <2>1, <2>2, <2>3, ProcessFits DEF closePools
<1> QED BY <1>3, <1>4, <1>5, <1>6, <1>7, <1>8, <1>9, <1>10 DEF Deploys

-----------------------------------------------------------------------------
(* The theorems.                                                           *)

LEMMA LifeInitInv ==
    ASSUME DeploymentAssumption, LifecycleInit
    PROVE  LifeInv
<1>1. Idle \in Slots /\ ~Active(Idle) /\ ~Idle.pending
  BY DEF Idle, Slots, SlotPhases, Active
<1>2. NewSettlements \in Settlements BY <1>1 DEF NewSettlements, Settlements, Lives, Stops
<1>3. Settled(NewSettlements) /\ ~NewSettlements.fatal
  BY <1>1, <1>2 DEF NewSettlements, Settled, PendingIsKnown, StopIsFinal, Outcomes
<1>4. Now \in Parts
  BY <1>2 DEF LifecycleInit, NewScheduler, Now, Parts, Schedulers, Controllers, Deployment,
     Stops
<1>5. /\ SchedulerFits(Now) /\ ControllerFits(Now, job) /\ DeploymentFits(Now)
      /\ StoppedWell(Now)
  BY DEF LifecycleInit, NewScheduler, Now, SchedulerFits, ControllerFits, DeploymentFits,
     StoppedWell, Outcomes
<1>6. LifeTypeOK /\ ReservationFits
  BY DEF LifecycleInit, DeploymentAssumption, LifeTypeOK, NoReservation, Reservations, Uses,
     ReservationFits, Inspecting
<1> QED BY <1>3, <1>4, <1>5, <1>6 DEF LifecycleInit, LifeInv, Fits, Now

LEMMA LifeStepInv ==
    ASSUME DeploymentAssumption, LifeInv, [LifecycleNext]_lifeVars
    PROVE  LifeInv'
<1>1. ASSUME NEW c \in Callers, Calls(c), UNCHANGED reach
      PROVE  LifeInv'
  BY <1>1, RunIngressInv, IngressReturnsInv, PrepareInv, UseRefusedInv, UseReservationInv,
     ReservationUsedInv DEF Calls
<1>2. CASE UNCHANGED lifeVars
  <2>1. Fits(Now, job)' BY <1>2 DEF LifeInv, Now, lifeVars
  <2> QED BY <1>2, <2>1 DEF lifeVars, LifeInv, LifeTypeOK, ReservationFits, Inspecting
<1> QED BY <1>1, <1>2, ProvidesInv, SchedulesInv, ControlsInv, DeploysInv DEF LifecycleNext

LEMMA LifeInvariance ==
    ASSUME DeploymentAssumption
    PROVE  LifecycleSpec => []LifeInv
BY LifeInitInv, LifeStepInv, PTL DEF LifecycleSpec

\* The pools are closed under nobody: while one is closing or closed no
\* admitted call is in flight, no recovery step runs and no start is at its
\* preflight or its migration, whoever began the stop and wherever an error
\* came from (awaitControllerAndSettlementStops, fatalScope).
THEOREM PoolsOutlive == LifecycleSpec => []PoolsOutliveWork
<1>1. LifeInv => PoolsOutliveWork
  <2> SUFFICES ASSUME LifeInv, dep.pools # "open"
               PROVE  /\ \A w \in Works : ~Working(w)
                      /\ dep.start # "preflight" /\ ctl.start \notin {"migrate", "step"}
    BY DEF PoolsOutliveWork
  <2>1. /\ dep.start # "preflight" /\ ctl.stop \in Outcomes
        /\ sched.completion # "none" /\ ctl.start \notin {"migrate", "step"}
        /\ \A c \in Callers : job[c] = "out"
    BY DEF LifeInv, Fits, DeploymentFits, ControllerFits, Now
  <2>2. sched.loop # "step" BY <2>1 DEF LifeInv, Fits, SchedulerFits, Now
  <2> QED BY <2>1, <2>2, DeploymentAssumption DEF DeploymentAssumption, Working
<1> QED BY <1>1, LifeInvariance, DeploymentAssumption, PTL

\* A deployment that says it has stopped has no provider running, has given up
\* none and has swallowed no error; a quiescent group that has settled its stop
\* has no provider any more (maybeCompleteStop, breachRecord, closePools).
THEOREM StoppedQuiet == LifecycleSpec => []StoppedIsQuiet
<1>1. LifeInv => StoppedIsQuiet
  <2> SUFFICES ASSUME LifeInv PROVE StoppedIsQuiet
    OBVIOUS
  <2>1. phys \in Settlements /\ Settled(phys) BY NowFacts DEF LifeInv
  <2>2. ASSUME NEW w \in Works, NEW g \in Groups, phys.stop[g] \in Outcomes,
               phys.slot[w].group = g, phys.slot[w].pending
        PROVE  g \in phys.broken \ QuiescentGroups
    BY <2>1, <2>2 DEF Settled, PendingIsKnown, StopIsFinal
  <2>3. CASE dep.state = "stopped"
    <3>1. ~dep.fatal /\ \A g \in Groups : phys.stop[g] = "resolved"
      BY <2>3 DEF LifeInv, Fits, StoppedWell, Now
    <3>2. phys.broken = {} BY <2>1, <3>1 DEF Settled, Settlements, StopIsFinal
    <3>3. phys.stray = {} BY <2>1, <3>2 DEF Settled
    <3>4. \A w \in Works : ~phys.slot[w].pending
      BY <2>1, <2>2, <3>1, <3>2 DEF Settled, PendingIsKnown, Outcomes
    <3> QED BY <2>2, <3>1, <3>2, <3>3, <3>4, SettlementAssumption DEF SettlementAssumption,
      StoppedIsQuiet
  <2>4. CASE dep.state # "stopped"
    BY <2>2, <2>4, SettlementAssumption DEF SettlementAssumption, StoppedIsQuiet
  <2> QED BY <2>3, <2>4
<1> QED BY <1>1, LifeInvariance, DeploymentAssumption, PTL

\* A reservation that was consumed or revoked stays so, and no call comes to
\* hold its consumption, though a use that began before is still at its
\* inspection (the finally of a use, revalidated).
THEOREM ReservationEnds == LifecycleSpec => ReservationEndsForGood
<1> DEFINE Ends == rsv.binding \in {"consumed", "revoked"} =>
                      /\ rsv'.binding = rsv.binding
                      /\ \A c \in Callers : use'[c] = "holds" => use[c] = "holds"
<1>1. ASSUME LifeInv, [LifecycleNext]_lifeVars
      PROVE  [Ends]_lifeVars
  <2> SUFFICES ASSUME rsv.binding \in {"consumed", "revoked"}
               PROVE  Ends
    OBVIOUS
  <2>1. ASSUME NEW c \in Callers, Calls(c)
        PROVE  Ends
    <3>1. CASE runIngress(c) BY <3>1 DEF runIngress
    <3>2. CASE IngressReturns(c) BY <1>1, <3>2 DEF IngressReturns, LifeInv, LifeTypeOK
    <3>3. CASE prepareImageReservation(c) BY <3>3 DEF prepareImageReservation, NoReservation
    <3>4. CASE useRefused(c) BY <1>1, <3>4 DEF useRefused, LifeInv, LifeTypeOK, Reservations
    <3>5. CASE useReservation(c) BY <3>5 DEF useReservation
    <3>6. CASE reservationUsed(c)
      <4>1. rsv.binding = "revoked"
        BY <1>1, <3>6 DEF reservationUsed, LifeInv, ReservationFits, Inspecting
      <4>2. rsv'.binding = "revoked" /\ use' = [use EXCEPT ![c] = "refused"]
        BY <3>6, <4>1 DEF reservationUsed, revalidated
      <4> QED BY <1>1, <4>1, <4>2 DEF LifeInv, LifeTypeOK
    <3> QED BY <2>1, <3>1, <3>2, <3>3, <3>4, <3>5, <3>6 DEF Calls
  <2>2. ASSUME UNCHANGED <<rsv, use>> PROVE Ends
    BY <2>2
  <2>3. (\E w \in Works : Provides(w)) => UNCHANGED <<rsv, use>>
    BY DEF Provides, ClockPasses, TimerFires, ProviderSettles, Continues, Invokes
  <2>4. Schedules \/ Controls => UNCHANGED <<rsv, use>>
    BY DEF Schedules, StepSettles, LoopContinues, IntervalEnds, Controls,
       observeSchedulerCompletion, Migrated, validateInitialRecoveryReceipt,
       stopSchedulerAfterStartFailure, ControllerStops
  <2>5. Deploys => UNCHANGED <<rsv, use>>
    BY DEF Deploys, deploymentStart, topologyPreflight, ControllerStarted, StartCleanedUp,
       deploymentStop, handlePoolError, StopsSettled, closePools
  <2> QED BY <1>1, <2>1, <2>2, <2>3, <2>4, <2>5 DEF LifecycleNext, lifeVars
<1> QED BY <1>1, LifeInvariance, DeploymentAssumption, PTL DEF LifecycleSpec,
  ReservationEndsForGood

=============================================================================
