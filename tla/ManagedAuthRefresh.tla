------------------------ MODULE ManagedAuthRefresh ------------------------
(***************************************************************************)
(* One managed refresh of the credential in an authority home: the lock,   *)
(* the staging attempt that is durable before the token may be sent, the   *)
(* app-server that sends it, the synchronization of what it wrote, and the *)
(* promotion by rename.  An attempt or a candidate that is left behind     *)
(* stops every later refresh until an operator has looked at it.           *)
(*                                                                         *)
(* A credential is a number; 0 is none.  Zero is also no file.             *)
(***************************************************************************)
EXTENDS Naturals, FiniteSets

CONSTANTS
    Procs,          \* processes with an authority object
    Nobody,
    MaxCalls,       \* bound: refreshes of one process
    MaxToken,       \* bound: credentials ever issued
    MaxFaults       \* bound: failures, crashes, logins

ASSUME RefreshAssumption ==
    /\ Nobody \notin Procs
    /\ MaxCalls \in Nat /\ MaxToken \in Nat \ {0} /\ MaxFaults \in Nat

VARIABLES
    canonical,      \* auth.json: what a reader sees, what a power loss leaves
    staging,        \* the staging attempt of each call
    temp,           \* the promotion candidate of each call
    server,         \* the app-server of each call
    issued, sent,   \* the token service: how many credentials, who was sent
    secured,        \* refreshed credentials that were synchronized
    over,           \* credentials an interactive login replaced
    lock, call, faults

vars == <<canonical, staging, temp, server, issued, sent, secured, over,
          lock, call, faults>>
service == <<issued, sent>>
ghosts == <<secured, over>>

Tokens == 1..MaxToken
Attempts == Procs \X (1..MaxCalls)
NoAttempt == [dir |-> FALSE, ddir |-> FALSE, cred |-> 0, dcred |-> 0]
NoServer == [run |-> "off", net |-> "idle", result |-> "none"]
NoRefresh == [pc |-> "idle", n |-> 0, before |-> 0, err |-> FALSE, warned |-> FALSE]

Fault == faults < MaxFaults /\ faults' = faults + 1

Mine(p) == <<p, call[p].n>>
At(p, pc) == call[p].pc = pc
Held(p) == lock = p
Go(p, pc) == call' = [call EXCEPT ![p].pc = pc]

-----------------------------------------------------------------------------
(* refresh joins the call in flight, so a process has one at a time.       *)
Acquire(p) ==
    /\ At(p, "idle")
    /\ call[p].n < MaxCalls
    /\ lock = Nobody
    /\ lock' = p
    /\ call' = [call EXCEPT ![p] = [NoRefresh EXCEPT !.pc = "scan", !.n = call[p].n + 1]]
    /\ UNCHANGED <<canonical, staging, temp, server, service, ghosts, faults>>

Release(p) ==
    /\ At(p, "release")
    /\ lock' = IF Held(p) THEN Nobody ELSE lock
    /\ Go(p, "idle")
    /\ UNCHANGED <<canonical, staging, temp, server, service, ghosts, faults>>

\* Mutant: only the promotion candidates are looked for.
CandidatesOnly == {a \in Attempts : temp[a] # 0}

findRecoveryArtifacts == {a \in Attempts : temp[a] # 0 \/ staging[a].dir}

Scan(p) ==
    /\ At(p, "scan")
    /\ Go(p, IF findRecoveryArtifacts # {} THEN "release" ELSE "read")
    /\ UNCHANGED <<canonical, staging, temp, server, service, ghosts, lock, faults>>

readManagedAuthSnapshot(p) ==
    /\ At(p, "read")
    /\ call' = [call EXCEPT ![p].pc = "mkdir", ![p].before = canonical.live]
    /\ UNCHANGED <<canonical, staging, temp, server, service, ghosts, lock, faults>>

-----------------------------------------------------------------------------
(* createStagingHome.                                                      *)
MakeAttempt(p) ==
    /\ At(p, "mkdir")
    /\ \/ /\ staging' = [staging EXCEPT ![Mine(p)].dir = TRUE]
          /\ Go(p, "record") /\ UNCHANGED faults
       \/ Fault /\ Go(p, "release") /\ UNCHANGED staging
    /\ UNCHANGED <<canonical, temp, server, service, ghosts, lock>>

RecordAttempt(p) ==
    /\ At(p, "record")
    /\ \/ /\ staging' = [staging EXCEPT ![Mine(p)].ddir = TRUE]
          /\ Go(p, "fill") /\ UNCHANGED faults
       \/ Fault /\ Go(p, "discard") /\ UNCHANGED staging
    /\ UNCHANGED <<canonical, temp, server, service, ghosts, lock>>

FillAttempt(p) ==
    LET b == call[p].before IN
    /\ At(p, "fill")
    /\ \/ /\ staging' = [staging EXCEPT ![Mine(p)].cred = b, ![Mine(p)].dcred = b]
          /\ Go(p, "start") /\ UNCHANGED faults
       \/ /\ Fault /\ Go(p, "discard")
          /\ \E left \in {0, b} : staging' = [staging EXCEPT ![Mine(p)].cred = left]
    /\ UNCHANGED <<canonical, temp, server, service, ghosts, lock>>

(* The attempt of a failed setup, of a refresh that was never sent or of a *)
(* promoted one is removed; its parent is not synchronized.                *)
removeStagingAttempt(p) ==
    \/ staging' = [staging EXCEPT ![Mine(p)].dir = FALSE, ![Mine(p)].cred = 0]
       /\ UNCHANGED faults
    \/ /\ Fault
       /\ \E left \in {0, staging[Mine(p)].cred} :
            staging' = [staging EXCEPT ![Mine(p)].cred = left]

Discard(p) ==
    /\ At(p, "discard")
    /\ removeStagingAttempt(p)
    /\ Go(p, "release")
    /\ UNCHANGED <<canonical, temp, server, service, ghosts, lock>>

cleanupManagedRefreshArtifacts(p) ==
    /\ At(p, "remove")
    /\ removeStagingAttempt(p)
    /\ Go(p, "release")
    /\ UNCHANGED <<canonical, temp, server, service, ghosts, lock>>

-----------------------------------------------------------------------------
(* runRefreshWhileLockHeld around the app-server adapter.                  *)
Start(p) ==
    /\ At(p, "start")
    /\ IF Held(p)
       THEN server' = [server EXCEPT ![Mine(p)].run = "up"] /\ Go(p, "ask")
       ELSE Go(p, "unsent") /\ UNCHANGED server
    /\ UNCHANGED <<canonical, staging, temp, service, ghosts, lock, faults>>

(* Stopping the app-server: confirmed, or it may still be running.         *)
Stopped(p, err, pc) ==
    \/ /\ server' = [server EXCEPT ![Mine(p)] = NoServer]
       /\ call' = [call EXCEPT ![p].pc = pc, ![p].err = err]
       /\ UNCHANGED faults
    \/ Fault /\ Go(p, "release") /\ UNCHANGED server

Ask(p) ==
    /\ At(p, "ask")
    /\ IF Held(p)
       THEN /\ server' = [server EXCEPT ![Mine(p)].run = "asked"]
            /\ Go(p, "wait") /\ UNCHANGED faults
       ELSE Stopped(p, TRUE, "unsent")
    /\ UNCHANGED <<canonical, staging, temp, service, ghosts, lock>>

StartFails(p) ==
    /\ At(p, "ask")
    /\ Fault
    /\ \/ server' = [server EXCEPT ![Mine(p)] = NoServer] /\ Go(p, "unsent")
       \/ Go(p, "release") /\ UNCHANGED server
    /\ UNCHANGED <<canonical, staging, temp, service, ghosts, lock>>

(* The loss of the lock aborts the app-server at any time.                 *)
Abort(p) ==
    /\ call[p].pc \in {"ask", "wait"}
    /\ ~Held(p)
    /\ Stopped(p, TRUE, "sync")
    /\ UNCHANGED <<canonical, staging, temp, service, ghosts, lock>>

Responded(p) ==
    /\ At(p, "wait")
    /\ server[Mine(p)].result # "none"
    /\ Stopped(p, server[Mine(p)].result = "error", "sync")
    /\ UNCHANGED <<canonical, staging, temp, service, ghosts, lock>>

TimesOut(p) ==
    /\ At(p, "wait")
    /\ Fault
    /\ \/ /\ server' = [server EXCEPT ![Mine(p)] = NoServer]
          /\ call' = [call EXCEPT ![p].pc = "sync", ![p].err = TRUE]
       \/ Go(p, "release") /\ UNCHANGED server
    /\ UNCHANGED <<canonical, staging, temp, service, ghosts, lock>>

(* handleChangedPreDispatchStaging: a failure before the request removes   *)
(* the attempt only if the credential in it did not change.                *)
Unsent(p) ==
    LET s == staging[Mine(p)] IN
    /\ At(p, "unsent")
    /\ IF s.cred = call[p].before
       THEN Go(p, "remove") /\ UNCHANGED <<staging, secured, faults>>
       ELSE /\ Go(p, "release")
            /\ \/ /\ staging' = [staging EXCEPT ![Mine(p)].dcred = s.cred]
                  /\ secured' = secured \cup ({s.cred} \ {0})
                  /\ UNCHANGED faults
               \/ Fault /\ UNCHANGED <<staging, secured>>
    /\ UNCHANGED <<canonical, temp, server, service, over, lock>>

(* The app-server answers what it was asked, having refreshed or not.  One *)
(* that refreshes of its own accord before it is asked is assumed to have  *)
(* written what it got before it can be stopped: that is all the caller    *)
(* can see of it.                                                          *)
Gets(a) ==
    /\ issued' = issued + 1
    /\ staging' = [staging EXCEPT ![a].cred = IF staging[a].dir THEN issued + 1 ELSE 0]

Sends(a) ==
    /\ server[a].net = "idle" /\ server[a].result = "none"
    /\ staging[a].cred # 0
    /\ issued < MaxToken
    /\ sent' = [sent EXCEPT ![staging[a].cred] = @ + 1]

AppRefreshes(a) ==
    /\ server[a].run = "up"
    /\ Sends(a) /\ Gets(a)
    /\ UNCHANGED <<canonical, temp, server, ghosts, lock, call, faults>>

AppSends(a) ==
    /\ server[a].run = "asked"
    /\ Sends(a)
    /\ server' = [server EXCEPT ![a].net = "sent"]
    /\ UNCHANGED <<canonical, staging, temp, issued, ghosts, lock, call, faults>>

AppReceives(a) ==
    /\ server[a].net = "sent"
    /\ \/ /\ issued < MaxToken
          /\ Gets(a)
          /\ server' = [server EXCEPT ![a] = [@ EXCEPT !.net = "idle", !.result = "ok"]]
       \/ /\ server' = [server EXCEPT ![a] = [@ EXCEPT !.net = "idle", !.result = "error"]]
          /\ UNCHANGED <<issued, staging>>
    /\ UNCHANGED <<canonical, temp, sent, ghosts, lock, call, faults>>

AppAnswers(a) ==
    /\ server[a].run = "asked" /\ server[a].net = "idle" /\ server[a].result = "none"
    /\ \E r \in {"ok", "error"} : server' = [server EXCEPT ![a].result = r]
    /\ UNCHANGED <<canonical, staging, temp, service, ghosts, lock, call, faults>>

-----------------------------------------------------------------------------
(* From here on every failure keeps the attempt.                           *)
syncRefreshedStagingAuth(p) ==
    LET s == staging[Mine(p)] IN
    /\ At(p, "sync")
    /\ \/ /\ staging' = [staging EXCEPT ![Mine(p)].dcred = s.cred]
          /\ secured' = secured \cup ({s.cred} \ {0, call[p].before})
          /\ Go(p, IF call[p].err THEN "release" ELSE "validate")
          /\ UNCHANGED faults
       \/ Fault /\ Go(p, "release") /\ UNCHANGED <<staging, secured>>
    /\ UNCHANGED <<canonical, temp, server, service, over, lock>>

\* An unchanged credential is refused, a changed one may be (another account,
\* no observable refresh, too short a life).
Validate(p) ==
    /\ At(p, "validate")
    /\ \E good \in BOOLEAN :
         Go(p, IF good /\ Held(p) /\ staging[Mine(p)].cred # call[p].before
               THEN "temp" ELSE "release")
    /\ UNCHANGED <<canonical, staging, temp, server, service, ghosts, lock, faults>>

(* atomicallyPromoteAuth: the candidate, the comparison, the rename.       *)
Candidate(p) ==
    /\ At(p, "temp")
    /\ \/ temp' = [temp EXCEPT ![Mine(p)] = staging[Mine(p)].cred]
          /\ Go(p, "compare") /\ UNCHANGED faults
       \/ /\ Fault /\ Go(p, "release")
          /\ \E left \in {0, staging[Mine(p)].cred} :
               temp' = [temp EXCEPT ![Mine(p)] = left]
    /\ UNCHANGED <<canonical, staging, server, service, ghosts, lock>>

Compare(p) ==
    /\ At(p, "compare")
    /\ IF canonical.live = call[p].before
       THEN Go(p, "rename") /\ UNCHANGED temp
       ELSE Go(p, "release") /\ temp' = [temp EXCEPT ![Mine(p)] = 0]
    /\ UNCHANGED <<canonical, staging, server, service, ghosts, lock, faults>>

Renamed(p) ==
    /\ canonical' = [canonical EXCEPT !.live = temp[Mine(p)]]
    /\ temp' = [temp EXCEPT ![Mine(p)] = 0]

(* The holder of the lock renames; its answer may be lost.                 *)
Rename(p) ==
    /\ At(p, "rename")
    /\ \/ Held(p) /\ Renamed(p) /\ Go(p, "syncdir") /\ UNCHANGED faults
       \/ ~Held(p) /\ temp' = [temp EXCEPT ![Mine(p)] = 0] /\ Go(p, "release")
          /\ UNCHANGED <<canonical, faults>>
       \/ Held(p) /\ Fault /\ Go(p, "release")
          /\ (Renamed(p) \/ UNCHANGED <<canonical, temp>>)
    /\ UNCHANGED <<staging, server, service, ghosts, lock>>

(* A directory that could not be synchronized is a warning.                *)
syncParentDirectory(p) ==
    /\ At(p, "syncdir")
    /\ \/ canonical' = [canonical EXCEPT !.durable = canonical.live]
          /\ Go(p, "verify") /\ UNCHANGED faults
       \/ /\ Fault /\ UNCHANGED canonical
          /\ call' = [call EXCEPT ![p].pc = "verify", ![p].warned = TRUE]
    /\ UNCHANGED <<staging, temp, server, service, ghosts, lock>>

\* Mutant: a verified promotion removes the attempt although the directory
\* could not be synchronized.
Promoted(p) == Held(p) /\ canonical.live = staging[Mine(p)].cred

Removable(p) ==
    /\ Held(p)
    /\ canonical.live = staging[Mine(p)].cred
    /\ ~call[p].warned

Verify(p) ==
    /\ At(p, "verify")
    /\ Go(p, IF Removable(p) THEN "remove" ELSE "release")
    /\ UNCHANGED <<canonical, staging, temp, server, service, ghosts, lock, faults>>

-----------------------------------------------------------------------------
(* The world: a home that is replaced under its path, the death of a       *)
(* process (its app-server may live on), the loss of the lock or of power, *)
(* a login on the side.                                                    *)
AuthorityReplaced(p) ==
    /\ call[p].pc \notin {"idle", "release"}
    /\ Fault
    /\ Go(p, "release")
    /\ server' \in {server, [server EXCEPT ![Mine(p)] = NoServer]}
    /\ UNCHANGED <<canonical, staging, temp, service, ghosts, lock>>

Crash(p) ==
    /\ ~At(p, "idle")
    /\ Fault
    /\ Go(p, "idle")
    /\ lock' = IF Held(p) THEN Nobody ELSE lock
    /\ server' \in {server, [server EXCEPT ![Mine(p)] = NoServer]}
    /\ UNCHANGED <<canonical, staging, temp, service, ghosts>>

LockLost ==
    /\ lock # Nobody
    /\ Fault
    /\ lock' = Nobody
    /\ UNCHANGED <<canonical, staging, temp, server, service, ghosts, call>>

AfterPowerLoss(s) ==
    {[dir |-> d, ddir |-> d, cred |-> c, dcred |-> c] :
        d \in {s.dir, s.ddir}, c \in {s.cred, s.dcred}}

PowerLoss ==
    /\ Fault
    /\ \E c \in {canonical.live, canonical.durable} :
         canonical' = [live |-> c, durable |-> c]
    /\ \E a \in Attempts :
         /\ \E s \in AfterPowerLoss(staging[a]), left \in {0, temp[a]} :
              /\ staging' = [b \in Attempts |->
                   IF b = a THEN IF s.dir THEN s ELSE NoAttempt
                   ELSE [staging[b] EXCEPT !.dir = staging[b].ddir, !.cred = staging[b].dcred]]
              /\ temp' = [temp EXCEPT ![a] = left]
    /\ server' = [a \in Attempts |-> NoServer]
    /\ lock' = Nobody
    /\ call' = [p \in Procs |-> [NoRefresh EXCEPT !.n = call[p].n]]
    /\ UNCHANGED <<service, ghosts>>

Login ==
    /\ Fault
    /\ issued < MaxToken
    /\ issued' = issued + 1
    /\ over' = over \cup {canonical.live}
    /\ canonical' = [live |-> issued + 1, durable |-> issued + 1]
    /\ UNCHANGED <<staging, temp, server, sent, secured, lock, call>>

-----------------------------------------------------------------------------
Init ==
    /\ canonical = [live |-> 1, durable |-> 1]
    /\ staging = [a \in Attempts |-> NoAttempt]
    /\ temp = [a \in Attempts |-> 0]
    /\ server = [a \in Attempts |-> NoServer]
    /\ issued = 1 /\ sent = [t \in Tokens |-> 0]
    /\ secured = {} /\ over = {}
    /\ lock = Nobody
    /\ call = [p \in Procs |-> NoRefresh]
    /\ faults = 0

Setup(p) ==
    \/ Acquire(p) \/ Scan(p) \/ readManagedAuthSnapshot(p)
    \/ MakeAttempt(p) \/ RecordAttempt(p) \/ FillAttempt(p) \/ Discard(p)

Refresh(p) ==
    \/ Start(p) \/ Ask(p) \/ StartFails(p) \/ Abort(p) \/ Responded(p)
    \/ TimesOut(p) \/ Unsent(p) \/ syncRefreshedStagingAuth(p)

Promote(p) ==
    \/ Validate(p) \/ Candidate(p) \/ Compare(p) \/ Rename(p)
    \/ syncParentDirectory(p) \/ Verify(p)
    \/ cleanupManagedRefreshArtifacts(p) \/ Release(p)

App(a) == AppRefreshes(a) \/ AppSends(a) \/ AppReceives(a) \/ AppAnswers(a)

Next ==
    \/ \E p \in Procs : Setup(p) \/ Refresh(p) \/ Promote(p)
    \/ \E a \in Attempts : App(a)
    \/ \E p \in Procs : AuthorityReplaced(p) \/ Crash(p)
    \/ LockLost \/ PowerLoss \/ Login

Spec == Init /\ [][Next]_vars

-----------------------------------------------------------------------------
(* Properties.                                                             *)

\* A refresh token leaves for the service at most once, whatever is lost:
\* the lock between the last check and the request, the process, the power,
\* the answer, or the confirmation that the app-server has stopped.
SentAtMostOnce == \A t \in Tokens : sent[t] <= 1

Kept(t) ==
    \/ canonical.live = t /\ canonical.durable = t
    \/ \E a \in Attempts : /\ staging[a].dir /\ staging[a].ddir
                           /\ staging[a].cred = t /\ staging[a].dcred = t

\* A refreshed credential that was synchronized is never lost again: until it
\* is itself spent, or a login replaced it, it is in auth.json or in a staging
\* attempt, where neither a failed promotion nor a power loss can remove it.
RefreshedIsKept == \A t \in secured \ over : sent[t] = 0 => Kept(t)
=============================================================================
