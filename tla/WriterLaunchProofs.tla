------------------------- MODULE WriterLaunchProofs -------------------------
(***************************************************************************)
(* Proofs about the launcher of the session's writer and its supervisor.   *)
(***************************************************************************)
EXTENDS LogicalWriterLauncher, TLAPS

-----------------------------------------------------------------------------
(* Types.                                                                  *)
Pends == {"none", "torn", "whole", "alias"}
Bys == {"none", "stop", "fence"}
FileRecords == [pend : Pends, live : BOOLEAN, kept : BOOLEAN, by : Bys]
Boxes == {"none", "created", "running", "exited"}
Commands == {"create", "start"}
WritePcs == {"open", "link", "sync"}
RunPcs == {"idle", "read", "authority", "create", "start", "running", "hung", "stop",
           "prove", "list", "observe", "done"} \cup WritePcs
Modes == {"none", "launch", "reconcile", "stop", "fresh", "restop"}
Results == {"none", "started", "failed", "unknown", "proved", "stopped", "not-started",
            "exited"}
RunRecords == [pc : RunPcs, a : Attempts \cup {"none"}, mode : Modes, by : Bys,
               rev : Revisions \cup {NoRecord}, result : Results]

SupervisorTypes ==
    /\ files \in [Attempts -> [Revisions -> FileRecords]]
    /\ box \in [Attempts -> Boxes]
    /\ stray \in SUBSET (Commands \X Attempts)
    /\ run \in [Procs -> RunRecords]
    /\ starts \in [Attempts -> Nat]

LaunchPhases == {"absent", "prepared", "starting", "uncertain", "started"} \cup Ended
StopPhases == {"absent", "prepared", "starting", "uncertain", "stopped"}
FencePhases == {"absent", "prepared", "starting", "uncertain", "fenced", "blocked"}
CapturePhases == {"absent", "prepared", "starting", "captured"}
AuthRecords == [launch : [Attempts -> LaunchPhases], stop : [Attempts -> StopPhases],
                fence : [Attempts -> FencePhases], capture : [Attempts -> CapturePhases],
                token : [Attempts -> Procs \cup {"none"}], handoff : SUBSET Attempts,
                gc : SUBSET Attempts, collected : SUBSET Attempts,
                pointer : Attempts \cup {"none"}]

LaunchPcs == {"reserve", "pread", "claim", "launching", "mark", "ambiguous", "finalize",
              "readback", "read", "cancel", "premark", "reconciling"}
StopPcs == {"sread", "sreserve", "sclaim", "sphase", "sdispatch", "stopping", "smark",
            "sfinalize", "sreadback", "sconfirm"}
FencePcs == {"freserve", "fread", "fclaim", "fencing", "ffinalize", "fblock"}
Evidence == {"none", "started", "not-started", "complete-stopped"}
CallRecords == [pc : LaunchPcs \cup StopPcs \cup FencePcs \cup {"idle"},
                kind : Kinds \cup {"none"}, lock : Locks, a : Attempts \cup {"none"},
                ev : Evidence, seen : LaunchPhases \cup StopPhases \cup {"none"},
                gc : BOOLEAN, tries : Nat]

Routes == Stops \cup {"none"}
HandleRecords == [state : {"none", "provisional", "ready", "stopping", "stopped", "lost"},
                  a : Attempts \cup {"none"}, claimed : BOOLEAN, route : Routes]
LauncherTypes ==
    /\ auth \in AuthRecords
    /\ guard \in [Locks -> [Attempts -> Procs \cup {"none"}]]
    /\ call \in [Procs -> CallRecords]
    /\ handle \in [Procs -> HandleRecords]
    /\ exposed \in BOOLEAN

-----------------------------------------------------------------------------
(* A call holds its lock until one is lost.                                *)
HoldAt(p) ==
    /\ call[p].pc # "idle" => call[p].a \in Attempts
    /\ call[p].pc \in LaunchPcs => call[p].lock = "launch"
    /\ ~exposed /\ call[p].pc # "idle" => Held(p)

CallsHold == \A p \in Procs : HoldAt(p)

ModesOf(pc) == CASE pc = "launching" -> {"launch"} [] pc = "reconciling" -> {"reconcile"}
                 [] pc = "stopping" -> {"stop"} [] pc = "fencing" -> {"fresh", "restop"}
                 [] OTHER -> {"none"}

(* The supervisor runs for the call that asked it.                         *)
RunFor(p) ==
    /\ run[p].mode \in ModesOf(call[p].pc)
    /\ run[p].mode # "none" => run[p].a = call[p].a /\ run[p].pc # "idle"
    /\ run[p].mode = "none" => run[p].pc = "idle"

RunsForCall == \A p \in Procs : RunFor(p)

-----------------------------------------------------------------------------
(* The authority: one operation of the session at a time.                  *)
Gone(a) == a \in auth.gc \cup auth.collected

AuthorityInv ==
    /\ \A a, b \in Attempts :
          auth.launch[a] \in ActivePhases /\ auth.launch[b] \in ActivePhases => a = b
    /\ auth.pointer # "none" =>
          /\ auth.launch[auth.pointer] = "started"
          /\ auth.stop[auth.pointer] # "stopped"
          /\ auth.fence[auth.pointer] # "fenced"
          /\ \A a \in Attempts :
                auth.launch[a] \notin ActivePhases /\ auth.capture[a] \notin ActivePhases
    /\ \A a \in Attempts :
          /\ auth.stop[a] \in ActivePhases => auth.pointer = a
          /\ auth.fence[a] \in ActivePhases \cup {"blocked"} => auth.pointer = a
          /\ auth.capture[a] \in ActivePhases =>
                \A b \in Attempts : auth.launch[b] \notin ActivePhases
          /\ auth.launch[a] = "started" =>
                auth.pointer = a \/ auth.stop[a] = "stopped" \/ auth.fence[a] = "fenced"
          /\ auth.stop[a] # "absent" =>
                auth.launch[a] = "started" /\ auth.fence[a] = "absent"
          /\ auth.fence[a] # "absent" => auth.launch[a] = "started"
          /\ Gone(a) => auth.stop[a] = "stopped"
    /\ auth.gc \cap auth.collected = {}

-----------------------------------------------------------------------------
(* The supervisor.                                                         *)
Begun(a) == auth.launch[a] \notin {"absent", "prepared", "cancelled"}
LaunchRun(p, a) == run[p].mode = "launch" /\ run[p].a = a
Has(a, r) == files[a][r].live /\ files[a][r].kept
Quiet(a) ==
    /\ <<"create", a>> \notin stray
    /\ <<"start", a>> \notin stray
    /\ \A p \in Procs : ~LaunchRun(p, a)

(* The launch has started its container, and is over.                      *)
Ran(a) ==
    /\ Begun(a)
    /\ starts[a] = 1
    /\ Quiet(a)
    /\ Gone(a) \/ Has(a, Started)

StoppedDown(a) == ~Gone(a) /\ Has(a, Stopped) /\ box[a] = "none"

(* A launch that may still start the container.                            *)
PreStart(p) ==
    \/ run[p].pc \in {"read", "authority", "create", "start"}
    \/ run[p].pc \in WritePcs /\ run[p].rev \in {Preparing, Created}

Dead(a) ==
    /\ auth.launch[a] \notin {"absent", "prepared"}
    /\ box[a] # "running"
    /\ <<"start", a>> \notin stray
    /\ \A p \in Procs : LaunchRun(p, a) => ~PreStart(p)

BegunInv ==
    /\ \A p \in Procs : run[p].mode # "none" => Begun(run[p].a)
    /\ \A a \in Attempts : ~Begun(a) =>
          /\ box[a] = "none" /\ starts[a] = 0
          /\ <<"create", a>> \notin stray /\ <<"start", a>> \notin stray
          /\ \A r \in Revisions : ~files[a][r].live /\ ~files[a][r].kept
    /\ \A a \in Attempts : auth.launch[a] = "started" => Ran(a)

FilesAt(a) ==
    /\ \A r \in Revisions : files[a][r].live /\ files[a][r].pend # "alias" => files[a][r].kept
    /\ ~Gone(a) => \A r \in Revisions :
          /\ files[a][r].kept => files[a][r].live
          /\ files[a][r].live => \A q \in Revisions : q < r => Has(a, q)
    /\ a \in auth.gc => \A r \in Revisions :
          /\ files[a][r].live =>
                files[a][r].kept /\ \A q \in Revisions : r < q => files[a][q].live
          /\ files[a][r].kept => \A q \in Revisions : r < q => files[a][q].kept
          /\ files[a][r].kept /\ r # Stopped => Has(a, Stopped)
    /\ a \in auth.collected => \A r \in Revisions : ~files[a][r].live /\ ~files[a][r].kept
    /\ files[a][Stopping].live \/ files[a][Stopped].live => auth.launch[a] = "started"

FilesInv == \A a \in Attempts : FilesAt(a)

BoxAt(a) ==
    /\ starts[a] \in {0, 1}
    /\ starts[a] = 0 => box[a] \in {"none", "created"}
    /\ starts[a] = 1 => box[a] # "created" /\ (Gone(a) \/ Has(a, Created))
    /\ box[a] # "none" => ~Gone(a) /\ Has(a, Preparing)
    /\ files[a][Stopped].live => box[a] \in {"exited", "none"}

StrayAt(a) ==
    /\ <<"create", a>> \in stray =>
          /\ starts[a] = 0 /\ <<"start", a>> \notin stray
          /\ Has(a, Preparing) /\ ~files[a][Created].live
          /\ \A p \in Procs : ~LaunchRun(p, a)
    /\ <<"start", a>> \in stray =>
          /\ starts[a] = 0 /\ box[a] = "created" /\ Has(a, Created)
          /\ \A p \in Procs : LaunchRun(p, a) => run[p].pc = "hung"

BoxInv == \A a \in Attempts : BoxAt(a)
StrayInv == \A a \in Attempts : StrayAt(a)

(* How far the launch of an attempt is.                                    *)
LaunchAt(p) ==
    LET a == run[p].a
        r == run[p].rev
        writes == run[p].pc \in WritePcs
    IN  /\ run[p].pc \in {"read", "authority", "create", "start", "running", "hung",
                          "done"} \cup WritePcs
        /\ run[p].pc = "done" => run[p].result \in {"started", "failed"}
        /\ ~Gone(a)
        /\ PreStart(p) => starts[a] = 0 /\ <<"start", a>> \notin stray
        /\ run[p].pc \in {"read", "authority"} =>
              box[a] = "none" /\ \A q \in Revisions : ~files[a][q].live
        /\ writes =>
              /\ r \in {Preparing, Created, Started}
              /\ \A q \in Revisions : q < r => Has(a, q)
              /\ \A q \in Revisions : q > r => ~files[a][q].live
              /\ files[a][r].live <=> run[p].pc = "sync"
              /\ r = Preparing => box[a] = "none"
              /\ r = Created => box[a] = "created"
        /\ run[p].pc = "create" =>
              box[a] = "none" /\ Has(a, Preparing) /\ ~files[a][Created].live
        /\ run[p].pc = "start" => box[a] = "created" /\ Has(a, Created)
                                  /\ ~files[a][Started].live
        /\ run[p].pc = "running" \/ (writes /\ r = Started) => starts[a] = 1
        /\ run[p].pc = "running" => Has(a, Created) /\ ~files[a][Started].live
        /\ run[p].pc = "done" /\ run[p].result = "started" =>
              starts[a] = 1 /\ Has(a, Started)

ReconcileAt(p) ==
    LET a == run[p].a IN
    /\ run[p].pc \in {"read", "list", "observe", "prove", "done"}
    /\ run[p].pc = "done" => run[p].result \in {"failed", "proved", "not-started", "exited"}
    /\ run[p].pc = "prove" \/ (run[p].pc = "done" /\ run[p].result = "proved") =>
          auth.launch[a] = "started"
    /\ ~exposed /\ run[p].pc = "list" => ~files[a][Created].live
    /\ ~exposed /\ run[p].pc = "done" /\ run[p].result \in {"not-started", "exited"} => Dead(a)

StopAt(p) ==
    LET a == run[p].a
        r == run[p].rev
        writes == run[p].pc \in WritePcs
    IN  /\ run[p].pc \in {"read", "stop", "prove", "done"} \cup WritePcs
        /\ run[p].pc = "done" => run[p].result \in {"failed", "unknown", "stopped"}
        /\ IF run[p].mode = "stop" THEN auth.stop[a] \in {"starting", "uncertain"}
           ELSE auth.fence[a] \notin {"absent", "prepared"}
        /\ writes =>
              /\ r \in {Stopping, Stopped}
              /\ \A q \in Revisions : q < r => Has(a, q)
              /\ run[p].pc = "sync" => files[a][r].live
              /\ r = Stopped => box[a] \in {"exited", "none"}
        /\ run[p].pc = "stop" => Has(a, Stopping)
        /\ run[p].pc = "prove" => Has(a, Stopped)
        /\ run[p].pc = "done" /\ run[p].result = "stopped" => StoppedDown(a)

StopModes == {"stop", "fresh", "restop"}

RunAt(p) ==
    /\ run[p].mode = "launch" => LaunchAt(p)
    /\ run[p].mode = "reconcile" => ReconcileAt(p)
    /\ run[p].mode \in StopModes => StopAt(p)

OneLaunch ==
    \A p, q \in Procs, a \in Attempts : LaunchRun(p, a) /\ LaunchRun(q, a) => p = q

RunInv == OneLaunch /\ \A p \in Procs : RunAt(p)

SupervisorInv == BegunInv /\ FilesInv /\ BoxInv /\ StrayInv /\ RunInv

-----------------------------------------------------------------------------
(* What a call knows of it.                                                *)
Dispatched == {"sdispatch", "stopping"}

CallAt(p) ==
    LET a == call[p].a IN
    /\ call[p].gc => call[p].pc \in {"finalize", "readback", "mark"}
    /\ call[p].pc \in {"launching", "reconciling", "finalize"} =>
          call[p].seen \in {"starting", "uncertain"}
    /\ call[p].pc = "finalize" =>
          /\ call[p].ev # "none"
          /\ call[p].gc => auth.launch[a] = "started"
          /\ call[p].ev = "started" => Ran(a) /\ ~call[p].gc
          /\ call[p].ev # "started" /\ ~call[p].gc /\ ~exposed => Dead(a)
    /\ call[p].pc \in Dispatched \cup {"sfinalize", "sreadback"} =>
          auth.token[a] = p /\ auth.stop[a] \notin {"absent", "prepared"}
    /\ call[p].pc \in Dispatched => auth.stop[a] # "stopped"
    /\ call[p].pc \in {"sfinalize", "sreadback"} => auth.stop[a] = "stopped" \/ StoppedDown(a)
    /\ call[p].pc = "sfinalize" => call[p].seen \in {"starting", "uncertain"}
    /\ call[p].pc \in {"fencing", "ffinalize"} => auth.fence[a] \notin {"absent", "prepared"}
    /\ call[p].pc = "ffinalize" => StoppedDown(a)

CallInv == \A p \in Procs : CallAt(p)

OverAt(a) ==
    /\ ~exposed /\ auth.launch[a] \in Ended => Dead(a)
    /\ auth.stop[a] = "stopped" => Gone(a)
    /\ auth.fence[a] = "fenced" => StoppedDown(a)
    /\ auth.stop[a] \in {"absent", "prepared"} => auth.token[a] = "none"

OverInv == \A a \in Attempts : OverAt(a)

(* The record of a started writer.                                         *)
HandleAt(p) ==
    handle[p].state = "provisional" => handle[p].a \in Attempts /\ Ran(handle[p].a)

HandleInv == \A p \in Procs : HandleAt(p)

-----------------------------------------------------------------------------
(* The catalogue.                                                          *)
Rows == {"absent", "starting", "uncertain", "committed"}
TakePcs == {"none", "claim", "read", "consume", "create", "mark", "commit", "verify",
            "uncertain", "retire", "retired", "retirement-uncertain"}
Statements == {"claim", "mark", "commit"}
TakeRecords == [pc : TakePcs, a : Attempts \cup {"none"},
                authority : {"none", "issued", "resolving", "consumed", "uncertain"},
                sent : Statements \cup {"none"}, known : BOOLEAN, again : BOOLEAN]

CaptureTypes ==
    /\ row \in [Attempts -> Rows]
    /\ lv \in [Attempts -> BOOLEAN]
    /\ dispatched \in [Attempts -> Nat]
    /\ late \in SUBSET ((Statements \cup {"create"}) \X Attempts)
    /\ take \in [Procs -> TakeRecords]

Dispatching(p, a) == take[p].a = a /\ take[p].pc \in {"consume", "create"}

TakeAt(p) ==
    LET a == take[p].a IN
    /\ take[p].pc # "none" => a \in Attempts
    /\ take[p].pc = "read" => take[p].sent # "none"
    /\ take[p].pc \in {"consume", "create"} => row[a] # "absent" /\ dispatched[a] = 0
    /\ take[p].pc = "commit" \/ (take[p].pc = "read" /\ take[p].sent = "commit") => lv[a]
    /\ take[p].pc \in {"retire", "retired"} => row[a] = "committed"

OneDispatch ==
    \A p, q \in Procs, a \in Attempts : Dispatching(p, a) /\ Dispatching(q, a) => p = q

CaptureAt(a) ==
    /\ dispatched[a] \in {0, 1}
    /\ dispatched[a] = 1 => row[a] # "absent"
    /\ <<"create", a>> \in late => dispatched[a] = 1
    /\ <<"commit", a>> \in late => lv[a]
    /\ lv[a] => dispatched[a] = 1
    /\ row[a] = "committed" => lv[a]

CatalogueInv ==
    /\ \A p \in Procs : TakeAt(p)
    /\ OneDispatch
    /\ \A a \in Attempts : CaptureAt(a)

LauncherInv ==
    /\ SupervisorTypes /\ LauncherTypes /\ CallsHold /\ RunsForCall /\ AuthorityInv
    /\ SupervisorInv /\ CallInv /\ OverInv /\ HandleInv
    /\ CaptureTypes /\ CatalogueInv

Core ==
    /\ SupervisorTypes /\ LauncherTypes /\ CallsHold /\ RunsForCall
    /\ AuthorityInv /\ SupervisorInv

(* What is known of an attempt stays so.                                   *)
Stable ==
    \A a \in Attempts :
        /\ Ran(a) => Ran(a)'
        /\ Dead(a) => Dead(a)'
        /\ StoppedDown(a) => StoppedDown(a)'

-----------------------------------------------------------------------------
(* The revisions, and the operations on the files.                         *)
LEMMA RevisionNumbers ==
    /\ Revisions = {0, 1, 2, 3, 4}
    /\ Preparing = 0 /\ Created = 1 /\ Started = 2 /\ Stopping = 3 /\ Stopped = 4
    /\ NoRecord = -1 /\ Invalid = -2
  BY DEF Revisions, Preparing, Created, Started, Stopping, Stopped, NoRecord, Invalid

LEMMA CurrentIsLive ==
    ASSUME NEW a \in Attempts, NEW r \in Revisions, Current(a) = r
    PROVE  Chain(a) = Preparing .. r /\ files[a][r].live
<1>1. Chain(a) # {} BY RevisionNumbers DEF Current
<1>2. Chain(a) = Preparing .. Max(Chain(a)) /\ Max(Chain(a)) = r
  BY <1>1, RevisionNumbers DEF Current
<1>3. r \in Preparing .. r BY RevisionNumbers
<1> QED BY <1>2, <1>3 DEF Chain

LEMMA CurrentIsNone ==
    ASSUME NEW a \in Attempts, Current(a) = NoRecord
    PROVE  Chain(a) = {}
<1> SUFFICES ASSUME Chain(a) # {} PROVE FALSE
  OBVIOUS
<1>1. Chain(a) = Preparing .. Max(Chain(a)) /\ Max(Chain(a)) = -1
  BY RevisionNumbers DEF Current
<1> QED BY <1>1, RevisionNumbers

LEMMA EmptyIsNone ==
    ASSUME NEW a \in Attempts, \A r \in Revisions : ~files[a][r].live
    PROVE  Current(a) = NoRecord
<1>1. Chain(a) = {} BY DEF Chain
<1> QED BY <1>1 DEF Current

(* A step that publishes nothing: at most it syncs or moves pending files. *)
FilesKeepAt(a) ==
    /\ \A r \in Revisions :
          /\ files'[a][r].live <=> files[a][r].live
          /\ files[a][r].live /\ files'[a][r].pend # "alias" => files'[a][r].kept
    /\ \/ \A r \in Revisions : files'[a][r].kept <=> files[a][r].kept
       \/ \A r \in Revisions : files'[a][r].kept <=> files[a][r].live

FilesKeep ==
    /\ files' \in [Attempts -> [Revisions -> FileRecords]]
    /\ \A a \in Attempts : FilesKeepAt(a)

LEMMA SameFilesKeep ==
    ASSUME SupervisorTypes, FilesInv, UNCHANGED files
    PROVE  FilesKeep
  BY DEF SupervisorTypes, FilesInv, FilesAt, FilesKeep, FilesKeepAt, FileRecords

LEMMA SyncKeeps ==
    ASSUME SupervisorTypes, FilesInv,
           NEW f \in [Attempts -> [Revisions -> FileRecords]],
           \A a \in Attempts, r \in Revisions : f[a][r].live <=> files[a][r].live,
           files' = SyncDirectory(f)
    PROVE  FilesKeep /\ \A a \in Attempts, r \in Revisions :
                          files[a][r].live => files'[a][r].kept
<1>1. ASSUME NEW a \in Attempts, NEW r \in Revisions
      PROVE /\ files'[a][r] \in FileRecords
            /\ files'[a][r].live <=> files[a][r].live
            /\ files'[a][r].kept <=> files[a][r].live
  <2>1. files'[a][r] = [f[a][r] EXCEPT !.kept = f[a][r].live] BY DEF SyncDirectory
  <2>2. f[a][r] \in FileRecords
    OBVIOUS
  <2>3. f[a][r].live \in BOOLEAN BY <2>2 DEF FileRecords
  <2>4. files'[a][r] \in FileRecords /\ files'[a][r].live = f[a][r].live
        /\ files'[a][r].kept = f[a][r].live
    BY <2>1, <2>2, <2>3 DEF FileRecords
  <2> QED BY <2>4
<1>2. files' = [a \in Attempts |-> [r \in Revisions |-> files'[a][r]]] BY DEF SyncDirectory
<1>3. files' \in [Attempts -> [Revisions -> FileRecords]] BY <1>1, <1>2
<1> QED BY <1>1, <1>3 DEF FilesKeep, FilesKeepAt

LEMMA HelpedKeeps ==
    ASSUME SupervisorTypes, FilesInv, NEW a \in Attempts, files' = Helped(a)
    PROVE  FilesKeep /\ \A r \in Revisions : files[a][r].live => files'[a][r].kept
<1>1. CASE \E r \in Chain(a) : files[a][r].pend = "alias"
  <2> DEFINE f == [files EXCEPT ![a] = [r \in Revisions |->
           IF @[r].pend = "alias" THEN [@[r] EXCEPT !.pend = "none"] ELSE @[r]]]
  <2>1. ASSUME NEW b \in Attempts, NEW r \in Revisions
        PROVE f[b][r] \in FileRecords /\ (f[b][r].live <=> files[b][r].live)
    <3>1. files[b][r] \in FileRecords BY DEF SupervisorTypes
    <3>2. f[b][r] = files[b][r] \/ f[b][r] = [files[b][r] EXCEPT !.pend = "none"]
      BY DEF SupervisorTypes
    <3> QED BY <3>1, <3>2 DEF FileRecords, Pends
  <2>2. f \in [Attempts -> [Revisions -> FileRecords]]
    <3>1. f = [b \in Attempts |-> [r \in Revisions |-> f[b][r]]] BY DEF SupervisorTypes
    <3> HIDE DEF f
    <3> QED BY <2>1, <3>1
  <2>3. files' = SyncDirectory(f) BY <1>1 DEF Helped
  <2> HIDE DEF f
  <2> QED BY <2>1, <2>2, <2>3, SyncKeeps
<1>2. CASE ~\E r \in Chain(a) : files[a][r].pend = "alias"
  <2>1. files' = files BY <1>2 DEF Helped
  <2>2. \A r \in Revisions : files[a][r].live => files[a][r].pend # "alias"
    BY <1>2 DEF Chain
  <2> QED BY <2>1, <2>2, SameFilesKeep DEF FilesInv, FilesAt
<1> QED BY <1>1, <1>2

-----------------------------------------------------------------------------
(* A step of one run that publishes nothing and touches no container.      *)
RunGoesOn(p) ==
    /\ run' \in [Procs -> RunRecords]
    /\ \A q \in Procs \ {p} : run'[q] = run[q]
    /\ run'[p].mode = run[p].mode /\ run'[p].a = run[p].a
    /\ run[p].mode # "none" /\ run[p].pc # "hung"
    /\ run'[p].pc # "idle"

LEMMA RunLives ==
    ASSUME Core, NEW p \in Procs, run[p].mode # "none"
    PROVE  /\ run[p].a \in Attempts /\ run[p].a = call[p].a
           /\ Begun(run[p].a) /\ RunAt(p) /\ run[p].pc # "idle"
           /\ run[p].mode \in StopModes => auth.launch[run[p].a] = "started" /\ ~Gone(run[p].a)
                                           /\ Ran(run[p].a)
           /\ run[p].mode = "launch" => ~Gone(run[p].a) /\ auth.launch[run[p].a] # "started"
<1>1. run[p].a = call[p].a /\ run[p].pc # "idle" /\ run[p].mode \in ModesOf(call[p].pc)
  BY DEF Core, RunsForCall, RunFor
<1>2. call[p].pc # "idle" /\ call[p].a \in Attempts
  BY <1>1 DEF Core, CallsHold, HoldAt, ModesOf
<1>3. Begun(run[p].a) /\ RunAt(p) BY DEF Core, SupervisorInv, BegunInv, RunInv
<1>4. ASSUME run[p].mode \in StopModes
      PROVE auth.launch[run[p].a] = "started" /\ ~Gone(run[p].a) /\ Ran(run[p].a)
  <2>1. IF run[p].mode = "stop" THEN auth.stop[run[p].a] \in {"starting", "uncertain"}
         ELSE auth.fence[run[p].a] \notin {"absent", "prepared"}
    BY <1>3, <1>4 DEF RunAt, StopAt
  <2>2. auth.launch[run[p].a] = "started" /\ auth.stop[run[p].a] # "stopped"
    BY <1>1, <1>2, <2>1 DEF Core, AuthorityInv
  <2> QED BY <1>1, <1>2, <2>2 DEF Core, AuthorityInv, SupervisorInv, BegunInv
<1>5. ASSUME run[p].mode = "launch"
      PROVE ~Gone(run[p].a) /\ auth.launch[run[p].a] # "started"
  BY <1>1, <1>2, <1>3, <1>5 DEF Core, SupervisorInv, BegunInv, Ran, Quiet, LaunchRun, RunAt,
     LaunchAt
<1> QED BY <1>1, <1>2, <1>3, <1>4, <1>5

LEMMA FilesAtKept ==
    ASSUME NEW a \in Attempts, FilesAt(a), FilesKeepAt(a), UNCHANGED auth
    PROVE  FilesAt(a)' /\ \A r \in Revisions : Has(a, r) => Has(a, r)'
<1>a. \A r \in Revisions : Has(a, r) => Has(a, r)' BY DEF Has, FilesKeepAt
<1>b. Gone(a)' <=> Gone(a) BY DEF Gone
<1>1. ~Gone(a) => \A r \in Revisions :
            /\ files'[a][r].kept => files'[a][r].live
            /\ files'[a][r].live => \A q \in Revisions : q < r => Has(a, q)'
  BY <1>a DEF FilesAt, FilesKeepAt
<1>2. ASSUME a \in auth.gc, NEW r \in Revisions
      PROVE  /\ files'[a][r].live =>
                  files'[a][r].kept /\ \A q \in Revisions : r < q => files'[a][q].live
             /\ files'[a][r].kept => \A q \in Revisions : r < q => files'[a][q].kept
             /\ files'[a][r].kept /\ r # Stopped => Has(a, Stopped)'
  <2>1. files'[a][r].live =>
                  files'[a][r].kept /\ \A q \in Revisions : r < q => files'[a][q].live
    BY <1>2 DEF FilesAt, FilesKeepAt
  <2>2. ASSUME files'[a][r].kept, r # Stopped PROVE Has(a, Stopped)'
    <3>1. files[a][r].kept \/ files[a][r].live BY <2>2 DEF FilesKeepAt
    <3>2. Has(a, Stopped) BY <1>2, <2>2, <3>1, RevisionNumbers DEF FilesAt, Has
    <3> QED BY <3>2, <1>a, RevisionNumbers
  <2>3. files'[a][r].kept => \A q \in Revisions : r < q => files'[a][q].kept
    BY <1>2 DEF FilesAt, FilesKeepAt
  <2> QED BY <2>1, <2>2, <2>3
<1>3. a \in auth.collected => \A r \in Revisions : ~files'[a][r].live /\ ~files'[a][r].kept
  BY DEF FilesAt, FilesKeepAt
<1>4. files'[a][Stopping].live \/ files'[a][Stopped].live => auth.launch[a] = "started"
  BY RevisionNumbers DEF FilesAt, FilesKeepAt
<1>5. \A r \in Revisions : files'[a][r].live /\ files'[a][r].pend # "alias" => files'[a][r].kept
  BY DEF FilesKeepAt
<1> QED BY <1>a, <1>b, <1>1, <1>2, <1>3, <1>4, <1>5 DEF FilesAt

LEMMA RunStepKeeps ==
    ASSUME Core, NEW p \in Procs, FilesKeep, RunGoesOn(p),
           UNCHANGED <<box, stray, starts, auth, exposed>>,
           RunAt(p)',
           PreStart(p)' => PreStart(p)
    PROVE  SupervisorInv' /\ Stable
<1> USE DEF Core, SupervisorInv, SupervisorTypes, LauncherTypes
<1>a. \A a \in Attempts, r \in Revisions : Has(a, r) => Has(a, r)'
  BY DEF FilesKeep, FilesKeepAt, Has, FileRecords
<1>b. \A a \in Attempts : /\ Gone(a)' <=> Gone(a)
                          /\ Begun(a)' <=> Begun(a)
  BY DEF Gone, Begun
<1>c. \A q \in Procs, a \in Attempts : LaunchRun(q, a)' <=> LaunchRun(q, a)
  BY DEF LaunchRun, RunGoesOn
<1>d. \A q \in Procs : PreStart(q)' => PreStart(q) BY DEF PreStart, RunGoesOn
<1>e. \A q \in Procs : run'[q].mode = run[q].mode /\ run'[q].a = run[q].a BY DEF RunGoesOn
<1>1. BegunInv'
  <2>1. \A q \in Procs : run'[q].mode # "none" => Begun(run[q].a)'
    <3> SUFFICES ASSUME NEW q \in Procs, run'[q].mode # "none" PROVE Begun(run[q].a)'
      OBVIOUS
    <3>1. run[q].mode # "none" /\ run'[q].a = run[q].a BY <1>e
    <3> QED BY <3>1, RunLives DEF Begun
  <2>2. \A a \in Attempts : Ran(a) => Ran(a)'
    BY <1>a, <1>b, <1>c, RevisionNumbers DEF Ran, Quiet
  <2>3. ASSUME NEW a \in Attempts, ~Begun(a), BegunInv, FilesKeep
        PROVE \A r \in Revisions : ~files'[a][r].live /\ ~files'[a][r].kept
    BY <2>3 DEF BegunInv, FilesKeep, FilesKeepAt
  <2>4. \A a \in Attempts : ~Begun(a)' =>
           /\ box'[a] = "none" /\ starts'[a] = 0
           /\ <<"create", a>> \notin stray' /\ <<"start", a>> \notin stray'
           /\ \A r \in Revisions : ~files'[a][r].live /\ ~files'[a][r].kept
    BY <2>3, <1>b DEF BegunInv
  <2>5. \A a \in Attempts : auth'.launch[a] = "started" => Ran(a)' BY <2>2 DEF BegunInv
  <2> QED BY <2>1, <2>4, <2>5 DEF BegunInv
<1>2. FilesInv' BY FilesAtKept DEF FilesInv, FilesKeep
<1>3. BoxInv' BY <1>a, <1>b, RevisionNumbers DEF BoxInv, BoxAt, FilesKeep, FilesKeepAt
<1>4. StrayInv'
  <2>1. \A q \in Procs, a \in Attempts : <<"start", a>> \in stray /\ LaunchRun(q, a) => run'[q].pc = "hung"
    <3> SUFFICES ASSUME NEW q \in Procs, NEW a \in Attempts, <<"start", a>> \in stray,
                        LaunchRun(q, a)
                 PROVE run'[q].pc = "hung"
      OBVIOUS
    <3>1. run[q].pc = "hung" BY DEF StrayInv, StrayAt
    <3> QED BY <3>1 DEF RunGoesOn
  <2> QED BY <1>a, <1>c, <2>1, RevisionNumbers DEF StrayInv, StrayAt, FilesKeep, FilesKeepAt
<1>5. Stable
  <2>1. \A a \in Attempts : Ran(a) => Ran(a)'
    BY <1>a, <1>b, <1>c, RevisionNumbers DEF Ran, Quiet
  <2>2. \A a \in Attempts : Dead(a) => Dead(a)' BY <1>c, <1>d DEF Dead
  <2>3. \A a \in Attempts : StoppedDown(a) => StoppedDown(a)'
    BY <1>a, <1>b, RevisionNumbers DEF StoppedDown
  <2> QED BY <2>1, <2>2, <2>3 DEF Stable
<1>6. RunInv'
  <2>1. ASSUME NEW q \in Procs, q # p PROVE RunAt(q)'
    <3>1. run'[q] = run[q] BY <2>1 DEF RunGoesOn
    <3>2. CASE run[q].mode = "none" BY <3>1, <3>2 DEF RunAt, StopModes
    <3>3. CASE run[q].mode # "none"
      <4>1. run[q].a \in Attempts /\ RunAt(q) BY SMTT(30), <3>3, RunLives
      <4>2. CASE run[q].mode = "launch"
        <5>1. LaunchAt(q) BY SMTT(30), <4>1, <4>2 DEF RunAt
        <5>2. LaunchAt(q)'
          BY SMTT(30), <5>1, <3>1, <4>1, <1>a, <1>b, RevisionNumbers DEF LaunchAt,
             FilesKeep, FilesKeepAt, PreStart
        <5> QED BY SMTT(30), <5>2, <3>1, <4>2 DEF RunAt, StopModes
      <4>3. CASE run[q].mode = "reconcile"
        <5>1. ReconcileAt(q) BY <4>1, <4>3 DEF RunAt
        <5>2. ReconcileAt(q)'
          BY <5>1, <3>1, <4>1, <1>5, RevisionNumbers DEF ReconcileAt, FilesKeep,
             FilesKeepAt, Stable
        <5> QED BY <5>2, <3>1, <4>3 DEF RunAt, StopModes
      <4>4. CASE run[q].mode \in StopModes
        <5>1. StopAt(q) BY <4>1, <4>4 DEF RunAt
        <5>2. StopAt(q)'
          BY <5>1, <3>1, <4>1, <1>5, <1>a, RevisionNumbers DEF StopAt, FilesKeep,
             FilesKeepAt, Stable
        <5> QED BY <5>2, <3>1, <4>4 DEF RunAt, StopModes
      <4> QED BY <4>2, <4>3, <4>4, <3>3 DEF RunRecords, Modes, StopModes
    <3> QED BY <3>2, <3>3
  <2>2. OneLaunch' BY <1>c DEF RunInv, OneLaunch
  <2> QED BY <2>1, <2>2 DEF RunInv
<1> QED BY <1>1, <1>2, <1>3, <1>4, <1>5, <1>6

LEMMA Continues ==
    ASSUME SupervisorTypes, NEW p \in Procs, run[p].mode # "none", run[p].pc # "hung",
           NEW pc \in RunPcs \ {"idle"}, Continue(p, pc)
    PROVE  /\ RunGoesOn(p) /\ run'[p].pc = pc
           /\ run'[p].rev = run[p].rev /\ run'[p].result = run[p].result
  BY DEF SupervisorTypes, Continue, RunGoesOn, RunRecords

LEMMA Finishes ==
    ASSUME SupervisorTypes, NEW p \in Procs, run[p].mode # "none", run[p].pc # "hung",
           NEW result \in Results, Finish(p, result)
    PROVE  RunGoesOn(p) /\ run'[p].pc = "done" /\ run'[p].result = result
  BY ZenonT(60) DEF SupervisorTypes, Finish, RunGoesOn, RunRecords, RunPcs

LEMMA Records ==
    ASSUME SupervisorTypes, NEW p \in Procs, run[p].mode # "none", run[p].pc # "hung",
           NEW rev \in Revisions, Record(p, rev)
    PROVE  RunGoesOn(p) /\ run'[p].pc = "open" /\ run'[p].rev = rev
  BY ZenonT(60) DEF SupervisorTypes, Record, RunGoesOn, RunRecords, RunPcs, WritePcs

Kept == SupervisorTypes' /\ SupervisorInv' /\ Stable /\ RunsForCall'

LEMMA RunStays ==
    ASSUME RunsForCall, NEW p \in Procs, RunGoesOn(p), UNCHANGED call
    PROVE  RunsForCall'
  BY DEF RunsForCall, RunFor, RunGoesOn

LEMMA RunStep ==
    ASSUME Core, NEW p \in Procs, FilesKeep, RunGoesOn(p),
           UNCHANGED <<box, stray, starts, launcherVars>>,
           RunAt(p)',
           PreStart(p)' => PreStart(p)
    PROVE  Kept
<1>1. SupervisorInv' /\ Stable BY RunStepKeeps DEF launcherVars
<1>2. SupervisorTypes' BY DEF Core, SupervisorTypes, FilesKeep, FilesKeepAt, RunGoesOn
<1>3. RunsForCall' BY RunStays DEF Core, launcherVars
<1> QED BY <1>1, <1>2, <1>3 DEF Kept

(* A call that fails.                                                      *)
LEMMA FailsAt ==
    ASSUME Core, NEW p \in Procs, run[p].mode # "none", RunGoesOn(p),
           run'[p].pc = "done", run'[p].result = "failed", UNCHANGED <<auth, exposed>>
    PROVE  RunAt(p)' /\ ~PreStart(p)'
<1>2. ~PreStart(p)' BY DEF PreStart, WritePcs
<1>3. RunAt(p)'
  <2>1. run[p].a \in Attempts /\ RunAt(p) /\ (run[p].mode = "launch" => ~Gone(run[p].a))
    BY RunLives
  <2>2. run'[p].mode = run[p].mode /\ run'[p].a = run[p].a BY DEF RunGoesOn
  <2>3. run'[p].mode = "launch" => LaunchAt(p)'
    BY <2>1, <2>2, <1>2 DEF RunAt, LaunchAt, WritePcs, Gone
  <2>4. run'[p].mode = "reconcile" => ReconcileAt(p)' BY <2>1, <2>2 DEF RunAt, ReconcileAt
  <2>5. run'[p].mode \in StopModes => StopAt(p)' BY <2>1, <2>2 DEF RunAt, StopAt, WritePcs
  <2> QED BY <2>3, <2>4, <2>5 DEF RunAt
<1> QED BY <1>2, <1>3

LEMMA RunFails ==
    ASSUME Core, NEW p \in Procs, run[p].mode # "none", run[p].pc # "hung", FilesKeep,
           Finish(p, "failed"), UNCHANGED <<box, stray, starts, launcherVars>>
    PROVE  Kept
<1>1. RunGoesOn(p) /\ run'[p].pc = "done" /\ run'[p].result = "failed"
  BY Finishes DEF Core, Results
<1> QED BY <1>1, FailsAt, RunStep DEF launcherVars

LEMMA ReadStateKeeps ==
    ASSUME Core, NEW p \in Procs, ReadState(p), UNCHANGED launcherVars
    PROVE  Kept
<1> DEFINE a == run[p].a
<1>a. run[p].mode # "none" /\ run[p].pc = "read"
  BY DEF Core, RunsForCall, RunFor, ReadState, At
<1>b. a \in Attempts /\ RunAt(p) /\ SupervisorTypes /\ FilesInv /\ (run[p].mode = "launch" => ~Gone(a))
  BY <1>a, RunLives DEF Core, SupervisorInv
<1>1. CASE Finish(p, "failed") /\ UNCHANGED files
  BY <1>1, <1>a, <1>b, RunFails, SameFilesKeep DEF ReadState
<1>2. CASE /\ files' = Helped(a)
           /\ CASE run[p].mode = "launch" -> LaunchFound(p, Current(a))
                [] run[p].mode = "reconcile" -> ReconcileFound(p, Current(a))
                [] OTHER -> StopFound(p, Current(a))
  <2>1. FilesKeep /\ \A r \in Revisions : files[a][r].live => files'[a][r].kept
    BY <1>2, <1>b, HelpedKeeps
  <2>2. UNCHANGED <<box, stray, starts, launcherVars>> BY DEF ReadState
  <2>3. Finish(p, "failed") => Kept BY <2>1, <2>2, <1>a, RunFails
  <2>4. CASE run[p].mode = "launch"
    <3>1. LaunchAt(p) BY <1>b, <2>4 DEF RunAt
    <3>2. Current(a) = NoRecord BY <3>1, <1>a, <1>b, EmptyIsNone DEF LaunchAt
    <3>3. Continue(p, "authority") BY <1>2, <2>4, <3>2, RevisionNumbers DEF LaunchFound
    <3>4. RunGoesOn(p) /\ run'[p].pc = "authority" BY <3>3, <1>a, <1>b, Continues DEF RunPcs
    <3>5. RunAt(p)'
      BY <3>1, <3>4, <2>1, <2>2, <2>4, <1>a, <1>b DEF RunAt, LaunchAt, FilesKeep,
         FilesKeepAt, WritePcs, launcherVars, Gone, PreStart, RunGoesOn, StopModes
    <3> QED BY <3>4, <3>5, <2>1, <2>2, <1>a, RunStep DEF PreStart
  <2>5. CASE run[p].mode = "reconcile"
    <3>1. ReconcileAt(p) /\ ReconcileFound(p, Current(a)) BY <1>2, <1>b, <2>5 DEF RunAt
    <3>2. CASE Current(a) = Stopped /\ Continue(p, "prove")
      <4>1. auth.launch[a] = "started"
        BY <3>2, <1>b, CurrentIsLive, RevisionNumbers DEF FilesInv, FilesAt
      <4>2. RunGoesOn(p) /\ run'[p].pc = "prove" BY <3>2, <1>a, <1>b, Continues DEF RunPcs
      <4>3. RunAt(p)' /\ ~PreStart(p)'
        BY <4>1, <4>2, <2>2, <2>5 DEF RunAt, ReconcileAt, RunGoesOn, StopModes,
           launcherVars, PreStart, WritePcs
      <4> QED BY <4>2, <4>3, <2>1, <2>2, RunStep
    <3>3. CASE Current(a) \in {NoRecord, Preparing} /\ Continue(p, "list")
      <4>1. ~files[a][Created].live
        <5>1. CASE Current(a) = NoRecord
          BY <5>1, <1>b, CurrentIsNone, RevisionNumbers DEF Chain
        <5>2. CASE Current(a) = Preparing
          <6>1. Chain(a) = Preparing .. Preparing
            BY <5>2, <1>b, CurrentIsLive, RevisionNumbers
          <6> QED BY <6>1, RevisionNumbers DEF Chain
        <5> QED BY <3>3, <5>1, <5>2
      <4>2. RunGoesOn(p) /\ run'[p].pc = "list" BY <3>3, <1>a, <1>b, Continues DEF RunPcs
      <4>3. RunAt(p)' /\ ~PreStart(p)'
        BY <4>1, <4>2, <2>1, <2>2, <2>5, <1>b, RevisionNumbers DEF RunAt, ReconcileAt,
           RunGoesOn, StopModes, launcherVars, PreStart, WritePcs, FilesKeep, FilesKeepAt
      <4> QED BY <4>2, <4>3, <2>1, <2>2, RunStep
    <3>4. CASE Continue(p, "observe")
      <4>2. RunGoesOn(p) /\ run'[p].pc = "observe" BY <3>4, <1>a, <1>b, Continues DEF RunPcs
      <4>3. RunAt(p)' /\ ~PreStart(p)'
        BY <4>2, <2>5 DEF RunAt, ReconcileAt, RunGoesOn, StopModes, PreStart, WritePcs
      <4> QED BY <4>2, <4>3, <2>1, <2>2, RunStep
    <3>5. \/ Current(a) = Stopped /\ Continue(p, "prove")
          \/ Current(a) \in {NoRecord, Preparing} /\ Continue(p, "list")
          \/ Continue(p, "observe")
          \/ Finish(p, "failed")
      BY <3>1, RevisionNumbers DEF ReconcileFound
    <3> QED BY <3>2, <3>3, <3>4, <3>5, <2>3
  <2>6. CASE run[p].mode \in StopModes
    <3>1. StopAt(p) /\ StopFound(p, Current(a)) BY <1>2, <1>b, <2>6 DEF RunAt, StopModes
    <3>2. CASE Current(a) = Started /\ Record(p, Stopping)
      <4>1. \A q \in Revisions : q < Stopping => files[a][q].live
        <5>1. Chain(a) = Preparing .. Started BY <3>2, <1>b, CurrentIsLive, RevisionNumbers
        <5> QED BY <5>1, RevisionNumbers DEF Chain
      <4>2. RunGoesOn(p) /\ run'[p].pc = "open" /\ run'[p].rev = Stopping
        BY <3>2, <1>a, <1>b, Records, RevisionNumbers
      <4>3. \A q \in Revisions : q < Stopping => Has(a, q)'
        BY <4>1, <4>2, <2>1, <1>b DEF Has, FilesKeep, FilesKeepAt, RunGoesOn
      <4>4. RunAt(p)'
        BY SMTT(30), <4>3, <4>2, <3>1, <2>2, <2>6, <1>b, RevisionNumbers DEF RunAt, StopAt,
           RunGoesOn, StopModes, launcherVars, WritePcs
      <4>5. ~PreStart(p)' BY <4>2, RevisionNumbers DEF PreStart
      <4> QED BY <4>2, <4>4, <4>5, <2>1, <2>2, RunStep
    <3>3. CASE Current(a) = Stopping /\ Continue(p, "stop")
      <4>1. files[a][Stopping].live BY <3>3, <1>b, CurrentIsLive, RevisionNumbers
      <4>2. RunGoesOn(p) /\ run'[p].pc = "stop" BY <3>3, <1>a, <1>b, Continues DEF RunPcs
      <4>3. Has(a, Stopping)'
        BY <4>1, <4>2, <2>1, <1>b, RevisionNumbers DEF Has, FilesKeep, FilesKeepAt,
           RunGoesOn
      <4>4. RunAt(p)' /\ ~PreStart(p)'
        BY <4>3, <4>2, <3>1, <2>2, <2>6, <1>b DEF RunAt, StopAt, RunGoesOn, StopModes,
           launcherVars, WritePcs, PreStart
      <4> QED BY <4>2, <4>4, <2>1, <2>2, RunStep
    <3>4. CASE Current(a) = Stopped /\ Continue(p, "prove")
      <4>1. files[a][Stopped].live BY <3>4, <1>b, CurrentIsLive, RevisionNumbers
      <4>2. RunGoesOn(p) /\ run'[p].pc = "prove" BY <3>4, <1>a, <1>b, Continues DEF RunPcs
      <4>3. Has(a, Stopped)'
        BY <4>1, <4>2, <2>1, <1>b, RevisionNumbers DEF Has, FilesKeep, FilesKeepAt,
           RunGoesOn
      <4>4. RunAt(p)' /\ ~PreStart(p)'
        BY <4>3, <4>2, <3>1, <2>2, <2>6, <1>b DEF RunAt, StopAt, RunGoesOn, StopModes,
           launcherVars, WritePcs, PreStart
      <4> QED BY <4>2, <4>4, <2>1, <2>2, RunStep
    <3>5. CASE Finish(p, "unknown")
      <4>2. RunGoesOn(p) /\ run'[p].pc = "done" /\ run'[p].result = "unknown"
        BY <3>5, <1>a, <1>b, Finishes DEF Results
      <4>4. RunAt(p)' /\ ~PreStart(p)'
        BY <4>2, <3>1, <2>2, <2>6, <1>b DEF RunAt, StopAt, RunGoesOn, StopModes,
           launcherVars, WritePcs, PreStart
      <4> QED BY <4>2, <4>4, <2>1, <2>2, RunStep
    <3>6. \/ Current(a) = Started /\ Record(p, Stopping)
          \/ Current(a) = Stopping /\ Continue(p, "stop")
          \/ Current(a) = Stopped /\ Continue(p, "prove")
          \/ Finish(p, "unknown")
          \/ Finish(p, "failed")
      BY <3>1, RevisionNumbers DEF StopFound
    <3> QED BY <3>2, <3>3, <3>4, <3>5, <3>6, <2>3
  <2> QED BY <2>4, <2>5, <2>6, <1>a, <1>b DEF SupervisorTypes, RunRecords, Modes, StopModes
<1> QED BY <1>1, <1>2 DEF ReadState

(* A launch that goes on after a step of another attempt.                  *)
LEMMA LaunchStays ==
    ASSUME NEW q \in Procs, LaunchAt(q), run'[q] = run[q],
           box'[run[q].a] = box[run[q].a], starts'[run[q].a] = starts[run[q].a],
           <<"start", run[q].a>> \in stray' <=> <<"start", run[q].a>> \in stray,
           PreStart(q)' => PreStart(q), ~Gone(run[q].a) => ~Gone(run[q].a)',
           \A s \in Revisions : /\ files'[run[q].a][s].live <=> files[run[q].a][s].live
                                /\ Has(run[q].a, s) => files'[run[q].a][s].live /\ files'[run[q].a][s].kept
    PROVE  LaunchAt(q)'
<1> DEFINE b == run[q].a
           r == run[q].rev
<1>1. \A s \in Revisions : /\ Has(b, s) => (files'[b][s].live /\ files'[b][s].kept)
                           /\ files'[b][s].live <=> files[b][s].live
  BY SMTT(30)
<1>2. run[q].pc \in WritePcs =>
            /\ r \in {Preparing, Created, Started}
            /\ \A o \in Revisions : o < r => Has(b, o)'
            /\ \A o \in Revisions : o > r => ~files'[b][o].live
            /\ files'[b][r].live <=> run[q].pc = "sync"
            /\ r = Preparing => box[b] = "none"
            /\ r = Created => box[b] = "created"
  BY ZenonT(60), <1>1, RevisionNumbers DEF LaunchAt, Has
<1>3. run[q].pc \in {"read", "authority"} =>
            box[b] = "none" /\ \A o \in Revisions : ~files'[b][o].live
  BY SMTT(30), <1>1 DEF LaunchAt
<1>4. run[q].pc = "create" => box[b] = "none" /\ Has(b, Preparing)' /\ ~files'[b][Created].live
  BY SMTT(30), <1>1, RevisionNumbers DEF LaunchAt, Has
<1>5. run[q].pc = "start" => box[b] = "created" /\ Has(b, Created)' /\ ~files'[b][Started].live
  BY SMTT(30), <1>1, RevisionNumbers DEF LaunchAt, Has
<1>6. run[q].pc = "running" => Has(b, Created)' /\ ~files'[b][Started].live
  BY SMTT(30), <1>1, RevisionNumbers DEF LaunchAt, Has
<1>7. run[q].pc = "done" /\ run[q].result = "started" => starts[b] = 1 /\ Has(b, Started)'
  BY <1>1, RevisionNumbers DEF LaunchAt, Has
<1>8. PreStart(q)' => starts[b] = 0 /\ <<"start", b>> \notin stray BY DEF LaunchAt
<1>9. run[q].pc = "running" \/ (run[q].pc \in WritePcs /\ r = Started) => starts[b] = 1
  BY DEF LaunchAt
<1>10. /\ run[q].pc \in {"read", "authority", "create", "start", "running", "hung",
                        "done"} \cup WritePcs
       /\ run[q].pc = "done" => run[q].result \in {"started", "failed"}
       /\ ~Gone(b)'
  BY DEF LaunchAt
<1> QED BY ZenonT(60), <1>2, <1>3, <1>4, <1>5, <1>6, <1>7, <1>8, <1>9, <1>10 DEF LaunchAt, Has

-----------------------------------------------------------------------------
(* A step that touches the container of one attempt, and no file.          *)
LEMMA ContainerKeeps ==
    ASSUME Core, NEW a \in Attempts, Begun(a),
           UNCHANGED <<files, auth, exposed>>,
           \A b \in Attempts \ {a} :
              /\ box'[b] = box[b] /\ starts'[b] = starts[b]
              /\ \A c \in Commands : <<c, b>> \in stray' <=> <<c, b>> \in stray,
           \A q \in Procs :
              /\ run'[q].mode = run[q].mode /\ run'[q].a = run[q].a
              /\ run'[q] = run[q] \/ (run[q].a = a /\ RunAt(q)' /\ (PreStart(q)' => PreStart(q)))
              /\ LaunchRun(q, a) => LaunchAt(q)',
           BoxAt(a)', StrayAt(a)',
           Ran(a) => Ran(a)', Dead(a) => Dead(a)', StoppedDown(a) => StoppedDown(a)',
           auth.launch[a] = "started" /\ box[a] \in {"exited", "none"}
              => box'[a] \in {"exited", "none"}
    PROVE  SupervisorInv' /\ Stable
<1> USE DEF Core, SupervisorInv
<1>a. \A b \in Attempts, r \in Revisions : Has(b, r)' <=> Has(b, r) BY DEF Has
<1>b. \A b \in Attempts : (Gone(b)' <=> Gone(b)) /\ (Begun(b)' <=> Begun(b))
  BY DEF Gone, Begun
<1>c. \A q \in Procs, b \in Attempts : LaunchRun(q, b)' <=> LaunchRun(q, b) BY DEF LaunchRun
<1>d. \A b \in Attempts \ {a} :
        /\ <<"start", b>> \in stray' <=> <<"start", b>> \in stray
        /\ <<"create", b>> \in stray' <=> <<"create", b>> \in stray
  BY DEF Commands
<1>e. \A q \in Procs, b \in Attempts : b # a /\ run[q].a = b => run'[q] = run[q]
  OBVIOUS
<1>1. Stable
  <2>1. ASSUME NEW b \in Attempts, b # a
        PROVE (Ran(b) => Ran(b)') /\ (Dead(b) => Dead(b)') /\ (StoppedDown(b) => StoppedDown(b)')
    <3>1. Ran(b) => Ran(b)' BY <2>1, <1>a, <1>b, <1>c, <1>d, RevisionNumbers DEF Ran, Quiet
    <3>2. Dead(b) => Dead(b)'
      BY ZenonT(60), <2>1, <1>c, <1>d, <1>e DEF Dead, LaunchRun, PreStart
    <3>3. StoppedDown(b) => StoppedDown(b)'
      BY <2>1, <1>a, <1>b, RevisionNumbers DEF StoppedDown
    <3> QED BY <3>1, <3>2, <3>3
  <2> QED BY <2>1 DEF Stable
<1>2. BegunInv'
  <2>1. \A q \in Procs : run'[q].mode # "none" => Begun(run[q].a)' BY DEF BegunInv, Begun
  <2>2. ASSUME NEW b \in Attempts, ~Begun(b)
        PROVE  /\ box'[b] = "none" /\ starts'[b] = 0
               /\ <<"create", b>> \notin stray' /\ <<"start", b>> \notin stray'
               /\ \A r \in Revisions : ~files'[b][r].live /\ ~files'[b][r].kept
    BY <2>2, <1>d DEF BegunInv
  <2>3. \A b \in Attempts : auth'.launch[b] = "started" => Ran(b)'
    BY <1>1 DEF BegunInv, Stable
  <2>4. \A q \in Procs : run'[q].a = run[q].a
    OBVIOUS
  <2> QED BY <2>1, <2>2, <2>3, <2>4, <1>b DEF BegunInv
<1>3. FilesInv' BY <1>a, <1>b DEF FilesInv, FilesAt, Gone, Has
<1>4. BoxInv'
  <2>1. ASSUME NEW b \in Attempts, b # a PROVE BoxAt(b)'
    BY <2>1, <1>a, <1>b, RevisionNumbers DEF BoxInv, BoxAt
  <2> QED BY <2>1 DEF BoxInv
<1>5. StrayInv'
  <2>1. ASSUME NEW b \in Attempts, b # a PROVE StrayAt(b)'
    <3>1. StrayAt(b) BY DEF StrayInv
    <3>2. \A q \in Procs : LaunchRun(q, b) => run'[q] = run[q] BY <2>1, <1>e DEF LaunchRun
    <3> QED BY <3>1, <3>2, <2>1, <1>a, <1>c, <1>d, RevisionNumbers DEF StrayAt
  <2> QED BY <2>1 DEF StrayInv
<1>6. RunInv'
  <2>1. OneLaunch' BY <1>c DEF RunInv, OneLaunch
  <2>2. ASSUME NEW q \in Procs, run'[q] = run[q] PROVE RunAt(q)'
    <3>1. RunAt(q) BY DEF RunInv
    <3>2. ASSUME run[q].mode = "launch" PROVE LaunchAt(q)'
      <4>1. CASE run[q].a = a BY <4>1, <3>2 DEF LaunchRun
      <4>2. CASE run[q].a # a
        <5>1. LaunchAt(q) /\ run[q].a \in Attempts BY <3>1, <3>2, RunLives DEF RunAt
        <5> DEFINE b == run[q].a
        <5>2. box'[b] = box[b] /\ starts'[b] = starts[b]
              /\ (<<"start", b>> \in stray' <=> <<"start", b>> \in stray)
              /\ (Gone(b)' <=> Gone(b)) /\ \A r \in Revisions : Has(b, r)' <=> Has(b, r)
          BY <5>1, <4>2, <2>2, <1>a, <1>b, <1>d
        <5>3. PreStart(q)' <=> PreStart(q) BY <2>2 DEF PreStart
        <5>4. run'[q] = run[q] /\ files' = files BY <2>2
        <5> HIDE DEF b
        <5> QED BY <5>1, <5>2, <5>3, <5>4, <2>2, LaunchStays DEF Has, b
      <4> QED BY <4>1, <4>2
    <3>3. ASSUME run[q].mode = "reconcile" PROVE ReconcileAt(q)'
      <4>1. ReconcileAt(q) /\ run[q].a \in Attempts BY <3>1, <3>3, RunLives DEF RunAt
      <4> QED BY <4>1, <2>2, <1>1 DEF ReconcileAt, Stable
    <3>4. ASSUME run[q].mode \in StopModes PROVE StopAt(q)'
      <4>0. run[q].mode # "none" BY <3>4 DEF StopModes
      <4>1. StopAt(q) /\ run[q].a \in Attempts /\ auth.launch[run[q].a] = "started"
        BY <3>1, <3>4, <4>0, RunLives DEF RunAt
      <4>2. box[run[q].a] \in {"exited", "none"} => box'[run[q].a] \in {"exited", "none"}
        BY <4>1
      <4> QED BY <4>1, <4>2, <2>2, <1>1, <1>a, RevisionNumbers DEF StopAt, Stable
    <3> QED BY <3>2, <3>3, <3>4, <2>2 DEF RunAt
  <2> QED BY <2>1, <2>2 DEF RunInv
<1> QED BY <1>1, <1>2, <1>3, <1>4, <1>5, <1>6

-----------------------------------------------------------------------------
(* The commands of a run, one lemma for each.                              *)
LEMMA HereIs ==
    ASSUME Core, NEW p \in Procs, run[p].pc # "idle"
    PROVE  /\ run[p].mode # "none" /\ run[p].a \in Attempts
           /\ Begun(run[p].a) /\ RunAt(p)
           /\ run[p].mode \in {"launch", "reconcile"} \cup StopModes
           /\ SupervisorTypes /\ FilesInv
           /\ BoxAt(run[p].a) /\ StrayAt(run[p].a)
<1>1. run[p].mode # "none" BY DEF Core, RunsForCall, RunFor
<1>2. run[p].mode \in Modes BY DEF Core, SupervisorTypes, RunRecords
<1> QED BY <1>1, <1>2, RunLives DEF Core, SupervisorInv, BoxInv, StrayInv, Modes, StopModes

LEMMA SamePlace ==
    ASSUME Core, UNCHANGED files
    PROVE  FilesKeep
  BY SameFilesKeep DEF Core, SupervisorInv

LEMMA AcquireKeeps ==
    ASSUME Core, NEW p \in Procs, AcquireFilesystemAuthority(p), UNCHANGED launcherVars
    PROVE  Kept
<1> DEFINE a == run[p].a
<1>1. run[p].pc = "authority" /\ UNCHANGED <<files, box, stray, starts, launcherVars>> /\ FilesKeep
  BY SamePlace DEF AcquireFilesystemAuthority, At
<1>2. a \in Attempts /\ RunAt(p) /\ run[p].mode = "launch" /\ LaunchAt(p) /\ ~Gone(a)
  BY <1>1, HereIs, RunLives DEF RunAt, ReconcileAt, StopAt, WritePcs
<1>3. CASE Finish(p, "failed") BY <1>1, <1>2, <1>3, RunFails
<1>4. CASE Record(p, Preparing)
  <2>1. RunGoesOn(p) /\ run'[p].pc = "open" /\ run'[p].rev = Preparing
    BY <1>1, <1>2, <1>4, Records, RevisionNumbers DEF Core
  <2>2. PreStart(p) BY <1>1 DEF PreStart
  <2>3. RunAt(p)'
    BY SMTT(30), <1>1, <1>2, <2>1, <2>2, RevisionNumbers DEF RunAt, LaunchAt, WritePcs,
       launcherVars, Gone, RunGoesOn, StopModes
  <2> QED BY <2>1, <2>2, <2>3, <1>1, RunStep
<1> QED BY <1>3, <1>4 DEF AcquireFilesystemAuthority

(* Without a lost lock nobody else launches or reconciles the attempt.     *)
LEMMA AloneAsking ==
    ASSUME Core, ~exposed, NEW p \in Procs, NEW q \in Procs,
           run[p].mode \in {"launch", "reconcile"}, run[q].mode \in {"launch", "reconcile"},
           run[p].a = run[q].a
    PROVE  p = q
<1>1. ASSUME NEW o \in Procs, run[o].mode \in {"launch", "reconcile"}
      PROVE  guard["launch"][run[o].a] = o
  <2>1. run[o].mode \in ModesOf(call[o].pc) /\ run[o].a = call[o].a
    BY <1>1 DEF Core, RunsForCall, RunFor
  <2>2. call[o].pc \in LaunchPcs /\ call[o].pc # "idle" BY <1>1, <2>1 DEF ModesOf, LaunchPcs
  <2> QED BY <2>1, <2>2 DEF Core, CallsHold, HoldAt, Held
<1> QED BY <1>1

(* A container that has exited, or that nobody will create, is dead.       *)
LEMMA AskedIsDead ==
    ASSUME Core, ~exposed, NEW p \in Procs, run[p].mode = "reconcile",
           \/ box[run[p].a] = "exited"
           \/ box[run[p].a] = "none" /\ ~files[run[p].a][Created].live
    PROVE  Dead(run[p].a)
<1>1. run[p].a \in Attempts /\ Begun(run[p].a) BY RunLives
<1>2. BoxAt(run[p].a) /\ StrayAt(run[p].a) BY <1>1 DEF Core, SupervisorInv, BoxInv, StrayInv
<1>3. \A q \in Procs : ~LaunchRun(q, run[p].a)
  <2> SUFFICES ASSUME NEW q \in Procs, LaunchRun(q, run[p].a) PROVE FALSE
    OBVIOUS
  <2>1. p = q BY AloneAsking DEF LaunchRun
  <2> QED BY <2>1 DEF LaunchRun
<1>4. <<"start", run[p].a>> \notin stray BY <1>2 DEF BoxAt, StrayAt, Has
<1> QED BY <1>1, <1>3, <1>4 DEF Dead, Begun

LEMMA ListKeeps ==
    ASSUME Core, NEW p \in Procs, ListContainers(p), UNCHANGED launcherVars
    PROVE  Kept
<1> DEFINE a == run[p].a
           found == CASE box[a] = "none" -> "not-started"
                      [] box[a] = "exited" -> "exited"
                      [] OTHER -> "failed"
<1>1. run[p].pc = "list" /\ UNCHANGED <<files, box, stray, starts, launcherVars>> /\ FilesKeep
  BY SamePlace DEF ListContainers, At, Podman
<1>2. a \in Attempts /\ run[p].mode = "reconcile" /\ ReconcileAt(p)
  BY <1>1, HereIs DEF RunAt, LaunchAt, StopAt, WritePcs
<1>3. Finish(p, "failed") \/ Finish(p, found) BY DEF ListContainers, Podman
<1>4. CASE Finish(p, "failed") BY <1>1, <1>2, <1>4, RunFails
<1>5. CASE Finish(p, found) /\ found # "failed"
  <2>1. RunGoesOn(p) /\ run'[p].pc = "done" /\ run'[p].result = found
    BY <1>1, <1>2, <1>5, Finishes DEF Core, Results
  <2>2. ~exposed => Dead(a) BY <1>1, <1>2, <1>5, AskedIsDead DEF ReconcileAt
  <2>3. run'[p].a = a /\ run'[p].mode = run[p].mode /\ \A q \in Procs \ {p} : run'[q] = run[q]
    BY <2>1 DEF RunGoesOn
  <2>4. ~PreStart(p)' BY <2>1 DEF PreStart, WritePcs
  <2>5. Dead(a) => Dead(run[p].a)'
    BY <1>1, <2>3, <2>4 DEF Dead, LaunchRun, PreStart, launcherVars
  <2>6. RunAt(p)'
    BY <1>1, <1>2, <2>1, <2>2, <2>3, <2>5, <1>5 DEF RunAt, ReconcileAt, StopModes,
       launcherVars
  <2> QED BY <2>1, <2>4, <2>6, <1>1, RunStep
<1> QED BY <1>3, <1>4, <1>5

LEMMA ObserveKeeps ==
    ASSUME Core, NEW p \in Procs, ObserveContainer(p), UNCHANGED launcherVars
    PROVE  Kept
<1> DEFINE a == run[p].a
<1>1. run[p].pc = "observe" /\ UNCHANGED <<files, box, stray, starts, launcherVars>> /\ FilesKeep
  BY SamePlace DEF ObserveContainer, At, Podman
<1>2. a \in Attempts /\ run[p].mode = "reconcile" /\ ReconcileAt(p)
  BY <1>1, HereIs DEF RunAt, LaunchAt, StopAt, WritePcs
<1>3. Finish(p, "failed") \/ (Finish(p, "exited") /\ box[a] = "exited")
  BY DEF ObserveContainer, Podman
<1>4. CASE Finish(p, "failed") BY <1>1, <1>2, <1>4, RunFails
<1>5. CASE Finish(p, "exited") /\ box[a] = "exited"
  <2>1. RunGoesOn(p) /\ run'[p].pc = "done" /\ run'[p].result = "exited"
    BY <1>1, <1>2, <1>5, Finishes DEF Core, Results
  <2>2. ~exposed => Dead(a) BY <1>1, <1>2, <1>5, AskedIsDead
  <2>3. run'[p].a = a /\ run'[p].mode = run[p].mode /\ \A q \in Procs \ {p} : run'[q] = run[q]
    BY <2>1 DEF RunGoesOn
  <2>4. ~PreStart(p)' BY <2>1 DEF PreStart, WritePcs
  <2>5. Dead(a) => Dead(run[p].a)'
    BY <1>1, <2>3, <2>4 DEF Dead, LaunchRun, PreStart, launcherVars
  <2>6. RunAt(p)'
    BY <1>1, <1>2, <2>1, <2>2, <2>3, <2>5, <1>5 DEF RunAt, ReconcileAt, StopModes,
       launcherVars
  <2> QED BY <2>1, <2>4, <2>6, <1>1, RunStep
<1> QED BY <1>3, <1>4, <1>5

LEMMA ProveRunningKeeps ==
    ASSUME Core, NEW p \in Procs, ProveRunning(p), UNCHANGED launcherVars
    PROVE  Kept
<1> DEFINE a == run[p].a
<1>1. run[p].pc = "running" /\ UNCHANGED <<files, box, stray, starts, launcherVars>> /\ FilesKeep
  BY SamePlace DEF ProveRunning, At, Podman
<1>2. a \in Attempts /\ run[p].mode = "launch" /\ LaunchAt(p) /\ ~Gone(a) /\ FilesInv
  BY <1>1, HereIs, RunLives DEF RunAt, ReconcileAt, StopAt, WritePcs
<1>3. Finish(p, "failed") \/ Record(p, Started) BY DEF ProveRunning, Podman
<1>4. CASE Finish(p, "failed") BY <1>1, <1>2, <1>4, RunFails
<1>5. CASE Record(p, Started)
  <2>1. RunGoesOn(p) /\ run'[p].pc = "open" /\ run'[p].rev = Started
    BY <1>1, <1>2, <1>5, Records, RevisionNumbers DEF Core
  <2>2. Has(a, Created) /\ ~files[a][Started].live /\ starts[a] = 1
    BY <1>1, <1>2 DEF LaunchAt
  <2>3. \A q \in Revisions : (q < Started => Has(a, q)) /\ (q > Started => ~files[a][q].live)
    BY SMTT(30), <1>2, <2>2, RevisionNumbers DEF FilesInv, FilesAt, Has
  <2>4. ~PreStart(p)' BY <2>1, RevisionNumbers DEF PreStart
  <2>5. run'[p].a = a /\ run'[p].mode = run[p].mode BY <2>1 DEF RunGoesOn
  <2>6. LaunchAt(p)'
    BY SMTT(30), <1>1, <1>2, <2>1, <2>2, <2>3, <2>4, <2>5, RevisionNumbers DEF LaunchAt,
       WritePcs, launcherVars, Gone, Has
  <2>7. RunAt(p)' BY <2>6, <2>5, <1>2 DEF RunAt, StopModes
  <2> QED BY <2>1, <2>4, <2>7, <1>1, RunStep
<1> QED BY <1>3, <1>4, <1>5

LEMMA CommandKeeps ==
    ASSUME Core, NEW p \in Procs, NEW a \in Attempts, run[p].a = a,
           UNCHANGED <<files, launcherVars>>,
           box' \in [Attempts -> Boxes], starts' \in [Attempts -> Nat],
           stray' \in SUBSET (Commands \X Attempts),
           \A b \in Attempts \ {a} :
              /\ box'[b] = box[b] /\ starts'[b] = starts[b]
              /\ \A c \in Commands : <<c, b>> \in stray' <=> <<c, b>> \in stray,
           RunGoesOn(p), RunAt(p)', PreStart(p)' => PreStart(p),
           \A q \in Procs \ {p} : ~LaunchRun(q, a),
           BoxAt(a)', StrayAt(a)',
           Ran(a) => Ran(a)', Dead(a) => Dead(a)', StoppedDown(a) => StoppedDown(a)',
           auth.launch[a] = "started" /\ box[a] \in {"exited", "none"}
              => box'[a] \in {"exited", "none"}
    PROVE  Kept
<1>1. Begun(a) BY RunLives DEF RunGoesOn
<1>2. \A q \in Procs : run'[q].mode = run[q].mode /\ run'[q].a = run[q].a BY DEF RunGoesOn
<1>3. \A q \in Procs : run'[q] = run[q] \/ (run[q].a = a /\ RunAt(q)' /\ (PreStart(q)' => PreStart(q)))
  BY DEF RunGoesOn
<1>4. LaunchRun(p, a) => LaunchAt(p)' BY <1>2 DEF LaunchRun, RunAt
<1>5. \A q \in Procs : LaunchRun(q, a) => LaunchAt(q)' BY <1>4
<1>6. SupervisorInv' /\ Stable BY <1>1, <1>2, <1>3, <1>5, ContainerKeeps DEF launcherVars
<1>7. SupervisorTypes' BY DEF Core, SupervisorTypes, RunGoesOn
<1>8. RunsForCall' BY RunStays DEF Core, launcherVars
<1> QED BY <1>6, <1>7, <1>8 DEF Kept

LEMMA OnlyLaunch ==
    ASSUME Core, NEW p \in Procs, run[p].mode = "launch", run[p].pc # "idle"
    PROVE  \A q \in Procs \ {p} : ~LaunchRun(q, run[p].a)
<1>1. run[p].a \in Attempts /\ LaunchRun(p, run[p].a) BY HereIs DEF LaunchRun
<1> QED BY <1>1 DEF Core, SupervisorInv, RunInv, OneLaunch

LEMMA CreateKeeps ==
    ASSUME Core, NEW p \in Procs, NEW a, a = run[p].a,
           CreateContainer(p), UNCHANGED launcherVars
    PROVE  Kept
<1>1. run[p].pc = "create" /\ UNCHANGED <<files, stray, starts, launcherVars>> /\ FilesKeep
  BY SamePlace DEF CreateContainer, At
<1>2. a \in Attempts /\ run[p].mode = "launch" /\ LaunchAt(p) /\ ~Gone(a) /\ FilesInv
      /\ BoxAt(a) /\ StrayAt(a) /\ SupervisorTypes /\ auth.launch[a] # "started" /\ LaunchRun(p, a)
  BY <1>1, HereIs, RunLives DEF RunAt, ReconcileAt, StopAt, WritePcs, LaunchRun
<1>3. box[a] = "none" /\ Has(a, Preparing) /\ ~files[a][Created].live /\ PreStart(p)
      /\ starts[a] = 0 /\ <<"start", a>> \notin stray /\ <<"create", a>> \notin stray
  BY <1>1, <1>2 DEF LaunchAt, PreStart, StrayAt
<1>4. \/ Finish(p, "failed") /\ UNCHANGED box
      \/ box' = [box EXCEPT ![a] = "created"] /\ Record(p, Created)
      \/ box' = [box EXCEPT ![a] = "created"] /\ Finish(p, "failed")
  BY DEF CreateContainer, Podman
<1>5. CASE Finish(p, "failed") /\ UNCHANGED box BY <1>1, <1>2, <1>5, RunFails
<1>6. CASE box' = [box EXCEPT ![a] = "created"] /\ (Record(p, Created) \/ Finish(p, "failed"))
  <2>1. RunGoesOn(p) /\ \/ run'[p].pc = "open" /\ run'[p].rev = Created
                        \/ run'[p].pc = "done" /\ run'[p].result = "failed"
    BY <1>1, <1>2, <1>6, Records, Finishes, RevisionNumbers DEF Results
  <2>2. run'[p].a = a /\ run'[p].mode = "launch" BY <1>2, <2>1 DEF RunGoesOn
  <2>3. box'[a] = "created" /\ box' \in [Attempts -> Boxes] /\ \A b \in Attempts \ {a} : box'[b] = box[b]
    BY <1>2, <1>6 DEF SupervisorTypes, Boxes
  <2>4. \A q \in Revisions : q > Created => ~files[a][q].live
    BY SMTT(30), <1>2, <1>3, RevisionNumbers DEF FilesInv, FilesAt, Has
  <2>5. RunAt(p)'
    <3>1. CASE run'[p].pc = "open" /\ run'[p].rev = Created
      <4>1. LaunchAt(p)'
        BY SMTT(30), <3>1, <1>1, <1>2, <1>3, <2>2, <2>3, <2>4, RevisionNumbers DEF LaunchAt,
           WritePcs, launcherVars, Gone, Has, PreStart
      <4> QED BY <4>1, <2>2 DEF RunAt, StopModes
    <3>2. CASE run'[p].pc = "done" /\ run'[p].result = "failed"
      BY <3>2, <2>1, <1>1, <1>2, FailsAt DEF launcherVars
    <3> QED BY <2>1, <3>1, <3>2
  <2>6. Gone(a)' <=> Gone(a) BY <1>1 DEF launcherVars, Gone
  <2>7. BoxAt(a)' BY <1>1, <1>2, <1>3, <2>3, <2>4, <2>6, RevisionNumbers DEF BoxAt, Has
  <2>8. StrayAt(a)' BY <1>1, <1>3 DEF StrayAt
  <2>9. ~Ran(a) /\ ~Dead(a) /\ ~StoppedDown(a)
    BY <1>2, <1>3, <2>4, RevisionNumbers DEF Ran, Quiet, Dead, StoppedDown, Has
  <2>10. \A q \in Procs \ {p} : ~LaunchRun(q, a) BY <1>1, <1>2, OnlyLaunch
  <2>11. starts' \in [Attempts -> Nat] /\ stray' \in SUBSET (Commands \X Attempts)
    BY <1>1, <1>2 DEF SupervisorTypes
  <2> QED BY <1>1, <1>2, <1>3, <2>1, <2>3, <2>5, <2>7, <2>8, <2>9, <2>10, <2>11, CommandKeeps
<1> QED BY <1>4, <1>5, <1>6

LEMMA StartKeeps ==
    ASSUME Core, NEW p \in Procs, NEW a, a = run[p].a,
           StartContainer(p), UNCHANGED launcherVars
    PROVE  Kept
<1>1. run[p].pc = "start" /\ UNCHANGED <<files, launcherVars>> /\ FilesKeep
  BY SamePlace DEF StartContainer, At
<1>2. a \in Attempts /\ run[p].mode = "launch" /\ LaunchAt(p) /\ ~Gone(a) /\ FilesInv
      /\ BoxAt(a) /\ StrayAt(a) /\ SupervisorTypes /\ auth.launch[a] # "started" /\ LaunchRun(p, a)
  BY <1>1, HereIs, RunLives DEF RunAt, ReconcileAt, StopAt, WritePcs, LaunchRun
<1>3. box[a] = "created" /\ Has(a, Created) /\ ~files[a][Started].live /\ PreStart(p)
      /\ starts[a] = 0 /\ <<"start", a>> \notin stray /\ <<"create", a>> \notin stray
  BY <1>1, <1>2 DEF LaunchAt, PreStart, StrayAt
<1>4. \/ Finish(p, "failed") /\ UNCHANGED <<box, starts, stray>>
      \/ Execute(a) /\ Continue(p, "running") /\ UNCHANGED stray
      \/ stray' = stray \cup {<<"start", a>>} /\ Continue(p, "hung") /\ UNCHANGED <<box, starts>>
  BY <1>3 DEF StartContainer
<1>5. ~files[a][Stopped].live /\ Has(a, Preparing)
  BY SMTT(30), <1>2, <1>3, RevisionNumbers DEF FilesInv, FilesAt, Has
<1>6. \A q \in Procs \ {p} : ~LaunchRun(q, a) BY <1>1, <1>2, OnlyLaunch
<1>7. ~Ran(a) /\ ~Dead(a) /\ ~StoppedDown(a) BY <1>2, <1>3 DEF Ran, Quiet, Dead, StoppedDown
<1>8. Gone(a)' <=> Gone(a) BY <1>1 DEF launcherVars, Gone
<1>9. CASE Finish(p, "failed") /\ UNCHANGED <<box, starts, stray>>
  BY <1>1, <1>2, <1>9, RunFails
<1>10. CASE Execute(a) /\ Continue(p, "running") /\ UNCHANGED stray
  <2>1. RunGoesOn(p) /\ run'[p].pc = "running" BY <1>1, <1>2, <1>10, Continues DEF RunPcs
  <2>2. run'[p].a = a /\ run'[p].mode = "launch" BY <1>2, <2>1 DEF RunGoesOn
  <2>3. /\ box' = [box EXCEPT ![a] = "running"] /\ starts' = [starts EXCEPT ![a] = starts[a] + 1]
    BY <1>3, <1>10 DEF Execute
  <2>4. /\ box'[a] = "running" /\ box' \in [Attempts -> Boxes]
        /\ starts'[a] = 1 /\ starts' \in [Attempts -> Nat]
        /\ \A b \in Attempts \ {a} : box'[b] = box[b] /\ starts'[b] = starts[b]
    BY <1>2, <1>3, <2>3 DEF SupervisorTypes, Boxes
  <2>5. ~PreStart(p)' BY <2>1 DEF PreStart, WritePcs
  <2>6. LaunchAt(p)'
    BY <1>1, <1>2, <1>3, <1>8, <2>1, <2>2, <2>4, <2>5, RevisionNumbers DEF LaunchAt,
       WritePcs, Has
  <2>7. RunAt(p)' BY <2>2, <2>6 DEF RunAt, StopModes
  <2>8. BoxAt(a)' /\ StrayAt(a)'
    <3>1. BoxAt(a)' BY <1>1, <1>2, <1>3, <1>5, <1>8, <2>4, RevisionNumbers DEF BoxAt, Has
    <3>2. stray' = stray BY <1>10
    <3>3. StrayAt(a)' BY <1>3, <3>2 DEF StrayAt
    <3> QED BY <3>1, <3>3
  <2>9. stray' \in SUBSET (Commands \X Attempts) BY <1>2, <1>10 DEF SupervisorTypes
  <2> QED BY <1>1, <1>2, <1>6, <1>7, <1>10, <2>1, <2>4, <2>5, <2>7, <2>8, <2>9, CommandKeeps
<1>11. CASE stray' = stray \cup {<<"start", a>>} /\ Continue(p, "hung") /\ UNCHANGED <<box, starts>>
  <2>1. RunGoesOn(p) /\ run'[p].pc = "hung" BY <1>1, <1>2, <1>11, Continues DEF RunPcs
  <2>2. run'[p].a = a /\ run'[p].mode = "launch" /\ \A q \in Procs \ {p} : run'[q] = run[q]
    BY <1>2, <2>1 DEF RunGoesOn
  <2>3. ~PreStart(p)' BY <2>1 DEF PreStart, WritePcs
  <2>4. LaunchAt(p)' BY <1>2, <1>8, <2>1, <2>2, <2>3 DEF LaunchAt, WritePcs
  <2>5. RunAt(p)' BY <2>2, <2>4 DEF RunAt, StopModes
  <2>6. \A q \in Procs : LaunchRun(q, a)' => q = p BY <2>2, <1>6 DEF LaunchRun
  <2>7. BoxAt(a)' /\ StrayAt(a)'
    <3>1. <<"create", a>> \notin stray' BY <1>3, <1>11
    <3> QED BY <1>1, <1>2, <1>3, <1>8, <1>11, <2>1, <2>6, <3>1, RevisionNumbers DEF BoxAt, StrayAt, Has
  <2>8. stray' \in SUBSET (Commands \X Attempts)
        /\ \A b \in Attempts \ {a}, c \in Commands : <<c, b>> \in stray' <=> <<c, b>> \in stray
    BY <1>2, <1>11 DEF SupervisorTypes, Commands
  <2>9. box' \in [Attempts -> Boxes] /\ starts' \in [Attempts -> Nat]
    BY <1>2, <1>11 DEF SupervisorTypes
  <2> QED BY <1>1, <1>2, <1>6, <1>7, <1>11, <2>1, <2>3, <2>5, <2>7, <2>8, <2>9, CommandKeeps
<1> QED BY <1>4, <1>9, <1>10, <1>11

(* A container of a started launch that is stopped or removed.             *)
LEMMA EndKeeps ==
    ASSUME Core, NEW p \in Procs, NEW a, a = run[p].a,
           run[p].mode # "none", run[p].pc # "idle",
           auth.launch[run[p].a] = "started",
           NEW to \in {"exited", "none"}, box[run[p].a] = "none" => to = "none",
           UNCHANGED <<files, stray, starts, launcherVars>>,
           box' = [box EXCEPT ![run[p].a] = to],
           RunGoesOn(p), RunAt(p)', ~PreStart(p)'
    PROVE  Kept
<1>1. a \in Attempts /\ SupervisorTypes /\ BoxAt(a) /\ StrayAt(a) /\ Ran(a)
  BY HereIs DEF Core, SupervisorInv, BegunInv
<1>2. box'[a] = to /\ box' \in [Attempts -> Boxes] /\ \A b \in Attempts \ {a} : box'[b] = box[b]
  BY <1>1 DEF SupervisorTypes, Boxes
<1>3. \A q \in Procs : ~LaunchRun(q, a) /\ ~LaunchRun(q, a)'
  BY <1>1 DEF Ran, Quiet, LaunchRun, RunGoesOn
<1>4. (Gone(a)' <=> Gone(a)) /\ (Begun(a)' <=> Begun(a)) /\ auth'.launch[a] = auth.launch[a]
      /\ \A r \in Revisions : Has(a, r)' <=> Has(a, r)
  BY DEF launcherVars, Gone, Begun, Has
<1>5. BoxAt(a)' /\ StrayAt(a)'
  BY <1>1, <1>2, <1>4, RevisionNumbers DEF BoxAt, StrayAt, Ran, Quiet
<1>6. Ran(a)' BY <1>1, <1>3, <1>4, RevisionNumbers DEF Ran, Quiet
<1>7. Dead(a) => Dead(a)' BY <1>2, <1>3, <1>4 DEF Dead
<1>8. StoppedDown(a) => StoppedDown(a)' BY <1>2, <1>4, RevisionNumbers DEF StoppedDown
<1>9. starts' \in [Attempts -> Nat] /\ stray' \in SUBSET (Commands \X Attempts)
  BY <1>1 DEF SupervisorTypes
<1> QED BY <1>1, <1>2, <1>3, <1>5, <1>6, <1>7, <1>8, <1>9, CommandKeeps

LEMMA StopKeeps ==
    ASSUME Core, NEW p \in Procs, StopContainer(p), UNCHANGED launcherVars
    PROVE  Kept
<1> DEFINE a == run[p].a
<1>1. run[p].pc = "stop" /\ UNCHANGED <<files, stray, starts, launcherVars>> /\ FilesKeep
  BY SMTT(30), SamePlace DEF StopContainer, At
<1>2. a \in Attempts /\ run[p].mode \in StopModes /\ run[p].mode # "none" /\ StopAt(p)
      /\ ~Gone(a) /\ FilesInv /\ SupervisorTypes /\ auth.launch[a] = "started"
  BY <1>1, HereIs, RunLives DEF RunAt, ReconcileAt, LaunchAt, WritePcs
<1>3. \/ Finish(p, "failed") /\ UNCHANGED box
      \/ /\ box[a] \in {"running", "exited"} /\ box' = [box EXCEPT ![a] = "exited"]
         /\ Record(p, Stopped) \/ Finish(p, "failed")
  BY DEF StopContainer, Podman
<1>4. CASE Finish(p, "failed") /\ UNCHANGED box BY <1>1, <1>2, <1>4, RunFails
<1>5. CASE /\ box[a] \in {"running", "exited"} /\ box' = [box EXCEPT ![a] = "exited"]
           /\ Record(p, Stopped) \/ Finish(p, "failed")
  <2>1. RunGoesOn(p) /\ \/ run'[p].pc = "open" /\ run'[p].rev = Stopped
                        \/ run'[p].pc = "done" /\ run'[p].result = "failed"
    BY <1>1, <1>2, <1>5, Records, Finishes, RevisionNumbers DEF Results
  <2>2. run'[p].a = a /\ run'[p].mode = run[p].mode BY <2>1 DEF RunGoesOn
  <2>3. box'[a] = "exited" BY <1>2, <1>5 DEF SupervisorTypes
  <2>4. Has(a, Stopping) BY <1>1, <1>2 DEF StopAt
  <2>5. \A q \in Revisions : q < Stopped => Has(a, q)
    BY SMTT(30), <1>2, <2>4, RevisionNumbers DEF FilesInv, FilesAt, Has
  <2>6. RunAt(p)' /\ ~PreStart(p)'
    <3>1. CASE run'[p].pc = "open" /\ run'[p].rev = Stopped
      <4>1. StopAt(p)'
        BY <3>1, <1>1, <1>2, <2>2, <2>3, <2>5, RevisionNumbers DEF StopAt, WritePcs,
           launcherVars, Gone, Has
      <4> QED BY <3>1, <4>1, <2>2, <1>2, RevisionNumbers DEF RunAt, StopModes, PreStart
    <3>2. CASE run'[p].pc = "done" /\ run'[p].result = "failed"
      BY <3>2, <2>1, <1>1, <1>2, FailsAt DEF launcherVars
    <3> QED BY <2>1, <3>1, <3>2
  <2> QED BY <1>1, <1>2, <1>5, <2>1, <2>6, EndKeeps
<1> QED BY <1>3, <1>4, <1>5

LEMMA ProveKeeps ==
    ASSUME Core, NEW p \in Procs, ProveNoStoppedContainer(p), UNCHANGED launcherVars
    PROVE  Kept
<1> DEFINE a == run[p].a
           proved == IF run[p].mode \in {"launch", "reconcile"} THEN "proved" ELSE "stopped"
<1>1. run[p].pc = "prove" /\ UNCHANGED <<files, stray, starts, launcherVars>> /\ FilesKeep
  BY SMTT(30), SamePlace DEF ProveNoStoppedContainer, At
<1>2. a \in Attempts /\ run[p].mode \in StopModes \cup {"reconcile"} /\ run[p].mode # "none" /\ RunAt(p)
      /\ SupervisorTypes /\ auth.launch[a] = "started"
  BY <1>1, HereIs, RunLives DEF RunAt, ReconcileAt, LaunchAt, WritePcs
<1>3. \/ Finish(p, "failed") /\ UNCHANGED box
      \/ box' = [box EXCEPT ![a] = "none"] /\ (Finish(p, proved) \/ Finish(p, "failed"))
  BY DEF ProveNoStoppedContainer, Podman
<1>4. CASE Finish(p, "failed") /\ UNCHANGED box BY <1>1, <1>2, <1>4, RunFails
<1>5. CASE box' = [box EXCEPT ![a] = "none"] /\ (Finish(p, proved) \/ Finish(p, "failed"))
  <2>1. RunGoesOn(p) /\ run'[p].pc = "done" /\ run'[p].result \in {proved, "failed"}
    BY <1>1, <1>2, <1>5, Finishes DEF Results
  <2>2. run'[p].a = a /\ run'[p].mode = run[p].mode BY <2>1 DEF RunGoesOn
  <2>3. box'[a] = "none" BY <1>2, <1>5 DEF SupervisorTypes
  <2>4. RunAt(p)' /\ ~PreStart(p)'
    <3>1. CASE run[p].mode = "reconcile" /\ run'[p].result = proved
      <4>1. ReconcileAt(p)'
        BY <3>1, <1>1, <1>2, <2>1, <2>2 DEF RunAt, ReconcileAt, launcherVars
      <4> QED BY <3>1, <4>1, <2>1, <2>2 DEF RunAt, StopModes, PreStart, WritePcs
    <3>2. CASE run[p].mode \in StopModes /\ run'[p].result = proved
      <4>1. StopAt(p) /\ ~Gone(a) /\ Has(a, Stopped)
        BY <3>2, <1>1, <1>2, RunLives DEF RunAt, StopAt
      <4>2. StoppedDown(run[p].a)'
        BY <4>1, <2>2, <2>3, <1>1, RevisionNumbers DEF StoppedDown, Gone, Has, launcherVars
      <4>3. proved = "stopped" BY <3>2 DEF StopModes
      <4>4. StopAt(p)'
        BY <3>2, <4>1, <4>2, <4>3, <1>1, <2>1, <2>2 DEF StopAt, launcherVars, WritePcs
      <4> QED BY <3>2, <4>4, <2>1, <2>2 DEF RunAt, StopModes, PreStart, WritePcs
    <3>3. CASE run'[p].result = "failed" BY <3>3, <2>1, <1>1, <1>2, FailsAt DEF launcherVars
    <3> QED BY <2>1, <1>2, <3>1, <3>2, <3>3
  <2> QED BY <1>1, <1>2, <1>5, <2>1, <2>4, EndKeeps
<1> QED BY SMTT(30), <1>3, <1>4, <1>5

(* A step of no run that touches the container of one attempt.             *)
LEMMA NobodyKeeps ==
    ASSUME Core, NEW a \in Attempts, Begun(a),
           UNCHANGED <<files, run, launcherVars>>,
           box' \in [Attempts -> Boxes], starts' \in [Attempts -> Nat],
           stray' \in SUBSET (Commands \X Attempts),
           \A b \in Attempts \ {a} :
              /\ box'[b] = box[b] /\ starts'[b] = starts[b]
              /\ \A c \in Commands : <<c, b>> \in stray' <=> <<c, b>> \in stray,
           \A q \in Procs : LaunchRun(q, a) => LaunchAt(q)',
           BoxAt(a)', StrayAt(a)',
           Ran(a) => Ran(a)', Dead(a) => Dead(a)', StoppedDown(a) => StoppedDown(a)',
           auth.launch[a] = "started" /\ box[a] \in {"exited", "none"}
              => box'[a] \in {"exited", "none"}
    PROVE  Kept
<1>1. \A q \in Procs : run'[q] = run[q]
  OBVIOUS
<1>6. SupervisorInv' /\ Stable BY <1>1, ContainerKeeps DEF launcherVars
<1>7. SupervisorTypes' BY DEF Core, SupervisorTypes
<1>8. RunsForCall' BY DEF Core, launcherVars, RunsForCall, RunFor
<1> QED BY <1>6, <1>7, <1>8 DEF Kept

LEMMA ExitKeeps ==
    ASSUME Core, NEW a \in Attempts, ContainerExits(a), UNCHANGED launcherVars
    PROVE  Kept
<1>1. UNCHANGED <<files, stray, run, starts, launcherVars>> /\ box[a] = "running"
  BY DEF ContainerExits
<1>2. Begun(a) /\ BoxAt(a) /\ StrayAt(a) /\ SupervisorTypes
  BY <1>1 DEF Core, SupervisorInv, BegunInv, BoxInv, StrayInv
<1>3. starts[a] = 1 BY <1>1, <1>2 DEF BoxAt
<1>4. box'[a] = "exited" /\ box' \in [Attempts -> Boxes] /\ \A b \in Attempts \ {a} : box'[b] = box[b]
  BY <1>2 DEF ContainerExits, SupervisorTypes, Boxes
<1>5. /\ Gone(a)' <=> Gone(a)
      /\ Begun(a)' <=> Begun(a)
      /\ auth'.launch[a] = auth.launch[a]
      /\ \A r \in Revisions : Has(a, r)' <=> Has(a, r)
      /\ \A q \in Procs : LaunchRun(q, a)' <=> LaunchRun(q, a)
      /\ \A q \in Procs : PreStart(q)' <=> PreStart(q)
  BY <1>1 DEF launcherVars, Gone, Begun, Has, LaunchRun, PreStart
<1>6. BoxAt(a)' /\ StrayAt(a)' BY <1>1, <1>2, <1>4, <1>5, RevisionNumbers DEF BoxAt, StrayAt
<1>7. Ran(a) => Ran(a)' BY <1>1, <1>5, RevisionNumbers DEF Ran, Quiet
<1>8. (Dead(a) => Dead(a)') /\ ~StoppedDown(a) BY <1>1, <1>4, <1>5 DEF Dead, StoppedDown
<1>9. ASSUME NEW q \in Procs, LaunchRun(q, a) PROVE LaunchAt(q)'
  <2>1. LaunchAt(q) /\ run[q].a = a /\ run'[q] = run[q]
    BY <1>1, <1>9 DEF LaunchRun, Core, SupervisorInv, RunInv, RunAt
  <2>2. ~PreStart(q) BY <1>3, <2>1 DEF LaunchAt
  <2>3. run[q].pc \notin {"read", "authority", "create", "start"}
        /\ (run[q].pc \in WritePcs => run[q].rev = Started)
    BY <2>1, <2>2 DEF PreStart, LaunchAt
  <2> QED BY <2>1, <2>2, <2>3, <1>1, <1>5, RevisionNumbers DEF LaunchAt
<1>10. starts' \in [Attempts -> Nat] /\ stray' \in SUBSET (Commands \X Attempts)
  BY <1>1, <1>2 DEF SupervisorTypes
<1> QED BY <1>1, <1>2, <1>4, <1>6, <1>7, <1>8, <1>9, <1>10, NobodyKeeps

LEMMA StrayKeeps ==
    ASSUME Core, StrayLands, UNCHANGED launcherVars
    PROVE  Kept
<1>1. SupervisorTypes BY DEF Core
<1>2. PICK c \in Commands, a \in Attempts :
        /\ <<c, a>> \in stray
        /\ stray' = stray \ {<<c, a>>}
        /\ IF c = "start" THEN Execute(a)
           ELSE /\ box' = [box EXCEPT ![a] = IF @ = "none" THEN "created" ELSE @]
                /\ UNCHANGED starts
  <2>1. PICK d \in stray :
        /\ stray' = stray \ {d}
        /\ IF d[1] = "start" THEN Execute(d[2])
           ELSE /\ box' = [box EXCEPT ![d[2]] = IF @ = "none" THEN "created" ELSE @]
                /\ UNCHANGED starts
    BY DEF StrayLands
  <2>2. PICK c \in Commands, a \in Attempts : d = <<c, a>> BY <1>1, <2>1 DEF SupervisorTypes
  <2> QED BY <2>1, <2>2
<1>3. UNCHANGED <<files, run, launcherVars>> BY DEF StrayLands
<1>4. Begun(a) /\ BoxAt(a) /\ StrayAt(a) /\ FilesInv
  BY <1>2 DEF Core, SupervisorInv, BegunInv, BoxInv, StrayInv, Commands
<1>5. /\ Gone(a)' <=> Gone(a)
      /\ Begun(a)' <=> Begun(a)
      /\ auth'.launch[a] = auth.launch[a]
      /\ \A r \in Revisions : Has(a, r)' <=> Has(a, r)
      /\ \A q \in Procs : LaunchRun(q, a)' <=> LaunchRun(q, a)
      /\ \A q \in Procs : PreStart(q)' <=> PreStart(q)
      /\ \A r \in Revisions : files'[a][r] = files[a][r]
  BY <1>3 DEF launcherVars, Gone, Begun, Has, LaunchRun, PreStart
<1>6. ~Ran(a) /\ auth.launch[a] # "started"
  BY <1>2 DEF Ran, Quiet, Commands, Core, SupervisorInv, BegunInv
<1>7. starts[a] = 0 /\ Has(a, Preparing) /\ ~Gone(a)
      /\ (c = "start" => <<"create", a>> \notin stray) /\ (c = "create" => <<"start", a>> \notin stray)
  <2>1. ~Gone(a) BY <1>6 DEF Core, AuthorityInv
  <2>2. CASE c = "start"
    <3>1. starts[a] = 0 /\ Has(a, Created) BY <1>2, <1>4, <2>2 DEF StrayAt
    <3>2. Has(a, Preparing) BY <1>4, <2>1, <3>1, RevisionNumbers DEF FilesInv, FilesAt, Has
    <3>3. <<"create", a>> \notin stray BY <1>2, <1>4, <2>2 DEF StrayAt
    <3> QED BY <2>1, <2>2, <3>1, <3>2, <3>3
  <2>3. CASE c = "create" BY <1>2, <1>4, <2>1, <2>3 DEF StrayAt
  <2> QED BY <2>2, <2>3 DEF Commands
<1>8. stray' \in SUBSET (Commands \X Attempts)
      /\ \A b \in Attempts \ {a}, e \in Commands : <<e, b>> \in stray' <=> <<e, b>> \in stray
  BY <1>1, <1>2 DEF SupervisorTypes
<1>9. <<"start", a>> \notin stray' /\ <<"create", a>> \notin stray'
  BY <1>2, <1>7 DEF Commands
<1>10. StrayAt(a)' BY <1>9 DEF StrayAt
<1>11. ~files[a][Stopped].live
  <2>1. ~files[a][Stopped].live \/ auth.launch[a] = "started"
    BY <1>4, <1>2 DEF FilesInv, FilesAt
  <2> QED BY <2>1, <1>6
<1>12. CASE c = "start"
  <2>1. box[a] = "created" /\ Has(a, Created) /\ \A q \in Procs : LaunchRun(q, a) => run[q].pc = "hung"
    BY <1>2, <1>4, <1>12 DEF StrayAt
  <2>2. box' = [box EXCEPT ![a] = "running"] /\ starts' = [starts EXCEPT ![a] = starts[a] + 1]
    BY <1>2, <1>12, <2>1 DEF Execute
  <2>3. /\ box'[a] = "running" /\ box' \in [Attempts -> Boxes]
        /\ starts'[a] = 1 /\ starts' \in [Attempts -> Nat]
        /\ \A b \in Attempts \ {a} : box'[b] = box[b] /\ starts'[b] = starts[b]
    BY <1>1, <1>7, <2>2 DEF SupervisorTypes, Boxes
  <2>4. BoxAt(a)' BY <1>5, <1>7, <1>11, <2>1, <2>3, RevisionNumbers DEF BoxAt
  <2>5. ASSUME NEW q \in Procs, LaunchRun(q, a) PROVE LaunchAt(q)'
    <3>1. LaunchAt(q) /\ run[q].a = a /\ run'[q] = run[q] /\ run[q].pc = "hung"
      BY <1>3, <2>1, <2>5 DEF LaunchRun, Core, SupervisorInv, RunInv, RunAt
    <3>2. ~PreStart(q)' BY <3>1 DEF PreStart, WritePcs
    <3> QED BY <3>1, <3>2, <1>5 DEF LaunchAt, WritePcs
  <2>6. ~Dead(a) /\ ~StoppedDown(a) BY <1>2, <1>11, <1>12 DEF Dead, StoppedDown, Has
  <2> QED BY <1>3, <1>4, <1>6, <1>8, <1>10, <2>3, <2>4, <2>5, <2>6, NobodyKeeps
<1>13. CASE c = "create"
  <2>1. ~files[a][Created].live /\ \A q \in Procs : ~LaunchRun(q, a)
    BY <1>2, <1>4, <1>13 DEF StrayAt
  <2>2. UNCHANGED starts /\ box' = [box EXCEPT ![a] = IF @ = "none" THEN "created" ELSE @]
    BY <1>2, <1>13
  <2>3. box[a] \in {"none", "created"} BY <1>4, <1>7 DEF BoxAt
  <2>4. /\ box'[a] = "created" /\ box' \in [Attempts -> Boxes]
        /\ starts' \in [Attempts -> Nat] /\ starts'[a] = 0
        /\ \A b \in Attempts \ {a} : box'[b] = box[b] /\ starts'[b] = starts[b]
    BY <1>1, <1>7, <2>2, <2>3 DEF SupervisorTypes, Boxes
  <2>5. BoxAt(a)' BY <1>5, <1>7, <1>11, <2>4, RevisionNumbers DEF BoxAt
  <2>6. Dead(a) => Dead(a)' BY <1>5, <1>9, <2>1, <2>4 DEF Dead
  <2>7. ~StoppedDown(a) BY <1>11 DEF StoppedDown, Has
  <2> QED BY <1>3, <1>4, <1>6, <1>8, <1>10, <2>1, <2>4, <2>5, <2>6, <2>7, NobodyKeeps
<1> QED BY <1>12, <1>13 DEF Commands

-----------------------------------------------------------------------------
(* The files of a record.                                                  *)
Pended(a, r, pend, by) == files' = [files EXCEPT ![a][r].pend = pend, ![a][r].by = by]
Linked(a, r) == files' = [files EXCEPT ![a][r] = [@ EXCEPT !.pend = "alias", !.live = TRUE]]

LEMMA FileFunction ==
    ASSUME NEW f, f = [b \in Attempts |-> [q \in Revisions |-> f[b][q]]],
           \A b \in Attempts, q \in Revisions : f[b][q] \in FileRecords
    PROVE  f \in [Attempts -> [Revisions -> FileRecords]]
  OBVIOUS

LEMMA FilePending ==
    ASSUME NEW f \in FileRecords, NEW pend \in Pends, NEW by \in Bys,
           NEW g, g = [f EXCEPT !.pend = pend, !.by = by]
    PROVE  g \in FileRecords /\ (g.live <=> f.live) /\ (g.kept <=> f.kept)
  BY DEF FileRecords

LEMMA FileLinked ==
    ASSUME NEW f \in FileRecords, NEW g, g = [f EXCEPT !.pend = "alias", !.live = TRUE]
    PROVE  g \in FileRecords /\ g.live /\ g.pend = "alias" /\ (g.kept <=> f.kept)
  BY DEF FileRecords, Pends

LEMMA PendingKeeps ==
    ASSUME SupervisorTypes, FilesInv, NEW a \in Attempts, NEW r \in Revisions,
           NEW pend \in Pends, NEW by \in Bys, ~files[a][r].live,
           Pended(a, r, pend, by)
    PROVE  FilesKeep
<1>1. ASSUME NEW b \in Attempts, NEW q \in Revisions
      PROVE  /\ files'[b][q] \in FileRecords
             /\ files'[b][q].live <=> files[b][q].live
             /\ files'[b][q].kept <=> files[b][q].kept
             /\ files'[b][q] = files[b][q] \/ ~files[b][q].live
  <2>1. files[b][q] \in FileRecords BY DEF SupervisorTypes
  <2>2. CASE b = a /\ q = r
    <3>1. files'[b][q] = [files[b][q] EXCEPT !.pend = pend, !.by = by]
      BY <2>2, <2>1 DEF SupervisorTypes, FileRecords, Pended
    <3>2. ~files[b][q].live BY <2>2
    <3>3. files'[b][q] \in FileRecords /\ (files'[b][q].live <=> files[b][q].live)
          /\ (files'[b][q].kept <=> files[b][q].kept)
      BY <2>1, <3>1, FilePending
    <3> QED BY <3>2, <3>3
  <2>3. CASE ~(b = a /\ q = r)
    <3>1. files'[b][q] = files[b][q] BY <2>3 DEF SupervisorTypes, Pended
    <3> QED BY <2>1, <3>1
  <2> QED BY <2>2, <2>3
<1>2. files' = [b \in Attempts |-> [q \in Revisions |-> files'[b][q]]]
  BY DEF SupervisorTypes, Pended
<1>3. files' \in [Attempts -> [Revisions -> FileRecords]]
  <2>1. \A b \in Attempts, q \in Revisions : files'[b][q] \in FileRecords BY <1>1
  <2> QED BY <1>2, <2>1, FileFunction
<1>4. ASSUME NEW b \in Attempts, NEW q \in Revisions
      PROVE  files[b][q].live /\ files'[b][q].pend # "alias" => files'[b][q].kept
  BY <1>1, <1>4 DEF FilesInv, FilesAt
<1> QED BY <1>1, <1>3, <1>4 DEF FilesKeep, FilesKeepAt

LEMMA HalfKeeps ==
    ASSUME SupervisorTypes, FilesInv, NEW a \in Attempts, NEW r \in Revisions, NEW by \in Bys,
           files' \in HalfWritten(a, r, by)
    PROVE  FilesKeep
<1>1. CASE files' = files BY <1>1, SameFilesKeep
<1>2. CASE files' # files
  <2>1. PICK pend \in {"torn", "whole"} : Pended(a, r, pend, by)
    BY <1>2 DEF HalfWritten, Pended
  <2>2. ~files[a][r].live BY <1>2 DEF HalfWritten
  <2> QED BY <2>1, <2>2, PendingKeeps DEF Pends
<1> QED BY <1>1, <1>2

LEMMA FinishKeeps ==
    ASSUME SupervisorTypes, FilesInv, NEW a \in Attempts, NEW r \in Revisions,
           files' = FinishPublication(a, r).files
    PROVE  FilesKeep /\ \A b \in Attempts, q \in Revisions : files[b][q].live => files'[b][q].kept
<1> DEFINE f == IF files[a][r].pend = "alias" THEN Unaliased(files, a, r) ELSE files
<1>1. files' = SyncDirectory(f) BY DEF FinishPublication, Outcome
<1>2. ASSUME NEW b \in Attempts, NEW q \in Revisions
      PROVE  f[b][q] \in FileRecords /\ f[b][q].live = files[b][q].live
  <2>1. files[b][q] \in FileRecords BY DEF SupervisorTypes
  <2>2. f[b][q] = files[b][q] \/ f[b][q] = [files[b][q] EXCEPT !.pend = "none"]
    BY DEF SupervisorTypes, Unaliased
  <2> QED BY <2>1, <2>2 DEF FileRecords, Pends
<1>3. f = [b \in Attempts |-> [q \in Revisions |-> f[b][q]]]
  BY DEF SupervisorTypes, Unaliased
<1> HIDE DEF f
<1>4. f \in [Attempts -> [Revisions -> FileRecords]] BY <1>2, <1>3
<1> QED BY <1>1, <1>2, <1>4, SyncKeeps

(* The link of a record that everything before it precedes.                *)
LEMMA LinkKeeps ==
    ASSUME Core, NEW p \in Procs, NEW a, a = run[p].a, NEW r, r = run[p].rev,
           run[p].pc = "link", ~files[a][r].live, Continue(p, "sync"),
           Linked(a, r),
           UNCHANGED <<box, stray, starts, launcherVars>>
    PROVE  Kept
<1>1. a \in Attempts /\ RunAt(p) /\ SupervisorTypes /\ FilesInv /\ Begun(a) /\ ~Gone(a)
      /\ run[p].mode \in {"launch"} \cup StopModes /\ run[p].mode # "none"
      /\ BoxAt(a) /\ StrayAt(a)
  <2>1. a \in Attempts /\ RunAt(p) /\ SupervisorTypes /\ FilesInv /\ Begun(a)
        /\ run[p].mode \in {"launch", "reconcile"} \cup StopModes /\ run[p].mode # "none"
        /\ BoxAt(a) /\ StrayAt(a)
    BY HereIs
  <2>2. run[p].mode # "reconcile" BY <2>1 DEF RunAt, ReconcileAt
  <2>3. ~Gone(a) BY <2>1, <2>2, RunLives
  <2> QED BY <2>1, <2>2, <2>3
<1>2. r \in Revisions /\ \A q \in Revisions : q < r => Has(a, q)
  BY <1>1, RevisionNumbers DEF RunAt, LaunchAt, StopAt, WritePcs
<1>3. RunGoesOn(p) /\ run'[p].pc = "sync" /\ run'[p].rev = r /\ run'[p].result = run[p].result
  BY <1>1, Continues DEF RunPcs, WritePcs
<1>4. ASSUME NEW b \in Attempts, NEW q \in Revisions
      PROVE  /\ files'[b][q] \in FileRecords
             /\ files'[b][q].kept <=> files[b][q].kept
             /\ b = a /\ q = r => files'[b][q].live /\ files'[b][q].pend = "alias"
             /\ b # a \/ q # r => files'[b][q] = files[b][q]
             /\ files[b][q].live => files'[b][q].live
  <2>1. files[b][q] \in FileRecords BY <1>1 DEF SupervisorTypes
  <2>2. CASE b = a /\ q = r
    <3>1. files'[b][q] = [files[b][q] EXCEPT !.pend = "alias", !.live = TRUE]
      BY <1>1, <2>2 DEF SupervisorTypes, Linked
    <3>2. files'[b][q] \in FileRecords /\ files'[b][q].live /\ files'[b][q].pend = "alias"
          /\ (files'[b][q].kept <=> files[b][q].kept)
      BY <2>1, <3>1, FileLinked
    <3> QED BY <2>2, <3>2
  <2>3. CASE ~(b = a /\ q = r)
    <3>1. files'[b][q] = files[b][q] BY <1>1, <2>3 DEF SupervisorTypes, Linked
    <3> QED BY <2>1, <2>3, <3>1
  <2> QED BY <2>2, <2>3
<1>5. files' \in [Attempts -> [Revisions -> FileRecords]]
  <2>1. files' = [b \in Attempts |-> [q \in Revisions |-> files'[b][q]]]
    BY <1>1 DEF SupervisorTypes, Linked
  <2>2. \A b \in Attempts, q \in Revisions : files'[b][q] \in FileRecords BY <1>4
  <2> QED BY <2>1, <2>2, FileFunction
<1>6. \A b \in Attempts, q \in Revisions : Has(b, q) => Has(b, q)' BY <1>4 DEF Has
<1>7. \A b \in Attempts : (Gone(b)' <=> Gone(b)) /\ (Begun(b)' <=> Begun(b)) /\ auth'.launch[b] = auth.launch[b]
  BY DEF launcherVars, Gone, Begun
<1>8. \A q \in Procs, b \in Attempts : LaunchRun(q, b)' <=> LaunchRun(q, b)
  BY <1>3 DEF LaunchRun, RunGoesOn
<1>9. \A q \in Procs : PreStart(q)' => PreStart(q) BY <1>3 DEF PreStart, RunGoesOn, WritePcs
<1>10. \A q \in Procs \ {p} : ~LaunchRun(q, a)
  <2>1. CASE run[p].mode = "launch" BY <2>1, OnlyLaunch
  <2>2. CASE run[p].mode \in StopModes BY <2>2, <1>1, RunLives DEF Ran, Quiet
  <2> QED BY <1>1, <2>1, <2>2
<1>11. \A q \in Procs : run'[q].mode = run[q].mode /\ run'[q].a = run[q].a
  BY <1>3 DEF RunGoesOn
<1>12. (r \in {Stopping, Stopped} => run[p].mode \in StopModes /\ auth.launch[a] = "started")
       /\ (r \notin {Stopping, Stopped} => LaunchRun(p, a))
  <2>1. run[p].mode = "launch" => r \notin {Stopping, Stopped}
    BY <1>1, RevisionNumbers DEF RunAt, LaunchAt, WritePcs
  <2>2. run[p].mode \in StopModes => r \in {Stopping, Stopped}
    BY <1>1, RevisionNumbers DEF RunAt, StopAt, WritePcs
  <2> QED BY <1>1, <2>1, <2>2, RunLives DEF LaunchRun
<1>13. Stable
  <2>1. \A b \in Attempts : Ran(b) => Ran(b)'
    BY <1>6, <1>7, <1>8, RevisionNumbers DEF Ran, Quiet
  <2>2. \A b \in Attempts : Dead(b) => Dead(b)' BY <1>7, <1>8, <1>9 DEF Dead
  <2>3. \A b \in Attempts : StoppedDown(b) => StoppedDown(b)'
    BY <1>6, <1>7, RevisionNumbers DEF StoppedDown
  <2> QED BY <2>1, <2>2, <2>3 DEF Stable
<1>14. BegunInv'
  <2>1. \A q \in Procs : run'[q].mode # "none" => Begun(run[q].a)'
    <3> SUFFICES ASSUME NEW q \in Procs, run'[q].mode # "none" PROVE Begun(run[q].a)'
      OBVIOUS
    <3>1. run[q].mode # "none" /\ run[q].a \in Attempts /\ Begun(run[q].a)
      BY <1>11, RunLives
    <3> QED BY <3>1, <1>11 DEF Begun, launcherVars
  <2>2. \A b \in Attempts : ~Begun(b)' =>
           /\ box'[b] = "none" /\ starts'[b] = 0
           /\ <<"create", b>> \notin stray' /\ <<"start", b>> \notin stray'
           /\ \A q \in Revisions : ~files'[b][q].live /\ ~files'[b][q].kept
    BY <1>1, <1>4, <1>7 DEF Core, SupervisorInv, BegunInv
  <2>3. \A b \in Attempts : auth'.launch[b] = "started" => Ran(b)'
    BY <1>7, <1>13 DEF Core, SupervisorInv, BegunInv, Stable
  <2> QED BY <2>1, <2>2, <2>3, <1>11 DEF BegunInv
<1>15. FilesInv'
  <2> SUFFICES ASSUME NEW b \in Attempts
      PROVE
      /\ \A q \in Revisions : files'[b][q].live /\ files'[b][q].pend # "alias" => files'[b][q].kept
      /\ ~Gone(b) => \A q \in Revisions :
            /\ files'[b][q].kept => files'[b][q].live
            /\ files'[b][q].live => \A o \in Revisions : o < q => Has(b, o)'
      /\ b \in auth'.gc => \A q \in Revisions :
            /\ files'[b][q].live =>
                  files'[b][q].kept /\ \A o \in Revisions : q < o => files'[b][o].live
            /\ files'[b][q].kept => \A o \in Revisions : q < o => files'[b][o].kept
            /\ files'[b][q].kept /\ q # Stopped => Has(b, Stopped)'
      /\ b \in auth'.collected => \A q \in Revisions : ~files'[b][q].live /\ ~files'[b][q].kept
      /\ files'[b][Stopping].live \/ files'[b][Stopped].live => auth'.launch[b] = "started"
    BY <1>7 DEF FilesInv, FilesAt
  <2>1. CASE b # a
    <3>1. \A q \in Revisions : files'[b][q] = files[b][q] /\ (Has(b, q)' <=> Has(b, q))
      BY <1>4, <2>1 DEF Has
    <3> QED BY SMTT(30), <1>1, <1>7, <3>1, RevisionNumbers DEF FilesInv, FilesAt, launcherVars
  <2>2. CASE b = a
    <3>1. b \notin auth'.gc /\ b \notin auth'.collected BY <1>1, <2>2 DEF Gone, launcherVars
    <3>2. \A q \in Revisions : files'[b][q].live /\ files'[b][q].pend # "alias" => files'[b][q].kept
      BY <1>1, <1>4 DEF FilesInv, FilesAt
    <3>3. \A q \in Revisions : files'[b][q].kept => files'[b][q].live
      BY <1>1, <1>4, <2>2 DEF FilesInv, FilesAt
    <3>4. \A q \in Revisions : files'[b][q].live => \A o \in Revisions : o < q => Has(b, o)'
      BY <1>1, <1>2, <1>4, <1>6, <2>2 DEF FilesInv, FilesAt
    <3>5. files'[b][Stopping].live \/ files'[b][Stopped].live => auth'.launch[b] = "started"
      BY SMTT(30), <1>1, <1>4, <1>7, <1>12, <2>2, RevisionNumbers DEF FilesInv, FilesAt
    <3> QED BY <3>1, <3>2, <3>3, <3>4, <3>5
  <2> QED BY <2>1, <2>2
<1>16. BoxInv'
  <2>1. ASSUME NEW b \in Attempts PROVE BoxAt(b)'
    <3>1. BoxAt(b) BY DEF Core, SupervisorInv, BoxInv
    <3>2. files'[b][Stopped].live => box[b] \in {"exited", "none"}
      <4>1. CASE b = a /\ r = Stopped
        <5>1. box[a] \in {"exited", "none"} BY <1>1, <1>12, <4>1 DEF RunAt, StopAt, WritePcs
        <5> QED BY <4>1, <5>1
      <4>2. CASE ~(b = a /\ r = Stopped) BY <3>1, <1>4, <4>2, RevisionNumbers DEF BoxAt
      <4> QED BY <4>1, <4>2
    <3> QED BY <3>1, <3>2, <1>6, <1>7, RevisionNumbers DEF BoxAt
  <2> QED BY <2>1 DEF BoxInv
<1>17. StrayInv'
  <2>1. ASSUME NEW b \in Attempts PROVE StrayAt(b)'
    <3>1. StrayAt(b) BY DEF Core, SupervisorInv, StrayInv
    <3>2. <<"create", b>> \in stray => ~files'[b][Created].live
      <4>1. CASE b = a /\ r = Created BY <4>1, <3>1, <1>12, RevisionNumbers DEF StrayAt
      <4>2. CASE ~(b = a /\ r = Created) BY <3>1, <1>4, <4>2, RevisionNumbers DEF StrayAt
      <4> QED BY <4>1, <4>2
    <3>3. <<"start", b>> \in stray => \A q \in Procs : LaunchRun(q, b) => run'[q].pc = "hung"
      <4> SUFFICES ASSUME <<"start", b>> \in stray, NEW q \in Procs, LaunchRun(q, b)
                   PROVE  run'[q].pc = "hung"
        OBVIOUS
      <4>1. run[q].pc = "hung" BY <3>1 DEF StrayAt
      <4> QED BY <4>1, <1>3 DEF RunGoesOn
    <3> QED BY <3>1, <3>2, <3>3, <1>6, <1>8, RevisionNumbers DEF StrayAt
  <2> QED BY <2>1 DEF StrayInv
<1>18. RunAt(p)'
  <2>1. CASE run[p].mode = "launch"
    <3>1. LaunchAt(p) BY SMTT(30), <1>1, <2>1 DEF RunAt
    <3>2. /\ r \in {Preparing, Created, Started}
          /\ \A q \in Revisions : q < r => Has(a, q)'
          /\ \A q \in Revisions : q > r => ~files'[a][q].live
          /\ files'[a][r].live
      BY SMTT(30), <3>1, <1>1, <1>2, <1>4, <1>6, RevisionNumbers DEF LaunchAt, WritePcs
    <3>3. LaunchAt(p)'
      BY SMTT(30), <3>1, <3>2, <1>3, <1>7, <1>9, <1>11, <1>1 DEF LaunchAt, WritePcs
    <3> QED BY SMTT(30), <3>3, <1>11, <2>1 DEF RunAt, StopModes
  <2>2. CASE run[p].mode \in StopModes
    <3>1. StopAt(p) BY <1>1, <2>2 DEF RunAt
    <3>2. /\ r \in {Stopping, Stopped}
          /\ \A q \in Revisions : q < r => Has(a, q)'
          /\ files'[a][r].live
      BY <3>1, <1>1, <1>2, <1>4, <1>6 DEF StopAt, WritePcs
    <3>3. StopAt(p)'
      BY <3>1, <3>2, <1>3, <1>7, <1>11, <1>1 DEF StopAt, WritePcs, launcherVars
    <3> QED BY <3>3, <1>11, <2>2 DEF RunAt, StopModes
  <2> QED BY <1>1, <2>1, <2>2
<1>19. ASSUME NEW q \in Procs, q # p PROVE RunAt(q)'
  <2>1. run'[q] = run[q] /\ RunAt(q)
    BY <1>3, <1>19 DEF RunGoesOn, Core, SupervisorInv, RunInv
  <2>2. ASSUME run[q].mode = "launch" PROVE LaunchAt(q)'
    <3>1. LaunchAt(q) /\ run[q].a \in Attempts /\ run[q].a # a
      BY <2>1, <2>2, <1>10, <1>19, RunLives DEF RunAt, LaunchRun
    <3>2. \A s \in Revisions : files'[run[q].a][s] = files[run[q].a][s] BY <3>1, <1>4
    <3>3. (PreStart(q)' => PreStart(q)) /\ (~Gone(run[q].a) => ~Gone(run[q].a)')
      BY <2>1, <1>9 DEF Gone, launcherVars
    <3>4. \A s \in Revisions : /\ files'[run[q].a][s].live <=> files[run[q].a][s].live
                               /\ Has(run[q].a, s) => files'[run[q].a][s].live /\ files'[run[q].a][s].kept
      BY <3>2 DEF Has
    <3> QED BY <3>1, <3>3, <3>4, <2>1, LaunchStays
  <2>3. ASSUME run[q].mode = "reconcile" PROVE ReconcileAt(q)'
    <3>1. ReconcileAt(q) /\ run[q].a \in Attempts BY <2>1, <2>3, RunLives DEF RunAt
    <3>2. ~exposed /\ run[q].pc = "list" => ~files'[run[q].a][Created].live
      <4> SUFFICES ASSUME ~exposed, run[q].pc = "list" PROVE ~files'[run[q].a][Created].live
        OBVIOUS
      <4>1. ~files[run[q].a][Created].live BY <3>1 DEF ReconcileAt
      <4>2. ~(run[q].a = a /\ r = Created)
        <5> SUFFICES ASSUME run[q].a = a, r = Created PROVE FALSE
          OBVIOUS
        <5>1. run[p].mode = "launch" BY SMTT(30), <1>12, RevisionNumbers DEF LaunchRun
        <5> QED BY <5>1, <2>3, <1>19, AloneAsking
      <4> QED BY <3>1, <4>1, <4>2, <1>4, RevisionNumbers
    <3>3. exposed' = exposed BY SMTT(30) DEF launcherVars
    <3> QED BY <3>1, <3>2, <3>3, <2>1, <1>7, <1>13 DEF ReconcileAt, Stable
  <2>4. ASSUME run[q].mode \in StopModes PROVE StopAt(q)'
    <3>1. StopAt(q) /\ run[q].a \in Attempts BY <2>1, <2>4, RunLives DEF RunAt, StopModes
    <3>2. \A s \in Revisions : (files[run[q].a][s].live => files'[run[q].a][s].live)
                               /\ (files[run[q].a][s].kept => files'[run[q].a][s].kept)
      BY <3>1, <1>4
    <3> QED BY SMTT(30), <3>1, <3>2, <2>1, <1>13, RevisionNumbers DEF StopAt, Stable, launcherVars, Has
  <2> QED BY <2>1, <2>2, <2>3, <2>4 DEF RunAt
<1>20. RunInv'
  <2>1. OneLaunch' BY <1>8 DEF Core, SupervisorInv, RunInv, OneLaunch
  <2> QED BY <2>1, <1>18, <1>19 DEF RunInv
<1>21. SupervisorTypes' BY <1>1, <1>3, <1>5 DEF SupervisorTypes, RunGoesOn
<1>22. RunsForCall' BY <1>3, RunStays DEF Core, launcherVars
<1> QED BY <1>13, <1>14, <1>15, <1>16, <1>17, <1>20, <1>21, <1>22 DEF Kept, SupervisorInv

LEMMA ByIs ==
    ASSUME SupervisorTypes, NEW p \in Procs
    PROVE  By(p) \in Bys
  BY DEF SupervisorTypes, RunRecords, By, Bys

(* What follows a record that is there to stay.                            *)
LEMMA RecordedKeeps ==
    ASSUME Core, NEW p \in Procs, NEW a, a = run[p].a, NEW r, r = run[p].rev,
           run[p].pc \in WritePcs, FilesKeep, Recorded(p),
           Has(a, r)', run[p].mode = "launch" => run[p].pc = "sync",
           UNCHANGED <<box, stray, starts, launcherVars>>
    PROVE  Kept
<1>1. a \in Attempts /\ RunAt(p) /\ SupervisorTypes /\ run[p].mode # "none" /\ ~Gone(a)
      /\ run[p].mode \in {"launch"} \cup StopModes
  <2>1. a \in Attempts /\ RunAt(p) /\ SupervisorTypes
        /\ run[p].mode \in {"launch", "reconcile"} \cup StopModes /\ run[p].mode # "none"
    BY HereIs DEF WritePcs
  <2>2. run[p].mode # "reconcile" BY <2>1 DEF RunAt, ReconcileAt, WritePcs
  <2>3. ~Gone(a) BY <2>1, <2>2, RunLives
  <2> QED BY <2>1, <2>2, <2>3
<1>2. CASE run[p].mode = "launch"
  <2>1. LaunchAt(p) /\ run[p].pc = "sync" /\ r \in {Preparing, Created, Started}
    BY <1>1, <1>2 DEF RunAt, LaunchAt
  <2>2. \A q \in Revisions : q > r => ~files'[a][q].live
    BY <1>1, <2>1 DEF LaunchAt, WritePcs, FilesKeep, FilesKeepAt
  <2>3. CASE r = Preparing
    <3>1. Continue(p, "create") /\ PreStart(p)
      BY <2>1, <2>3, RevisionNumbers DEF Recorded, PreStart, WritePcs
    <3>2. RunGoesOn(p) /\ run'[p].pc = "create" BY <1>1, <2>1, <3>1, Continues DEF RunPcs
    <3>3. run'[p].a = a /\ run'[p].mode = "launch" BY <1>2, <3>2 DEF RunGoesOn
    <3>4. LaunchAt(p)'
      BY SMTT(30), <1>1, <2>1, <2>2, <2>3, <3>1, <3>2, <3>3, RevisionNumbers DEF LaunchAt,
         WritePcs, PreStart, Gone, launcherVars
    <3> QED BY <3>1, <3>2, <3>3, <3>4, RunStep DEF RunAt, StopModes
  <2>4. CASE r = Created
    <3>1. Continue(p, "start") /\ PreStart(p)
      BY <2>1, <2>4, RevisionNumbers DEF Recorded, PreStart, WritePcs
    <3>2. RunGoesOn(p) /\ run'[p].pc = "start" BY <1>1, <2>1, <3>1, Continues DEF RunPcs
    <3>3. run'[p].a = a /\ run'[p].mode = "launch" BY <1>2, <3>2 DEF RunGoesOn
    <3>4. LaunchAt(p)'
      BY SMTT(30), <1>1, <2>1, <2>2, <2>4, <3>1, <3>2, <3>3, RevisionNumbers DEF LaunchAt,
         WritePcs, PreStart, Gone, launcherVars
    <3> QED BY <3>1, <3>2, <3>3, <3>4, RunStep DEF RunAt, StopModes
  <2>5. CASE r = Started
    <3>1. Finish(p, "started") BY <2>1, <2>5, RevisionNumbers DEF Recorded
    <3>2. RunGoesOn(p) /\ run'[p].pc = "done" /\ run'[p].result = "started"
      BY <1>1, <2>1, <3>1, Finishes DEF Results
    <3>3. run'[p].a = a /\ run'[p].mode = "launch" /\ ~PreStart(p)'
      BY <1>2, <3>2 DEF RunGoesOn, PreStart, WritePcs
    <3>4. LaunchAt(p)'
      BY <1>1, <2>1, <2>5, <3>2, <3>3, RevisionNumbers DEF LaunchAt, WritePcs, Gone,
         launcherVars
    <3> QED BY <3>2, <3>3, <3>4, RunStep DEF RunAt, StopModes
  <2> QED BY <2>1, <2>3, <2>4, <2>5
<1>3. CASE run[p].mode \in StopModes
  <2>1. StopAt(p) /\ r \in {Stopping, Stopped} /\ run[p].pc # "hung"
    BY <1>1, <1>3 DEF RunAt, StopAt, WritePcs
  <2>2. CASE r = Stopping
    <3>1. Continue(p, "stop") BY <2>1, <2>2, RevisionNumbers DEF Recorded
    <3>2. RunGoesOn(p) /\ run'[p].pc = "stop" BY <1>1, <2>1, <3>1, Continues DEF RunPcs
    <3>3. run'[p].a = a /\ run'[p].mode = run[p].mode /\ ~PreStart(p)'
      BY <3>2 DEF RunGoesOn, PreStart, WritePcs
    <3>4. StopAt(p)' BY <1>1, <2>1, <2>2, <3>2, <3>3 DEF StopAt, WritePcs, launcherVars
    <3> QED BY <1>3, <3>2, <3>3, <3>4, RunStep DEF RunAt, StopModes
  <2>3. CASE r = Stopped
    <3>1. Continue(p, "prove") BY <2>1, <2>3, RevisionNumbers DEF Recorded
    <3>2. RunGoesOn(p) /\ run'[p].pc = "prove" BY <1>1, <2>1, <3>1, Continues DEF RunPcs
    <3>3. run'[p].a = a /\ run'[p].mode = run[p].mode /\ ~PreStart(p)'
      BY <3>2 DEF RunGoesOn, PreStart, WritePcs
    <3>4. StopAt(p)' BY <1>1, <2>1, <2>3, <3>2, <3>3 DEF StopAt, WritePcs, launcherVars
    <3> QED BY <1>3, <3>2, <3>3, <3>4, RunStep DEF RunAt, StopModes
  <2> QED BY <2>1, <2>2, <2>3
<1> QED BY <1>1, <1>2, <1>3

(* A stop that finds the record it would have written.                     *)
LEMMA LostKeeps ==
    ASSUME Core, NEW p \in Procs, NEW a, a = run[p].a, NEW r, r = run[p].rev,
           run[p].pc \in WritePcs, files[a][r].live, run[p].mode \in StopModes,
           files' = Helped(a), Lost(p),
           UNCHANGED <<box, stray, starts, launcherVars>>
    PROVE  Kept
<1>1. a \in Attempts /\ RunAt(p) /\ SupervisorTypes /\ FilesInv /\ run[p].mode # "none"
  BY HereIs DEF WritePcs
<1>2. StopAt(p) /\ r \in {Stopping, Stopped} /\ run[p].pc # "hung"
  BY <1>1 DEF RunAt, StopAt, WritePcs
<1>3. FilesKeep /\ \A q \in Revisions : files[a][q].live => files'[a][q].kept
  BY SMTT(30), <1>1, HelpedKeeps
<1>4. Recorded(p) \/ Finish(p, "failed") BY SMTT(30), <1>2, RevisionNumbers DEF Lost
<1>5. Has(a, r)' BY <1>1, <1>2, <1>3, RevisionNumbers DEF Has, FilesKeep, FilesKeepAt
<1>6. CASE Finish(p, "failed") BY <1>1, <1>2, <1>3, <1>6, RunFails
<1>7. CASE Recorded(p)
  <2>1. run[p].mode # "launch" BY DEF StopModes
  <2> QED BY <1>3, <1>5, <1>7, <2>1, RecordedKeeps
<1> QED BY <1>4, <1>6, <1>7

LEMMA WriteKeeps ==
    ASSUME Core, NEW p \in Procs, NEW a, a = run[p].a, NEW r, r = run[p].rev,
           WriteRecord(p), UNCHANGED launcherVars
    PROVE  Kept
<1>1. run[p].pc \in WritePcs /\ UNCHANGED <<box, stray, starts, launcherVars>>
  BY DEF WriteRecord, At, WritePcs
<1>2. a \in Attempts /\ RunAt(p) /\ SupervisorTypes /\ FilesInv /\ run[p].mode # "none"
      /\ run[p].mode \in {"launch"} \cup StopModes /\ run[p].pc # "hung" /\ r \in Revisions
  <2>1. a \in Attempts /\ RunAt(p) /\ SupervisorTypes /\ FilesInv
        /\ run[p].mode \in {"launch", "reconcile"} \cup StopModes /\ run[p].mode # "none"
    BY <1>1, HereIs DEF WritePcs
  <2>2. run[p].mode # "reconcile" BY <1>1, <2>1 DEF RunAt, ReconcileAt, WritePcs
  <2>3. r \in Revisions BY <1>1, <2>1, <2>2, RevisionNumbers DEF RunAt, LaunchAt, StopAt
  <2> QED BY <1>1, <2>1, <2>2, <2>3 DEF WritePcs
<1>3. By(p) \in Bys BY <1>2, ByIs
<1>4. run[p].mode = "launch" => (files[a][r].live <=> run[p].pc = "sync")
  BY <1>1, <1>2 DEF RunAt, LaunchAt
<1>5. CASE Finish(p, "failed") /\ FilesKeep BY <1>1, <1>2, <1>5, RunFails
<1>6. CASE Finish(p, "failed") /\ files' \in IF At(p, "open") THEN HalfWritten(a, r, By(p)) ELSE {files}
  <2>1. FilesKeep BY <1>2, <1>3, <1>6, HalfKeeps, SameFilesKeep
  <2> QED BY <1>5, <1>6, <2>1
<1>7. CASE files[a][r].live /\ files' = Helped(a) /\ Lost(p) /\ run[p].pc # "sync"
  <2>1. run[p].mode \in StopModes BY <1>2, <1>4, <1>7
  <2> QED BY <1>1, <1>7, <2>1, LostKeeps
<1>8. CASE At(p, "open") /\ Write(p, WritePending(a, r, By(p)))
  <2>1. CASE files[a][r].live
    <3>1. files' = Helped(a) /\ Lost(p) BY <1>8, <2>1 DEF Write, WritePending, Outcome
    <3> QED BY SMTT(30), <1>7, <1>8, <2>1, <3>1 DEF At
  <2>2. CASE ~files[a][r].live
    <3>1. \/ Pended(a, r, "whole", By(p)) /\ Continue(p, "link")
          \/ files' = files /\ Finish(p, "failed")
      BY <1>8, <2>2 DEF Write, WritePending, Outcome, Pended
    <3>2. CASE files' = files /\ Finish(p, "failed") BY <1>2, <1>5, <3>2, SameFilesKeep
    <3>3. CASE Pended(a, r, "whole", By(p)) /\ Continue(p, "link")
      <4>1. FilesKeep BY <1>2, <1>3, <2>2, <3>3, PendingKeeps DEF Pends
      <4>2. RunGoesOn(p) /\ run'[p].pc = "link" /\ run'[p].rev = r
        BY <1>2, <3>3, Continues DEF RunPcs, WritePcs
      <4>3. run'[p].a = a /\ run'[p].mode = run[p].mode BY <4>2 DEF RunGoesOn
      <4>4. PreStart(p)' => PreStart(p) BY <1>1, <4>2 DEF PreStart, WritePcs
      <4>5. \A q \in Revisions : (Has(a, q) => Has(a, q)') /\ (files'[a][q].live <=> files[a][q].live)
        BY <1>2, <4>1 DEF Has, FilesKeep, FilesKeepAt, FilesInv, FilesAt, SupervisorTypes,
           FileRecords
      <4>6. Gone(a)' <=> Gone(a) BY <1>1 DEF Gone, launcherVars
      <4>7. CASE run[p].mode = "launch"
        <5>1. LaunchAt(p) /\ run[p].pc = "open" BY <1>2, <1>8, <4>7 DEF RunAt, At
        <5>2. LaunchAt(p)'
          BY SMTT(30), <5>1, <1>1, <1>2, <4>2, <4>3, <4>4, <4>5, <4>6, RevisionNumbers DEF
             LaunchAt, WritePcs
        <5>3. RunAt(p)' BY <5>2, <4>3, <4>7 DEF RunAt, StopModes
        <5> QED BY <5>3, <4>1, <4>2, <4>4, <1>1, RunStep
      <4>8. CASE run[p].mode \in StopModes
        <5>1. StopAt(p) /\ run[p].pc = "open" BY <1>2, <1>8, <4>8 DEF RunAt, At
        <5>2. StopAt(p)'
          BY <5>1, <1>1, <1>2, <4>2, <4>3, <4>5, RevisionNumbers DEF StopAt, WritePcs,
             launcherVars
        <5>3. RunAt(p)' BY <5>2, <4>3, <4>8 DEF RunAt, StopModes
        <5> QED BY <5>3, <4>1, <4>2, <4>4, <1>1, RunStep
      <4> QED BY <1>2, <4>7, <4>8
    <3> QED BY SMTT(30), <3>1, <3>2, <3>3
  <2> QED BY <2>1, <2>2
<1>9. CASE At(p, "link") /\ Write(p, LinkPending(a, r))
  <2>1. CASE files[a][r].live
    <3>1. files' = Helped(a) /\ Lost(p) BY <1>9, <2>1 DEF Write, LinkPending, Outcome
    <3> QED BY <1>7, <1>9, <2>1, <3>1 DEF At
  <2>2. CASE ~files[a][r].live
    <3>1. \/ Linked(a, r) /\ Continue(p, "sync")
          \/ files' = files /\ Finish(p, "failed")
      BY <1>9, <2>2 DEF Write, LinkPending, Outcome, Linked
    <3>2. CASE files' = files /\ Finish(p, "failed") BY <1>2, <1>5, <3>2, SameFilesKeep
    <3>3. CASE Linked(a, r) /\ Continue(p, "sync")
      BY <1>1, <1>9, <2>2, <3>3, LinkKeeps DEF At
    <3> QED BY <3>1, <3>2, <3>3
  <2> QED BY <2>1, <2>2
<1>10. CASE At(p, "sync") /\ Write(p, FinishPublication(a, r))
  <2>1. Recorded(p) /\ files' = FinishPublication(a, r).files
    BY <1>10 DEF Write, FinishPublication, Outcome
  <2>2. FilesKeep /\ \A b \in Attempts, q \in Revisions : files[b][q].live => files'[b][q].kept
    BY <1>2, <2>1, FinishKeeps
  <2>3. files[a][r].live
    <3>1. CASE run[p].mode = "launch" BY <3>1, <1>4, <1>10 DEF At
    <3>2. CASE run[p].mode \in StopModes BY <3>2, <1>1, <1>2, <1>10 DEF At, RunAt, StopAt
    <3> QED BY <1>2, <3>1, <3>2
  <2>4. Has(a, r)' BY <1>2, <2>2, <2>3 DEF Has, FilesKeep, FilesKeepAt
  <2> QED BY <1>1, <1>10, <2>1, <2>2, <2>4, RecordedKeeps DEF At
<1>11. \/ Finish(p, "failed") /\ files' \in IF At(p, "open") THEN HalfWritten(a, r, By(p)) ELSE {files}
       \/ At(p, "open") /\ Write(p, WritePending(a, r, By(p)))
       \/ At(p, "link") /\ Write(p, LinkPending(a, r))
       \/ At(p, "sync") /\ Write(p, FinishPublication(a, r))
  BY DEF WriteRecord
<1> QED BY <1>6, <1>8, <1>9, <1>10, <1>11

LEMMA SupervisorStepKeeps ==
    ASSUME Core, NEW p \in Procs, SupervisorStep(p), UNCHANGED launcherVars
    PROVE  Kept
  BY ReadStateKeeps, AcquireKeeps, WriteKeeps, CreateKeeps, StartKeeps, ProveRunningKeeps,
     StopKeeps, ProveKeeps, ListKeeps, ObserveKeeps DEF SupervisorStep

-----------------------------------------------------------------------------
(* Deaths, power losses and the collector.                                 *)
LEMMA CrashKeeps ==
    ASSUME Core, NEW p \in Procs, NEW a, a = run[p].a, SupervisorDies(p), UNCHANGED <<auth, exposed>>
    PROVE  SupervisorTypes' /\ SupervisorInv' /\ Stable
<1>1. SupervisorTypes /\ FilesInv /\ BegunInv /\ RunInv /\ BoxInv /\ StrayInv
  BY DEF Core, SupervisorInv
<1>2. /\ run' \in [Procs -> RunRecords]
      /\ run'[p].mode = "none" /\ run'[p].pc = "idle"
      /\ \A q \in Procs \ {p} : run'[q] = run[q]
  BY <1>1, RevisionNumbers DEF SupervisorDies, SupervisorTypes, NoRun, RunRecords, RunPcs,
     Modes, Bys, Results
<1>3. FilesKeep
  <2>1. CASE At(p, "open")
    <3>1. a \in Attempts /\ run[p].rev \in Revisions
      BY <2>1, HereIs, RevisionNumbers DEF At, RunAt, LaunchAt, ReconcileAt, StopAt,
         WritePcs
    <3> QED BY SMTT(30), <1>1, <2>1, <3>1, ByIs, HalfKeeps DEF SupervisorDies
  <2>2. CASE ~At(p, "open") BY <1>1, <2>2, SameFilesKeep DEF SupervisorDies
  <2> QED BY SMTT(30), <2>1, <2>2
<1>4. UNCHANGED <<box, starts>> BY DEF SupervisorDies
<1>5. \/ stray' = stray
      \/ stray' = stray \cup {<<"create", a>>} /\ run[p].pc = "create"
      \/ stray' = stray \cup {<<"start", a>>} /\ run[p].pc = "start"
  BY DEF SupervisorDies, At
<1>6. ASSUME stray' # stray
      PROVE  /\ a \in Attempts /\ LaunchRun(p, a) /\ PreStart(p) /\ LaunchAt(p) /\ Begun(a)
             /\ \A q \in Procs \ {p} : ~LaunchRun(q, a)
  <2>1. run[p].pc \in {"create", "start"} BY <1>5, <1>6
  <2>2. run[p].mode = "launch" /\ a \in Attempts /\ RunAt(p) /\ Begun(a)
    BY <2>1, HereIs DEF RunAt, ReconcileAt, StopAt, WritePcs
  <2>3. \A q \in Procs \ {p} : ~LaunchRun(q, a) BY <2>1, <2>2, OnlyLaunch
  <2> QED BY <2>1, <2>2, <2>3 DEF LaunchRun, PreStart, RunAt
<1>7. \A b \in Attempts, r \in Revisions : Has(b, r) => Has(b, r)'
  BY <1>1, <1>3, FilesAtKept DEF FilesInv, FilesKeep
<1>8. \A b \in Attempts : (Gone(b)' <=> Gone(b)) /\ (Begun(b)' <=> Begun(b)) /\ auth'.launch[b] = auth.launch[b]
  BY DEF Gone, Begun
<1>9. \A q \in Procs, b \in Attempts : LaunchRun(q, b)' => LaunchRun(q, b) /\ q # p
  BY <1>2 DEF LaunchRun
<1>10. \A q \in Procs \ {p} : PreStart(q)' <=> PreStart(q) BY <1>2 DEF PreStart
<1>11. stray' \in SUBSET (Commands \X Attempts)
  BY <1>1, <1>5, <1>6 DEF SupervisorTypes, Commands
<1>12. \A b \in Attempts : b # a => /\ <<"create", b>> \in stray' <=> <<"create", b>> \in stray
                                    /\ <<"start", b>> \in stray' <=> <<"start", b>> \in stray
  BY <1>5
<1>13. Stable
  <2>1. ASSUME NEW b \in Attempts, Ran(b) PROVE Ran(b)'
    <3>1. <<"create", b>> \notin stray' /\ <<"start", b>> \notin stray'
      BY <1>5, <1>6, <2>1 DEF Ran, Quiet
    <3> QED BY <1>4, <1>7, <1>8, <1>9, <2>1, <3>1, RevisionNumbers DEF Ran, Quiet
  <2>2. ASSUME NEW b \in Attempts, Dead(b) PROVE Dead(b)'
    <3>1. <<"start", b>> \notin stray' BY <1>5, <1>6, <2>2 DEF Dead
    <3> QED BY <1>4, <1>8, <1>9, <1>10, <2>2, <3>1 DEF Dead
  <2>3. \A b \in Attempts : StoppedDown(b) => StoppedDown(b)'
    BY <1>4, <1>7, <1>8, RevisionNumbers DEF StoppedDown
  <2> QED BY <2>1, <2>2, <2>3 DEF Stable
<1>14. BegunInv'
  <2>1. \A q \in Procs : run'[q].mode # "none" => Begun(run'[q].a)
    BY <1>1, <1>2 DEF BegunInv
  <2>2. ASSUME NEW b \in Attempts, ~Begun(b)
        PROVE  /\ box'[b] = "none" /\ starts'[b] = 0
               /\ <<"create", b>> \notin stray' /\ <<"start", b>> \notin stray'
               /\ \A q \in Revisions : ~files'[b][q].live /\ ~files'[b][q].kept
    <3>1. b # a \/ stray' = stray BY <1>6, <2>2
    <3>2. \A q \in Revisions : ~files'[b][q].live /\ ~files'[b][q].kept
      BY <1>1, <1>3, <2>2 DEF FilesKeep, FilesKeepAt, BegunInv
    <3> QED BY <1>1, <1>4, <1>12, <2>2, <3>1, <3>2 DEF BegunInv
  <2>3. \A b \in Attempts : auth'.launch[b] = "started" => Ran(b)'
    BY <1>1, <1>8, <1>13 DEF BegunInv, Stable
  <2> QED BY <1>8, <2>1, <2>2, <2>3 DEF BegunInv, Begun
<1>15. FilesInv' BY <1>1, <1>3, FilesAtKept DEF FilesInv, FilesKeep
<1>16. BoxInv'
  BY <1>1, <1>3, <1>4, <1>7, <1>8, RevisionNumbers DEF BoxInv, BoxAt, FilesKeep, FilesKeepAt
<1>17. StrayInv'
  <2>1. ASSUME NEW b \in Attempts, stray' = stray \/ b # a PROVE StrayAt(b)'
    <3>1. StrayAt(b) BY <1>1 DEF StrayInv
    <3>2. (<<"create", b>> \in stray' <=> <<"create", b>> \in stray)
          /\ (<<"start", b>> \in stray' <=> <<"start", b>> \in stray)
      BY <1>12, <2>1
    <3>3. ~files[b][Created].live => ~files'[b][Created].live
      BY <1>3, RevisionNumbers DEF FilesKeep, FilesKeepAt
    <3>4. ASSUME <<"start", b>> \in stray, NEW q \in Procs, LaunchRun(q, b)' PROVE run'[q].pc = "hung"
      BY <3>1, <3>4, <1>2, <1>9 DEF StrayAt
    <3> QED BY <3>1, <3>2, <3>3, <3>4, <1>4, <1>7, <1>9, RevisionNumbers DEF StrayAt
  <2>2. ASSUME stray' # stray PROVE StrayAt(a)'
    <3>1. \A q \in Procs : ~LaunchRun(q, a)' BY <1>6, <1>9, <2>2
    <3>2. starts[a] = 0 /\ <<"start", a>> \notin stray /\ <<"create", a>> \notin stray
      BY <1>1, <1>6, <2>2 DEF LaunchAt, StrayInv, StrayAt
    <3>3. CASE stray' = stray \cup {<<"create", a>>} /\ run[p].pc = "create"
      <4>1. Has(a, Preparing)' /\ ~files'[a][Created].live
        BY <1>3, <1>6, <1>7, <2>2, <3>3, RevisionNumbers DEF LaunchAt, FilesKeep,
           FilesKeepAt
      <4> QED BY <1>4, <3>1, <3>2, <3>3, <4>1 DEF StrayAt
    <3>4. CASE stray' = stray \cup {<<"start", a>>} /\ run[p].pc = "start"
      <4>1. Has(a, Created)' /\ box[a] = "created"
        BY <1>6, <1>7, <2>2, <3>4, RevisionNumbers DEF LaunchAt
      <4> QED BY <1>4, <3>1, <3>2, <3>4, <4>1 DEF StrayAt
    <3> QED BY <1>5, <2>2, <3>3, <3>4
  <2> QED BY <2>1, <2>2 DEF StrayInv
<1>18. RunInv'
  <2>1. OneLaunch' BY <1>1, <1>9 DEF RunInv, OneLaunch
  <2>2. RunAt(p)' BY <1>2 DEF RunAt, StopModes
  <2>3. ASSUME NEW q \in Procs, q # p PROVE RunAt(q)'
    <3>1. run'[q] = run[q] /\ RunAt(q) BY <1>1, <1>2, <2>3 DEF RunInv
    <3>2. ASSUME run[q].mode = "launch" PROVE LaunchAt(q)'
      <4>1. LaunchAt(q) /\ run[q].a \in Attempts BY <3>1, <3>2, RunLives DEF RunAt
      <4>2. run[q].a # a \/ stray' = stray BY <1>6, <2>3, <3>2 DEF LaunchRun
      <4>3. <<"start", run[q].a>> \in stray' <=> <<"start", run[q].a>> \in stray
        BY <4>1, <4>2, <1>12
      <4>4. (~Gone(run[q].a) => ~Gone(run[q].a)') /\ (PreStart(q)' => PreStart(q))
        BY <3>1, <1>10, <2>3 DEF Gone
      <4>5. \A s \in Revisions : /\ files'[run[q].a][s].live <=> files[run[q].a][s].live
                                 /\ Has(run[q].a, s) => files'[run[q].a][s].live /\ files'[run[q].a][s].kept
        BY <4>1, <1>3, <1>7 DEF FilesKeep, FilesKeepAt, Has
      <4> QED BY <4>1, <4>3, <4>4, <4>5, <3>1, <1>4, LaunchStays
    <3>3. ASSUME run[q].mode = "reconcile" PROVE ReconcileAt(q)'
      <4>1. ReconcileAt(q) /\ run[q].a \in Attempts
        BY SMTT(30), <3>1, <3>3, RunLives DEF RunAt
      <4> QED BY SMTT(30), <4>1, <3>1, <1>3, <1>13, RevisionNumbers DEF ReconcileAt, Stable, FilesKeep, FilesKeepAt
    <3>4. ASSUME run[q].mode \in StopModes PROVE StopAt(q)'
      <4>1. StopAt(q) /\ run[q].a \in Attempts BY <3>1, <3>4, RunLives DEF RunAt, StopModes
      <4>2. \A s \in Revisions : /\ files'[run[q].a][s].live <=> files[run[q].a][s].live
                                 /\ Has(run[q].a, s) => files'[run[q].a][s].live /\ files'[run[q].a][s].kept
        BY <4>1, <1>3, <1>7 DEF FilesKeep, FilesKeepAt, Has
      <4> QED BY SMTT(30), <4>1, <4>2, <3>1, <1>4, <1>13, RevisionNumbers DEF StopAt, Stable, Has
    <3> QED BY <3>1, <3>2, <3>3, <3>4 DEF RunAt
  <2> QED BY <2>1, <2>2, <2>3 DEF RunInv
<1>19. SupervisorTypes'
  BY <1>1, <1>2, <1>3, <1>4, <1>11 DEF SupervisorTypes, FilesKeep, FilesKeepAt
<1> QED BY <1>13, <1>14, <1>15, <1>16, <1>17, <1>18, <1>19 DEF SupervisorInv

LEMMA PowerFile ==
    ASSUME NEW f \in FileRecords, NEW dropped \in BOOLEAN, NEW back \in BOOLEAN,
           NEW pending \in BOOLEAN, NEW g, g = AfterPowerLoss(f, dropped, back, pending)
    PROVE  /\ g \in FileRecords
           /\ g.live <=> IF f.live THEN f.kept \/ ~dropped ELSE f.kept /\ back
           /\ g.kept <=> g.live
<1> DEFINE live == IF f.live THEN f.kept \/ ~dropped ELSE f.kept /\ back
           by == IF live \/ pending THEN f.by ELSE "none"
           pend == IF pending THEN IF f.pend = "alias" /\ ~live THEN "whole" ELSE f.pend ELSE "none"
<1>1. f.live \in BOOLEAN /\ f.kept \in BOOLEAN /\ f.by \in Bys /\ f.pend \in Pends
  BY DEF FileRecords
<1>2. live \in BOOLEAN /\ by \in Bys /\ pend \in Pends BY <1>1 DEF Bys, Pends
<1>3. g = [f EXCEPT !.by = by, !.live = live, !.kept = live, !.pend = pend]
  BY DEF AfterPowerLoss
<1> HIDE DEF live, by, pend
<1>4. g \in FileRecords /\ (g.live <=> live) /\ (g.kept <=> live)
  BY <1>2, <1>3 DEF FileRecords
<1> QED BY <1>4 DEF live

LEMMA PowerKeeps ==
    ASSUME Core, HostLosesPower, UNCHANGED <<auth, exposed>>
    PROVE  SupervisorTypes' /\ SupervisorInv' /\ Stable
<1>1. SupervisorTypes /\ FilesInv /\ BegunInv /\ RunInv /\ BoxInv /\ StrayInv
  BY DEF Core, SupervisorInv
<1>2. /\ run' = [p \in Procs |-> NoRun] /\ stray' = {} /\ starts' = starts
      /\ box' = [a \in Attempts |-> IF box[a] = "running" THEN "exited" ELSE box[a]]
  BY DEF HostLosesPower
<1>3. PICK dropped \in BOOLEAN, pending \in BOOLEAN, oldest \in 0 .. Stopped + 1 :
        files' = [a \in Attempts |-> [r \in Revisions |->
                    AfterPowerLoss(files[a][r], dropped, r >= oldest, pending)]]
  BY DEF HostLosesPower, LosePower
<1>4. ASSUME NEW a \in Attempts, NEW r \in Revisions
      PROVE  /\ files'[a][r] \in FileRecords
             /\ files'[a][r].kept <=> files'[a][r].live
             /\ files'[a][r].live <=> IF files[a][r].live THEN files[a][r].kept \/ ~dropped
                                      ELSE files[a][r].kept /\ r >= oldest
  <2>1. files[a][r] \in FileRecords BY <1>1 DEF SupervisorTypes
  <2>2. files'[a][r] = AfterPowerLoss(files[a][r], dropped, r >= oldest, pending) BY <1>3
  <2>3. (r >= oldest) \in BOOLEAN BY RevisionNumbers
  <2> QED BY ZenonT(60), <2>1, <2>2, <2>3, PowerFile
<1>5. files' \in [Attempts -> [Revisions -> FileRecords]]
  <2>1. files' = [a \in Attempts |-> [r \in Revisions |-> files'[a][r]]] BY <1>3
  <2>2. \A a \in Attempts, r \in Revisions : files'[a][r] \in FileRecords BY <1>4
  <2> QED BY <2>1, <2>2, FileFunction
<1>6. \A a \in Attempts, r \in Revisions : Has(a, r) => Has(a, r)' BY <1>4 DEF Has
<1>7. \A a \in Attempts : (Gone(a)' <=> Gone(a)) /\ (Begun(a)' <=> Begun(a)) /\ auth'.launch[a] = auth.launch[a]
  BY DEF Gone, Begun
<1>8. \A p \in Procs, a \in Attempts : ~LaunchRun(p, a)' BY <1>2 DEF LaunchRun, NoRun
<1>9. \A a \in Attempts : /\ box'[a] # "running"
                          /\ box[a] # "running" => box'[a] = box[a]
                          /\ box[a] = "running" => box'[a] = "exited"
  BY <1>2
<1>10. Stable
  <2>1. ASSUME NEW a \in Attempts, Ran(a) PROVE Ran(a)'
    BY <1>2, <1>6, <1>7, <1>8, <2>1, RevisionNumbers DEF Ran, Quiet
  <2>2. ASSUME NEW a \in Attempts, Dead(a) PROVE Dead(a)'
    BY <1>2, <1>7, <1>8, <1>9, <2>2 DEF Dead
  <2>3. ASSUME NEW a \in Attempts, StoppedDown(a) PROVE StoppedDown(a)'
    BY <1>6, <1>7, <1>9, <2>3, RevisionNumbers DEF StoppedDown
  <2> QED BY <2>1, <2>2, <2>3 DEF Stable
<1>11. SupervisorTypes'
  <2>1. run' \in [Procs -> RunRecords]
    BY <1>2, RevisionNumbers DEF NoRun, RunRecords, RunPcs, Modes, Bys, Results
  <2>2. box' \in [Attempts -> Boxes] BY <1>1, <1>2 DEF SupervisorTypes, Boxes
  <2> QED BY <1>1, <1>2, <1>5, <2>1, <2>2 DEF SupervisorTypes
<1>12. BegunInv'
  <2>1. \A q \in Procs : run'[q].mode = "none" BY <1>2 DEF NoRun
  <2>2. ASSUME NEW a \in Attempts, ~Begun(a)
        PROVE  /\ box'[a] = "none" /\ starts'[a] = 0
               /\ \A r \in Revisions : ~files'[a][r].live /\ ~files'[a][r].kept
    BY <1>1, <1>2, <1>4, <1>9, <2>2 DEF BegunInv
  <2>3. \A a \in Attempts : auth'.launch[a] = "started" => Ran(a)'
    BY <1>1, <1>7, <1>10 DEF BegunInv, Stable
  <2> QED BY <1>2, <1>7, <2>1, <2>2, <2>3 DEF BegunInv
<1>13. FilesInv'
  <2> SUFFICES ASSUME NEW a \in Attempts PROVE FilesAt(a)'
    BY DEF FilesInv
  <2>1. FilesAt(a) BY <1>1 DEF FilesInv
  <2>2. ASSUME ~Gone(a), NEW r \in Revisions, files'[a][r].live, NEW q \in Revisions, q < r
        PROVE  Has(a, q)'
    <3>1. files[a][r].live BY <2>1, <2>2, <1>4 DEF FilesAt
    <3> QED BY <2>1, <2>2, <3>1, <1>6 DEF FilesAt
  <2>3. ASSUME a \in auth.gc, NEW r \in Revisions, files'[a][r].live, NEW q \in Revisions, r < q
        PROVE  files'[a][q].live
    <3>1. CASE files[a][r].live
      <4>1. files[a][q].live BY <2>1, <2>3, <3>1 DEF FilesAt
      <4>2. files[a][q].kept BY <2>1, <2>3, <4>1 DEF FilesAt
      <4> QED BY <4>1, <4>2, <1>4
    <3>2. CASE ~files[a][r].live
      <4>1. files[a][r].kept /\ r >= oldest BY <2>3, <3>2, <1>4
      <4>2. files[a][q].kept BY <2>1, <2>3, <4>1 DEF FilesAt
      <4>3. q >= oldest BY <2>3, <4>1, RevisionNumbers
      <4> QED BY <4>2, <4>3, <1>4
    <3> QED BY <3>1, <3>2
  <2>4. ASSUME a \in auth.gc, NEW r \in Revisions, files'[a][r].kept, r # Stopped
        PROVE  Has(a, Stopped)'
    <3>1. files'[a][Stopped].live BY <1>4, <2>3, <2>4, RevisionNumbers
    <3> QED BY <3>1, <1>4, RevisionNumbers DEF Has
  <2>5. a \in auth.collected => \A r \in Revisions : ~files'[a][r].live /\ ~files'[a][r].kept
    BY <2>1, <1>4 DEF FilesAt
  <2>6. files'[a][Stopping].live \/ files'[a][Stopped].live => auth.launch[a] = "started"
    <3> SUFFICES ASSUME NEW r \in {Stopping, Stopped}, files'[a][r].live PROVE auth.launch[a] = "started"
      OBVIOUS
    <3>1. CASE files[a][r].live BY <2>1, <3>1 DEF FilesAt
    <3>2. CASE ~files[a][r].live
      <4>1. files[a][r].kept BY <3>2, <1>4, RevisionNumbers
      <4>2. Gone(a) BY <2>1, <3>2, <4>1, RevisionNumbers DEF FilesAt
      <4> QED BY <4>2 DEF Core, AuthorityInv
    <3> QED BY <3>1, <3>2
  <2> QED BY <1>4, <1>7, <2>2, <2>3, <2>4, <2>5, <2>6 DEF FilesAt
<1>14. BoxInv'
  <2> SUFFICES ASSUME NEW a \in Attempts PROVE BoxAt(a)'
    BY DEF BoxInv
  <2>1. BoxAt(a) /\ FilesAt(a) BY <1>1 DEF BoxInv, FilesInv
  <2>2. files'[a][Stopped].live => box'[a] \in {"exited", "none"}
    <3>1. CASE files[a][Stopped].live BY <2>1, <3>1, <1>9 DEF BoxAt
    <3>2. CASE ~files[a][Stopped].live /\ files'[a][Stopped].live
      <4>1. files[a][Stopped].kept BY <3>2, <1>4, RevisionNumbers
      <4>2. Gone(a) BY <2>1, <3>2, <4>1, RevisionNumbers DEF FilesAt
      <4> QED BY <2>1, <4>2, <1>9 DEF BoxAt
    <3> QED BY <3>1, <3>2
  <2> QED BY <2>1, <2>2, <1>2, <1>6, <1>7, <1>9, RevisionNumbers DEF BoxAt
<1>15. StrayInv' BY <1>2 DEF StrayInv, StrayAt
<1>16. RunInv' BY <1>2, <1>8 DEF RunInv, OneLaunch, RunAt, NoRun, StopModes
<1> QED BY <1>10, <1>11, <1>12, <1>13, <1>14, <1>15, <1>16 DEF SupervisorInv

(* The collector removes files of an attempt that no run is at.            *)
LEMMA RemovalKeeps ==
    ASSUME Core, NEW a \in Attempts, a \in auth.gc,
           UNCHANGED <<box, stray, run, starts, launcherVars>>,
           files' \in [Attempts -> [Revisions -> FileRecords]],
           \A b \in Attempts \ {a} : FilesKeepAt(b),
           FilesAt(a)', \A r \in Revisions : files'[a][r].live => files[a][r].live
    PROVE  Kept
<1>1. SupervisorTypes /\ FilesInv /\ BegunInv /\ RunInv /\ BoxInv /\ StrayInv
  BY DEF Core, SupervisorInv
<1>2. Gone(a) /\ Ran(a) /\ box[a] = "none" /\ auth.launch[a] = "started"
  BY <1>1 DEF Gone, Core, AuthorityInv, BegunInv, BoxInv, BoxAt
<1>3. \A b \in Attempts : (Gone(b)' <=> Gone(b)) /\ (Begun(b)' <=> Begun(b))
  BY DEF Gone, Begun, launcherVars
<1>4. \A b \in Attempts \ {a}, r \in Revisions : Has(b, r) => Has(b, r)'
  BY <1>1, FilesAtKept DEF FilesInv, launcherVars
<1>5. \A q \in Procs, b \in Attempts : LaunchRun(q, b)' <=> LaunchRun(q, b) BY DEF LaunchRun
<1>6. \A q \in Procs : PreStart(q)' <=> PreStart(q) BY DEF PreStart
<1>7. \A b \in Attempts, r \in Revisions : files'[b][r].live => files[b][r].live
  BY DEF FilesKeepAt
<1>8. \A q \in Procs : run[q].mode \in {"launch"} \cup StopModes => run[q].a \in Attempts \ {a}
  BY <1>2, RunLives DEF StopModes
<1>9. Stable
  <2>1. ASSUME NEW b \in Attempts, Ran(b) PROVE Ran(b)'
    <3>1. CASE b = a BY <3>1, <2>1, <1>2, <1>3, <1>5 DEF Ran, Quiet
    <3>2. CASE b # a BY <3>2, <2>1, <1>3, <1>4, <1>5, RevisionNumbers DEF Ran, Quiet
    <3> QED BY <3>1, <3>2
  <2>2. ASSUME NEW b \in Attempts, Dead(b) PROVE Dead(b)'
    BY <2>2, <1>5, <1>6 DEF Dead, launcherVars
  <2>3. ASSUME NEW b \in Attempts, StoppedDown(b) PROVE StoppedDown(b)'
    <3>1. b # a BY <2>3, <1>2 DEF StoppedDown
    <3> QED BY <3>1, <2>3, <1>3, <1>4, RevisionNumbers DEF StoppedDown
  <2> QED BY <2>1, <2>2, <2>3 DEF Stable
<1>10. BegunInv'
  <2>1. \A q \in Procs : run[q].mode # "none" => Begun(run[q].a)'
    BY <1>1 DEF BegunInv, Begun, launcherVars
  <2>2. ASSUME NEW b \in Attempts, ~Begun(b)
        PROVE  \A r \in Revisions : ~files'[b][r].live /\ ~files'[b][r].kept
    <3>1. b # a BY <1>2, <2>2 DEF Begun
    <3> QED BY <1>1, <2>2, <3>1 DEF BegunInv, FilesKeepAt
  <2>3. \A b \in Attempts : auth'.launch[b] = "started" => Ran(b)'
    BY <1>1, <1>9 DEF BegunInv, Stable, launcherVars
  <2> QED BY <1>1, <1>3, <2>1, <2>2, <2>3 DEF BegunInv
<1>11. FilesInv' BY <1>1, FilesAtKept DEF FilesInv, launcherVars
<1>12. BoxInv'
  <2> SUFFICES ASSUME NEW b \in Attempts PROVE BoxAt(b)'
    BY DEF BoxInv
  <2>1. BoxAt(b) BY <1>1 DEF BoxInv
  <2>2. CASE b = a BY <2>1, <2>2, <1>2, <1>3 DEF BoxAt
  <2>3. CASE b # a BY <2>1, <2>3, <1>3, <1>4, <1>7, RevisionNumbers DEF BoxAt
  <2> QED BY <2>2, <2>3
<1>13. StrayInv'
  <2> SUFFICES ASSUME NEW b \in Attempts PROVE StrayAt(b)'
    BY DEF StrayInv
  <2>1. StrayAt(b) BY <1>1 DEF StrayInv
  <2>2. CASE b = a BY <2>2, <1>2 DEF StrayAt, Ran, Quiet
  <2>3. CASE b # a BY <2>1, <2>3, <1>4, <1>5, <1>7, RevisionNumbers DEF StrayAt
  <2> QED BY <2>2, <2>3
<1>14. RunInv'
  <2>1. OneLaunch' BY <1>1, <1>5 DEF RunInv, OneLaunch
  <2>2. ASSUME NEW q \in Procs PROVE RunAt(q)'
    <3>1. RunAt(q) BY SMTT(30), <1>1 DEF RunInv
    <3>2. ASSUME run[q].mode \in {"launch"} \cup StopModes
          PROVE  \A s \in Revisions :
                    /\ files'[run[q].a][s].live <=> files[run[q].a][s].live
                    /\ Has(run[q].a, s) => files'[run[q].a][s].live /\ files'[run[q].a][s].kept
      <4>1. run[q].a \in Attempts \ {a} BY <1>8, <3>2
      <4>2. FilesKeepAt(run[q].a) /\ FilesAt(run[q].a) BY <4>1, <1>1 DEF FilesInv
      <4> QED BY <4>2 DEF FilesKeepAt, FilesAt, Has
    <3>3. ASSUME run[q].mode = "launch" PROVE LaunchAt(q)'
      <4>1. LaunchAt(q) /\ run'[q] = run[q] /\ (~Gone(run[q].a) => ~Gone(run[q].a)')
        BY <3>1, <3>3 DEF RunAt, Gone, launcherVars
      <4> QED BY <4>1, <1>6, <3>2, <3>3, LaunchStays
    <3>4. ASSUME run[q].mode = "reconcile" PROVE ReconcileAt(q)'
      <4>1. ReconcileAt(q) /\ run[q].a \in Attempts
        BY SMTT(30), <3>1, <3>4, RunLives DEF RunAt
      <4> QED BY SMTT(30), <4>1, <1>7, <1>9, RevisionNumbers DEF ReconcileAt, Stable, launcherVars
    <3>5. ASSUME run[q].mode \in StopModes PROVE StopAt(q)'
      <4>1. StopAt(q) /\ run[q].a \in Attempts BY <3>1, <3>5, RunLives DEF RunAt, StopModes
      <4> QED BY SMTT(30), <4>1, <3>2, <3>5, <1>9, RevisionNumbers DEF StopAt, Stable, Has, launcherVars
    <3> QED BY SMTT(30), <3>1, <3>3, <3>4, <3>5 DEF RunAt
  <2> QED BY <2>1, <2>2 DEF RunInv
<1>15. SupervisorTypes' BY <1>1 DEF SupervisorTypes
<1>16. RunsForCall' BY DEF Core, RunsForCall, RunFor, launcherVars
<1> QED BY <1>9, <1>10, <1>11, <1>12, <1>13, <1>14, <1>15, <1>16 DEF Kept, SupervisorInv

LEMMA CollectKeeps ==
    ASSUME Core, NEW a \in Attempts, Collect(a)
    PROVE  Kept
<1>1. SupervisorTypes /\ FilesInv BY DEF Core, SupervisorInv
<1>2. a \in auth.gc /\ FilesAt(a) /\ UNCHANGED <<box, stray, run, starts, launcherVars>> /\ ~(a \in auth.collected)
  BY <1>1 DEF Collect, FilesInv, Core, AuthorityInv
<1>3. Gone(a)' /\ auth' = auth /\ auth.launch[a] = "started"
  BY <1>2 DEF Gone, launcherVars, Core, AuthorityInv
<1>4. CASE CollectLower(a)
  <2>1. Collectable(a) /\ files[a][Stopped].live /\ Has(a, Stopped)
    BY <1>2, <1>4, RevisionNumbers DEF CollectLower, Collectable, FilesAt, Has
  <2>2. ASSUME NEW b \in Attempts, NEW r \in Revisions
        PROVE  /\ b # a \/ r = Stopped => files'[b][r] = files[b][r]
               /\ b = a /\ r # Stopped =>
                    files'[b][r] = [files[b][r] EXCEPT !.live = FALSE, !.pend = "none"]
    <3>0. files \in [Attempts -> [Revisions -> FileRecords]] BY <1>1 DEF SupervisorTypes
    <3>1. files' = [files EXCEPT ![a] = [s \in Revisions |->
            IF s \in LowerRevisions
            THEN [files[a][s] EXCEPT !.live = FALSE, !.pend = "none"] ELSE files[a][s]]]
      BY <3>0, <1>4 DEF CollectLower
    <3>2. r \in LowerRevisions <=> r # Stopped BY RevisionNumbers DEF LowerRevisions
    <3>3. CASE b = a
      <4>1. files'[a] = [s \in Revisions |->
            IF s \in LowerRevisions
            THEN [files[a][s] EXCEPT !.live = FALSE, !.pend = "none"] ELSE files[a][s]]
        BY <3>0, <3>1
      <4> QED BY <4>1, <3>2, <3>3
    <3>4. CASE b # a BY <3>0, <3>1, <3>4
    <3> QED BY <3>3, <3>4
  <2>3. ASSUME NEW r \in Revisions, r # Stopped
        PROVE  /\ files'[a][r] \in FileRecords /\ ~files'[a][r].live
               /\ files'[a][r].kept <=> files[a][r].kept
    <3>1. files[a][r] \in FileRecords BY <1>1 DEF SupervisorTypes
    <3>2. files'[a][r] = [files[a][r] EXCEPT !.live = FALSE, !.pend = "none"] BY <2>2, <2>3
    <3> QED BY <3>1, <3>2 DEF FileRecords, Pends
  <2>4. files' \in [Attempts -> [Revisions -> FileRecords]]
    <3>0. files \in [Attempts -> [Revisions -> FileRecords]] BY <1>1 DEF SupervisorTypes
    <3>1. files' = [b \in Attempts |-> [r \in Revisions |-> files'[b][r]]]
      <4>1. PICK g : g = [s \in Revisions |->
            IF s \in LowerRevisions
            THEN [files[a][s] EXCEPT !.live = FALSE, !.pend = "none"] ELSE files[a][s]]
        OBVIOUS
      <4>2. files' = [files EXCEPT ![a] = g] BY <3>0, <4>1, <1>4 DEF CollectLower
      <4>3. g = [r \in Revisions |-> g[r]] BY <4>1
      <4> QED BY <3>0, <4>2, <4>3
    <3>2. \A b \in Attempts, r \in Revisions : files'[b][r] \in FileRecords
      <4> SUFFICES ASSUME NEW b \in Attempts, NEW r \in Revisions PROVE files'[b][r] \in FileRecords
        OBVIOUS
      <4>1. files[b][r] \in FileRecords BY <1>1 DEF SupervisorTypes
      <4> QED BY <4>1, <2>2, <2>3
    <3> QED BY <3>1, <3>2, FileFunction
  <2>5. ASSUME NEW b \in Attempts \ {a} PROVE FilesKeepAt(b)
    <3>0. FilesAt(b) BY <1>1, <2>5 DEF FilesInv
    <3>1. FilesAt(b) /\ \A r \in Revisions : files'[b][r] = files[b][r] /\ files[b][r] \in FileRecords
      <4> SUFFICES ASSUME NEW r \in Revisions PROVE files'[b][r] = files[b][r] /\ files[b][r] \in FileRecords
        BY <3>0
      <4>1. files[b][r] \in FileRecords BY <1>1, <2>5 DEF SupervisorTypes
      <4>2. b \in Attempts /\ b # a BY SMTT(30), <2>5
      <4> QED BY <4>1, <4>2, <2>2
    <3> HIDE <2>2, <1>4, <1>1
    <3> QED BY <3>1 DEF FilesKeepAt, FilesAt, FileRecords
  <2>6. Has(a, Stopped)' /\ \A r \in Revisions : files'[a][r].kept <=> files[a][r].kept
    BY <2>1, <2>2, <2>3, RevisionNumbers DEF Has
  <2>7. FilesAt(a)' BY SMTT(30), <1>2, <1>3, <2>3, <2>6, RevisionNumbers DEF FilesAt, Has
  <2>8. \A r \in Revisions : files'[a][r].live => files[a][r].live BY <2>1, <2>3
  <2> QED BY <1>2, <2>4, <2>5, <2>7, <2>8, RemovalKeeps
<1>5. CASE CollectTerminal(a)
  <2>1. \A r \in Revisions : files[a][r].live <=> r = Stopped
    BY <1>5, RevisionNumbers DEF CollectTerminal, Chain
  <2>2. ASSUME NEW b \in Attempts, NEW r \in Revisions
        PROVE  /\ b # a \/ r # Stopped => files'[b][r] = [files[b][r] EXCEPT !.kept = files[b][r].live]
               /\ b = a /\ r = Stopped => files'[b][r] =
                    [[files[b][r] EXCEPT !.kept = files[b][r].live] EXCEPT !.live = FALSE, !.pend = "none"]
    BY <1>1, <1>5, RevisionNumbers DEF CollectTerminal, SyncDirectory
  <2>3. ASSUME NEW b \in Attempts, NEW r \in Revisions
        PROVE  /\ files'[b][r] \in FileRecords
               /\ files'[b][r].kept <=> files[b][r].live
               /\ b # a \/ r # Stopped => (files'[b][r].live <=> files[b][r].live)
               /\ b = a /\ r = Stopped => ~files'[b][r].live
    <3>1. files[b][r] \in FileRecords /\ files[b][r].live \in BOOLEAN
      BY <1>1 DEF SupervisorTypes, FileRecords
    <3>2. CASE b # a \/ r # Stopped
      <4>1. files'[b][r] = [files[b][r] EXCEPT !.kept = files[b][r].live] BY <2>2, <3>2
      <4> QED BY <3>1, <3>2, <4>1 DEF FileRecords
    <3>3. CASE b = a /\ r = Stopped
      <4>1. files'[b][r] =
              [[files[b][r] EXCEPT !.kept = files[b][r].live] EXCEPT !.live = FALSE, !.pend = "none"]
        BY <2>2, <3>3
      <4> QED BY <3>1, <3>3, <4>1 DEF FileRecords, Pends
    <3> QED BY <3>2, <3>3
  <2>4. files' \in [Attempts -> [Revisions -> FileRecords]]
    <3>1. files' = [b \in Attempts |-> [r \in Revisions |-> files'[b][r]]]
      BY <1>1, <1>5 DEF CollectTerminal, SyncDirectory
    <3>2. \A b \in Attempts, r \in Revisions : files'[b][r] \in FileRecords BY <2>3
    <3> QED BY <3>1, <3>2, FileFunction
  <2>5. \A b \in Attempts \ {a} : FilesKeepAt(b) BY <2>3 DEF FilesKeepAt
  <2>6. \A r \in Revisions : ~files'[a][r].live /\ (files'[a][r].kept <=> r = Stopped)
    BY <2>1, <2>3
  <2>7. FilesAt(a)' BY SMTT(30), <1>2, <1>3, <2>6, RevisionNumbers DEF FilesAt, launcherVars
  <2> QED BY <1>2, <2>4, <2>5, <2>6, <2>7, RemovalKeeps
<1>6. CASE CollectSync(a)
  <2>1. files' = SyncDirectory(files) /\ \A r \in Revisions : ~files[a][r].live
    BY <1>6 DEF CollectSync, Chain
  <2>2. FilesKeep BY <1>1, <2>1, SyncKeeps DEF SupervisorTypes
  <2>3. FilesAt(a)' BY <1>2, <1>3, <2>2, FilesAtKept DEF FilesKeep
  <2> QED BY <1>2, <2>1, <2>2, <2>3, RemovalKeeps DEF FilesKeep, FilesKeepAt
<1> QED BY <1>4, <1>5, <1>6 DEF Collect

-----------------------------------------------------------------------------
(* The launcher: the authority, the runs and the calls move, and nothing   *)
(* is done to files or containers.                                         *)
Standing == Core /\ CallInv /\ OverInv /\ HandleInv

Outside == UNCHANGED <<files, box, stray, starts, exposed>>

AuthMovesAt(a) ==
    /\ auth.launch[a] \notin {"absent", "prepared"} => auth'.launch[a] \notin {"absent", "prepared"}
    /\ auth.launch[a] \notin {"absent", "prepared", "cancelled"} =>
          auth'.launch[a] \notin {"absent", "prepared", "cancelled"}
    /\ auth.launch[a] = "started" => auth'.launch[a] = "started"
    /\ auth'.launch[a] = "started" => Ran(a)
    /\ ~exposed /\ auth'.launch[a] \in Ended => Dead(a) \/ (~Begun(a) /\ auth'.launch[a] = "cancelled")
    /\ auth.stop[a] \notin {"absent", "prepared"} =>
          auth'.stop[a] \notin {"absent", "prepared"} /\ auth'.token[a] = auth.token[a]
    /\ auth'.stop[a] \in {"absent", "prepared"} => auth'.token[a] = "none"
    /\ auth.stop[a] = "stopped" => auth'.stop[a] = "stopped"
    /\ auth'.stop[a] = "stopped" => a \in auth'.gc \cup auth'.collected
    /\ auth'.stop[a] = "stopped" /\ auth.stop[a] # "stopped" =>
          \A q \in Procs : call[q].a = a => call[q].pc \notin Dispatched
    /\ Gone(a) => a \in auth'.gc \cup auth'.collected
    /\ a \in auth'.gc => a \in auth.gc \/ StoppedDown(a)
    /\ a \in auth'.collected =>
          a \in auth.collected \/ (Gone(a) /\ \A r \in Revisions : ~files[a][r].live /\ ~files[a][r].kept)
    /\ auth.fence[a] \notin {"absent", "prepared"} => auth'.fence[a] \notin {"absent", "prepared"}
    /\ auth'.fence[a] = "fenced" => StoppedDown(a)

AuthMoves == auth' \in AuthRecords /\ AuthorityInv' /\ \A a \in Attempts : AuthMovesAt(a)

(* A call of the supervisor that has just been made.                       *)
Fresh(p) ==
    LET a == run'[p].a IN
    /\ run'[p].pc = "read"
    /\ run'[p].mode \in Modes \ {"none"}
    /\ a \in Attempts
    /\ auth'.launch[a] \notin {"absent", "prepared", "cancelled"}
    /\ run'[p].mode = "launch" => auth.launch[a] = "prepared"
    /\ run'[p].mode = "stop" => auth'.stop[a] \in {"starting", "uncertain"}
    /\ run'[p].mode \in {"fresh", "restop"} => auth'.fence[a] \notin {"absent", "prepared"}

RunMoves(p) ==
    /\ run' \in [Procs -> RunRecords]
    /\ \A q \in Procs \ {p} : run'[q] = run[q]
    /\ run'[p] = run[p] \/ run'[p].mode = "none" \/ Fresh(p)

Stays ==
    \A a \in Attempts :
        /\ Ran(a) => Ran(a)'
        /\ Dead(a) => Dead(a)'
        /\ StoppedDown(a) /\ ~Gone(a)' => StoppedDown(a)'

LEMMA MovesStay ==
    ASSUME Standing, NEW p, Outside, AuthMoves, RunMoves(p)
    PROVE  Stays /\ \A q \in Procs, a \in Attempts : LaunchRun(q, a)' =>
                      LaunchRun(q, a) \/ (q = p /\ Fresh(p) /\ ~Begun(a) /\ ~Gone(a)')
<1>1. ASSUME NEW q \in Procs, NEW a \in Attempts, LaunchRun(q, a)'
      PROVE  \/ LaunchRun(q, a) /\ run'[q] = run[q]
             \/ q = p /\ Fresh(p) /\ auth.launch[a] = "prepared"
  BY <1>1 DEF LaunchRun, RunMoves, Fresh
<1>2. ASSUME NEW a \in Attempts, auth.launch[a] = "prepared"
      PROVE  ~Begun(a) /\ ~Ran(a) /\ ~Dead(a) /\ ~Gone(a)'
  <2>1. ~Begun(a) /\ starts[a] = 0 /\ ~Dead(a) /\ auth.stop[a] = "absent" /\ ~Gone(a)
    BY <1>2 DEF Begun, Standing, Core, SupervisorInv, BegunInv, Dead, AuthorityInv
  <2>2. ~files[a][Stopped].live /\ a \in Attempts
    BY <2>1, RevisionNumbers DEF Standing, Core, SupervisorInv, BegunInv
  <2>3. AuthMovesAt(a) BY DEF AuthMoves
  <2> QED BY <2>1, <2>2, <2>3 DEF AuthMovesAt, Gone, StoppedDown, Has, Ran
<1>3. ASSUME NEW a \in Attempts, Begun(a) PROVE Begun(a)'
  BY <1>3 DEF AuthMoves, AuthMovesAt, Begun
<1>4. ASSUME NEW a \in Attempts, Gone(a) PROVE Gone(a)'
  BY <1>4 DEF AuthMoves, AuthMovesAt, Gone
<1>5. ASSUME NEW a \in Attempts, Ran(a) PROVE Ran(a)'
  <2>1. \A q \in Procs : ~LaunchRun(q, a)' BY <1>1, <1>2, <1>5 DEF Ran, Quiet
  <2> QED BY <1>3, <1>4, <1>5, <2>1 DEF Ran, Quiet, Outside, Has
<1>6. ASSUME NEW a \in Attempts, Dead(a) PROVE Dead(a)'
  <2>1. ASSUME NEW q \in Procs, LaunchRun(q, a)' PROVE ~PreStart(q)'
    <3>1. LaunchRun(q, a) /\ run'[q] = run[q] BY <1>1, <1>2, <1>6, <2>1
    <3> QED BY <3>1, <1>6 DEF Dead, PreStart
  <2> QED BY <1>6, <2>1 DEF Dead, Outside, AuthMoves, AuthMovesAt
<1>7. ASSUME NEW a \in Attempts, StoppedDown(a), ~Gone(a)' PROVE StoppedDown(a)'
  BY <1>7 DEF StoppedDown, Outside, Has
<1> QED BY <1>1, <1>2, <1>5, <1>6, <1>7 DEF Stays

LEMMA MovesKeep ==
    ASSUME Standing, NEW p, Outside, AuthMoves, RunMoves(p)
    PROVE  SupervisorTypes' /\ SupervisorInv' /\ OverInv'
<1>1. SupervisorTypes /\ BegunInv /\ FilesInv /\ BoxInv /\ StrayInv /\ RunInv /\ AuthorityInv
  BY DEF Standing, Core, SupervisorInv
<1>2. Stays BY MovesStay
<1>3. ASSUME NEW a \in Attempts
      PROVE  /\ AuthMovesAt(a)
             /\ Begun(a) => Begun(a)'
             /\ Gone(a) => Gone(a)'
             /\ Gone(a)' => Gone(a) \/ StoppedDown(a)
  BY DEF AuthMoves, AuthMovesAt, Gone, Begun
<1>4. \A a \in Attempts, r \in Revisions : Has(a, r)' <=> Has(a, r) BY DEF Has, Outside
<1>5. SupervisorTypes' BY <1>1 DEF SupervisorTypes, RunMoves, Outside
<1>6. BegunInv'
  <2>2. ASSUME NEW q \in Procs, run'[q].mode # "none"
        PROVE  auth'.launch[run'[q].a] \notin {"absent", "prepared", "cancelled"}
    <3>1. CASE run'[q] = run[q]
      <4>1. PICK a \in Attempts : a = run[q].a /\ a = run'[q].a
        BY <2>2, <3>1, RunLives DEF Standing
      <4>2. Begun(a) BY <2>2, <3>1, <4>1, RunLives DEF Standing
      <4> QED BY <4>1, <4>2, <1>3 DEF Begun
    <3>2. CASE q = p /\ Fresh(p) BY <3>2 DEF Fresh
    <3> QED BY <2>2, <3>1, <3>2 DEF RunMoves
  <2>3. \A a \in Attempts : auth'.launch[a] = "started" => Ran(a)'
    BY <1>2, <1>3 DEF Stays, AuthMovesAt
  <2>4. ASSUME NEW a \in Attempts, ~Begun(a)'
        PROVE  /\ box'[a] = "none" /\ starts'[a] = 0
               /\ <<"create", a>> \notin stray' /\ <<"start", a>> \notin stray'
               /\ \A r \in Revisions : ~files'[a][r].live /\ ~files'[a][r].kept
    BY <1>1, <1>3, <2>4 DEF BegunInv, Outside
  <2> QED BY <2>2, <2>3, <2>4 DEF BegunInv, Begun
<1>7. FilesInv'
  <2> SUFFICES ASSUME NEW a \in Attempts PROVE FilesAt(a)'
    BY DEF FilesInv
  <2>1. FilesAt(a) /\ files' = files BY <1>1 DEF FilesInv, Outside
  <2>2. files'[a][Stopping].live \/ files'[a][Stopped].live => auth'.launch[a] = "started"
    BY <1>3, <2>1 DEF FilesAt, AuthMovesAt
  <2>3. ~Gone(a)' => ~Gone(a) BY <1>3
  <2>4. a \in auth'.collected => \A r \in Revisions : ~files[a][r].live /\ ~files[a][r].kept
    BY <1>3, <2>1 DEF FilesAt, AuthMovesAt
  <2>5. ASSUME a \in auth'.gc PROVE \A r \in Revisions :
            /\ files[a][r].live =>
                  files[a][r].kept /\ \A q \in Revisions : r < q => files[a][q].live
            /\ files[a][r].kept => \A q \in Revisions : r < q => files[a][q].kept
            /\ files[a][r].kept /\ r # Stopped => Has(a, Stopped)
    <3>1. CASE a \in auth.gc BY <2>1, <3>1 DEF FilesAt
    <3>2. CASE StoppedDown(a)
      <4>1. \A q \in Revisions : Has(a, q)
        BY <2>1, <3>2, RevisionNumbers DEF FilesAt, StoppedDown, Has
      <4> QED BY <4>1, RevisionNumbers DEF Has
    <3> QED BY <1>3, <2>5, <3>1, <3>2 DEF AuthMovesAt
  <2>6. ASSUME ~Gone(a)', NEW r \in Revisions
        PROVE  /\ files'[a][r].kept => files'[a][r].live
               /\ files'[a][r].live => \A q \in Revisions : q < r => Has(a, q)'
    BY <2>1, <2>3, <2>6, <1>4 DEF FilesAt
  <2>7. \A r \in Revisions : files'[a][r].live /\ files'[a][r].pend # "alias" => files'[a][r].kept
    BY <2>1 DEF FilesAt
  <2>8. a \in auth'.gc => \A r \in Revisions :
            /\ files'[a][r].live =>
                  files'[a][r].kept /\ \A q \in Revisions : r < q => files'[a][q].live
            /\ files'[a][r].kept => \A q \in Revisions : r < q => files'[a][q].kept
            /\ files'[a][r].kept /\ r # Stopped => Has(a, Stopped)'
    BY <2>1, <2>5, <1>4, RevisionNumbers
  <2>9. a \in auth'.collected => \A r \in Revisions : ~files'[a][r].live /\ ~files'[a][r].kept
    BY <2>1, <2>4
  <2> HIDE <1>1, <2>1
  <2> QED BY ONLY <2>2, <2>6, <2>7, <2>8, <2>9 DEF FilesAt
<1>8. BoxInv'
  <2> SUFFICES ASSUME NEW a \in Attempts PROVE BoxAt(a)'
    BY DEF BoxInv
  <2>1. BoxAt(a) BY <1>1 DEF BoxInv
  <2>2. box[a] # "none" => ~Gone(a)' BY <1>3, <2>1 DEF BoxAt, StoppedDown
  <2> QED BY <2>1, <2>2, <1>3, <1>4, RevisionNumbers DEF BoxAt, Outside
<1>9. StrayInv'
  <2> SUFFICES ASSUME NEW a \in Attempts PROVE StrayAt(a)'
    BY DEF StrayInv
  <2>1. StrayAt(a) BY <1>1 DEF StrayInv
  <2>2. ASSUME NEW q \in Procs, LaunchRun(q, a)', <<"create", a>> \in stray \/ <<"start", a>> \in stray
        PROVE  LaunchRun(q, a) /\ run'[q] = run[q]
    <3>1. Begun(a) BY <1>1, <2>2 DEF BegunInv
    <3>2. auth.launch[a] # "prepared" BY <3>1 DEF Begun
    <3> QED BY <2>2, <3>2 DEF LaunchRun, RunMoves, Fresh
  <2> QED BY <2>1, <2>2, <1>4, RevisionNumbers DEF StrayAt, Outside
<1>10. RunInv'
  <2>1. OneLaunch'
    <3> SUFFICES ASSUME NEW q \in Procs, NEW s \in Procs, NEW a \in Attempts, LaunchRun(q, a)', LaunchRun(s, a)'
                 PROVE  q = s
      BY DEF OneLaunch
    <3>1. \A t \in Procs : LaunchRun(t, a) => Begun(a) BY <1>1 DEF BegunInv, LaunchRun
    <3> QED BY <3>1, <1>1, MovesStay DEF RunInv, OneLaunch
  <2>2. ASSUME NEW q \in Procs PROVE RunAt(q)'
    <3>1. CASE run'[q].mode = "none" BY <3>1 DEF RunAt, StopModes
    <3>2. CASE q = p /\ Fresh(p)
      <4>1. run'[q].a \in Attempts /\ run'[q].pc = "read" /\ run'[q].mode \in Modes \ {"none"}
        BY <3>2 DEF Fresh
      <4>2. CASE run'[q].mode = "launch"
        <5>0. PICK a \in Attempts : a = run'[q].a BY <4>1
        <5>1. auth.launch[a] = "prepared" /\ ~Begun(a) BY <3>2, <4>2, <5>0 DEF Fresh, Begun
        <5>2. /\ box[a] = "none" /\ starts[a] = 0 /\ <<"start", a>> \notin stray
              /\ \A r \in Revisions : ~files[a][r].live
          BY <1>1, <4>1, <5>1 DEF BegunInv
        <5>3. ~Gone(a)'
          <6>1. ~Gone(a) BY <1>1, <5>1 DEF AuthorityInv
          <6> QED BY <6>1, <5>2, <1>3, RevisionNumbers DEF StoppedDown, Has
        <5>4. LaunchAt(q)' BY <4>1, <5>0, <5>2, <5>3 DEF LaunchAt, Outside, WritePcs, Gone
        <5> QED BY <4>2, <5>4 DEF RunAt, StopModes
      <4>3. CASE run'[q].mode = "reconcile" BY <4>1, <4>3 DEF RunAt, StopModes, ReconcileAt
      <4>4. CASE run'[q].mode \in StopModes
        <5>1. StopAt(q)' BY <3>2, <4>1, <4>4 DEF Fresh, StopAt, StopModes, WritePcs
        <5> QED BY <4>4, <5>1 DEF RunAt, StopModes
      <4> QED BY <4>1, <4>2, <4>3, <4>4 DEF Modes, StopModes
    <3>3. CASE run'[q] = run[q] /\ run[q].mode # "none"
      <4>0. PICK a \in Attempts : a = run[q].a /\ a = run'[q].a
        BY SMTT(30), <3>3, RunLives DEF Standing
      <4>1. a = run[q].a /\ a = run'[q].a /\ RunAt(q) /\ a = call[q].a
        BY SMTT(30), <3>3, <4>0, RunLives DEF Standing
      <4>2. AuthMovesAt(a) BY SMTT(30), <1>3, <4>1
      <4>3. ASSUME run[q].mode = "launch" PROVE LaunchAt(q)'
        <5>1. LaunchAt(q) BY <4>1, <4>3 DEF RunAt
        <5>2. ~Gone(a)'
          <6>1. ~Gone(a) /\ auth.launch[a] # "started"
            BY <3>3, <4>1, <4>3, RunLives DEF Standing
          <6>2. ~StoppedDown(a)
            BY <1>1, <4>1, <6>1, RevisionNumbers DEF FilesInv, FilesAt, StoppedDown, Has
          <6> QED BY <6>1, <6>2, <4>2 DEF AuthMovesAt, Gone
        <5> QED BY SMTT(30), <3>3, <4>1, <5>1, <5>2, <1>4, RevisionNumbers DEF LaunchAt, Outside, PreStart, Gone
      <4>4. ASSUME run[q].mode = "reconcile" PROVE ReconcileAt(q)'
        <5>1. ReconcileAt(q) BY <4>1, <4>4 DEF RunAt
        <5>2. Dead(a) => Dead(a)' BY <1>2, <4>1 DEF Stays
        <5>3. ReconcileAt(q)'
          BY <3>3, <4>1, <4>2, <5>1, <1>2 DEF ReconcileAt, Outside, AuthMovesAt, Stays
        <5> QED BY <5>3
      <4>5. ASSUME run[q].mode \in StopModes PROVE StopAt(q)'
        <5>1. StopAt(q) BY <4>1, <4>5 DEF RunAt
        <5>2. run[q].mode = "stop" => call[q].pc = "stopping"
          BY <4>5 DEF Standing, Core, RunsForCall, RunFor, ModesOf
        <5>3. IF run[q].mode = "stop" THEN auth'.stop[a] \in {"starting", "uncertain"}
              ELSE auth'.fence[a] \notin {"absent", "prepared"}
          <6>1. auth' \in AuthRecords BY DEF AuthMoves
          <6>2. auth'.stop[a] \in StopPhases BY <6>1, <4>1 DEF AuthRecords
          <6> QED BY <4>1, <4>2, <5>1, <5>2, <6>2 DEF StopAt, AuthMovesAt, Dispatched, StopPhases
        <5>4. ~Gone(a)' BY <4>1, <4>5, <5>3 DEF AuthMoves, AuthorityInv, StopModes
        <5>5. StoppedDown(a) => StoppedDown(a)' BY <1>2, <4>1, <5>4 DEF Stays
        <5> QED BY <3>3, <4>1, <5>1, <5>3, <5>4, <1>2, <1>4, RevisionNumbers DEF StopAt, Outside, Stays
      <4> QED BY <3>3, <4>3, <4>4, <4>5 DEF RunAt
    <3> QED BY <3>1, <3>2, <3>3 DEF RunMoves
  <2> QED BY <2>1, <2>2 DEF RunInv
<1>11. OverInv'
  <2> SUFFICES ASSUME NEW a \in Attempts PROVE OverAt(a)'
    BY DEF OverInv
  <2>1. AuthMovesAt(a) BY <1>3
  <2>2. ASSUME ~exposed', auth'.launch[a] \in Ended PROVE Dead(a)'
    <3>1. CASE Dead(a) BY <1>2, <3>1 DEF Stays
    <3>2. CASE ~Begun(a)
      <4>1. box[a] = "none" /\ <<"start", a>> \notin stray BY <1>1, <3>2 DEF BegunInv
      <4>0. auth'.launch[a] = "cancelled" \/ Dead(a)
        BY <2>1, <2>2, <3>2 DEF AuthMovesAt, Outside
      <4>2. ASSUME NEW q \in Procs, LaunchRun(q, a)', auth'.launch[a] = "cancelled" PROVE FALSE
        BY <1>6, <4>2 DEF BegunInv, LaunchRun, Begun
      <4>3. Dead(a) => Dead(a)' BY <1>2 DEF Stays
      <4> QED BY <2>2, <4>0, <4>1, <4>2, <4>3 DEF Dead, Outside, Ended
    <3> QED BY <2>1, <2>2, <3>1, <3>2 DEF AuthMovesAt, Outside
  <2>3. ASSUME auth'.fence[a] = "fenced" PROVE StoppedDown(a)'
    <3>1. ~Gone(a)' BY <2>3 DEF AuthMoves, AuthorityInv
    <3> QED BY <1>2, <2>1, <2>3, <3>1 DEF Stays, AuthMovesAt
  <2> QED BY <2>1, <2>2, <2>3 DEF OverAt, AuthMovesAt, Gone
<1> QED BY <1>5, <1>6, <1>7, <1>8, <1>9, <1>10, <1>11 DEF SupervisorInv

-----------------------------------------------------------------------------
(* The transitions of the authority.                                       *)
LEMMA AuthStays ==
    ASSUME Standing, UNCHANGED auth
    PROVE  AuthMoves
<1>1. auth' \in AuthRecords /\ AuthorityInv'
  BY DEF Standing, Core, LauncherTypes, AuthorityInv, Gone
<1>2. ASSUME NEW a \in Attempts PROVE AuthMovesAt(a)
  BY DEF AuthMovesAt, Standing, Core, SupervisorInv, BegunInv, OverInv, OverAt, Gone
<1> QED BY <1>1, <1>2 DEF AuthMoves

(* What is known of an attempt as long as its records do not change.       *)
LEMMA AttemptStays ==
    ASSUME Standing, NEW a \in Attempts,
           auth'.launch[a] = auth.launch[a], auth'.stop[a] = auth.stop[a],
           auth'.fence[a] = auth.fence[a], auth'.token[a] = auth.token[a],
           a \in auth'.gc <=> a \in auth.gc, a \in auth'.collected <=> a \in auth.collected
    PROVE  AuthMovesAt(a)
  BY DEF AuthMovesAt, Standing, Core, SupervisorInv, BegunInv, OverInv, OverAt, Gone

LEMMA LaunchSet ==
    ASSUME LauncherTypes, NEW a \in Attempts, NEW phase \in LaunchPhases,
           auth' = [auth EXCEPT !.launch[a] = phase]
    PROVE  /\ auth' \in AuthRecords
           /\ auth'.launch[a] = phase
           /\ \A b \in Attempts \ {a} : auth'.launch[b] = auth.launch[b]
           /\ auth'.stop = auth.stop /\ auth'.fence = auth.fence /\ auth'.capture = auth.capture
           /\ auth'.token = auth.token /\ auth'.gc = auth.gc
           /\ auth'.collected = auth.collected /\ auth'.pointer = auth.pointer
  BY DEF LauncherTypes, AuthRecords

LEMMA LaunchReserves ==
    ASSUME Standing, NEW a \in Attempts, CanReserveLaunch(a),
           auth'.launch[a] = "prepared", auth' \in AuthRecords,
           \A b \in Attempts \ {a} : auth'.launch[b] = auth.launch[b],
           auth'.stop = auth.stop, auth'.fence = auth.fence, auth'.capture = auth.capture,
           auth'.token = auth.token, auth'.gc = auth.gc,
           auth'.collected = auth.collected, auth'.pointer = auth.pointer
    PROVE  AuthMoves
<1>1. AuthorityInv /\ auth \in AuthRecords BY DEF Standing, Core, LauncherTypes
<1>2. /\ auth.launch[a] = "absent" /\ auth.pointer = "none"
      /\ \A b \in Attempts : auth.launch[b] \notin ActivePhases /\ auth.stop[b] \notin ActivePhases
            /\ auth.fence[b] \notin ActivePhases /\ auth.capture[b] \notin ActivePhases
  BY DEF CanReserveLaunch, Idle, Active
<1>3. AuthorityInv' BY <1>1, <1>2 DEF AuthorityInv, ActivePhases, Gone
<1>4. ASSUME NEW b \in Attempts PROVE AuthMovesAt(b)
  <2>1. CASE b = a
    BY <2>1, <1>1, <1>2 DEF AuthMovesAt, Standing, OverInv, OverAt, Gone, Ended,
       AuthorityInv
  <2>2. CASE b # a BY <2>2, AttemptStays
  <2> QED BY <2>1, <2>2
<1> QED BY <1>3, <1>4 DEF AuthMoves

(* An active launch goes on.                                               *)
LEMMA LaunchGoesOn ==
    ASSUME Standing, NEW a \in Attempts, auth.launch[a] \in ActivePhases,
           NEW phase \in {"starting", "uncertain"}, auth' = [auth EXCEPT !.launch[a] = phase]
    PROVE  AuthMoves
<1>1. AuthorityInv /\ auth \in AuthRecords /\ LauncherTypes
  BY DEF Standing, Core, LauncherTypes
<1>2. /\ auth' \in AuthRecords
      /\ auth'.launch[a] = phase
      /\ \A b \in Attempts \ {a} : auth'.launch[b] = auth.launch[b]
      /\ auth'.stop = auth.stop /\ auth'.fence = auth.fence /\ auth'.capture = auth.capture
      /\ auth'.token = auth.token /\ auth'.gc = auth.gc
      /\ auth'.collected = auth.collected /\ auth'.pointer = auth.pointer
  BY <1>1, LaunchSet DEF LaunchPhases
<1>3. AuthorityInv' BY <1>1, <1>2 DEF AuthorityInv, ActivePhases, Gone
<1>4. ASSUME NEW b \in Attempts PROVE AuthMovesAt(b)
  <2>1. CASE b = a
    BY <2>1, <1>1, <1>2 DEF AuthMovesAt, Standing, OverInv, OverAt, Gone, Ended,
       AuthorityInv, ActivePhases
  <2>2. CASE b # a BY <2>2, <1>2, AttemptStays
  <2> QED BY <2>1, <2>2
<1> QED BY <1>2, <1>3, <1>4 DEF AuthMoves

(* A launch ends when it is dead, or before it was claimed.                *)
LEMMA LaunchEnds ==
    ASSUME Standing, NEW a \in Attempts, auth.launch[a] \in ActivePhases, NEW phase \in Ended,
           ~exposed => Dead(a) \/ (auth.launch[a] = "prepared" /\ phase = "cancelled"),
           auth.launch[a] \in {"starting", "uncertain"} => phase # "cancelled",
           auth' = [auth EXCEPT !.launch[a] = phase]
    PROVE  AuthMoves
<1>1. AuthorityInv /\ auth \in AuthRecords /\ LauncherTypes
  BY DEF Standing, Core, LauncherTypes
<1>2. /\ auth' \in AuthRecords
      /\ auth'.launch[a] = phase
      /\ \A b \in Attempts \ {a} : auth'.launch[b] = auth.launch[b]
      /\ auth'.stop = auth.stop /\ auth'.fence = auth.fence /\ auth'.capture = auth.capture
      /\ auth'.token = auth.token /\ auth'.gc = auth.gc
      /\ auth'.collected = auth.collected /\ auth'.pointer = auth.pointer
  BY <1>1, LaunchSet DEF LaunchPhases
<1>3. AuthorityInv' BY <1>1, <1>2 DEF AuthorityInv, ActivePhases, Gone, Ended
<1>4. ASSUME NEW b \in Attempts PROVE AuthMovesAt(b)
  <2>1. CASE b = a
    BY <2>1, <1>1, <1>2 DEF AuthMovesAt, Standing, OverInv, OverAt, Gone, Ended,
       AuthorityInv, ActivePhases, Begun
  <2>2. CASE b # a BY <2>2, <1>2, AttemptStays
  <2> QED BY <2>1, <2>2
<1> QED BY <1>2, <1>3, <1>4 DEF AuthMoves

(* A launch has started.                                                   *)
LEMMA LaunchStarts ==
    ASSUME Standing, NEW a \in Attempts, auth.launch[a] \in {"starting", "uncertain"}, Ran(a),
           auth' = [auth EXCEPT !.launch[a] = "started", !.pointer = a]
    PROVE  AuthMoves
<1>1. AuthorityInv /\ auth \in AuthRecords BY DEF Standing, Core, LauncherTypes
<1>2. /\ auth' \in AuthRecords
      /\ auth'.launch[a] = "started" /\ auth'.pointer = a
      /\ \A b \in Attempts \ {a} : auth'.launch[b] = auth.launch[b]
      /\ auth'.stop = auth.stop /\ auth'.fence = auth.fence /\ auth'.capture = auth.capture
      /\ auth'.token = auth.token /\ auth'.gc = auth.gc
      /\ auth'.collected = auth.collected
  BY <1>1 DEF AuthRecords, LaunchPhases
<1>3. /\ auth.pointer = "none" /\ auth.stop[a] = "absent" /\ auth.fence[a] = "absent"
      /\ \A b \in Attempts : /\ auth.launch[b] \in ActivePhases => b = a
                             /\ auth.capture[b] \notin ActivePhases
                             /\ auth.stop[b] \notin ActivePhases
                             /\ auth.fence[b] \notin ActivePhases \cup {"blocked"}
  BY <1>1, AttemptsAssumption DEF AuthorityInv, ActivePhases
<1>4. AuthorityInv'
  <2>1. \A b \in Attempts : auth'.launch[b] \notin ActivePhases /\ auth'.capture[b] \notin ActivePhases
    BY <1>2, <1>3 DEF ActivePhases
  <2>2. \A b \in Attempts \ {a} : auth'.launch[b] = "started" =>
            auth'.stop[b] = "stopped" \/ auth'.fence[b] = "fenced"
    BY <1>1, <1>2, <1>3, AttemptsAssumption DEF AuthorityInv
  <2>3. ASSUME NEW b \in Attempts
        PROVE  /\ auth'.stop[b] # "absent" => auth'.launch[b] = "started" /\ auth'.fence[b] = "absent"
               /\ auth'.fence[b] # "absent" => auth'.launch[b] = "started"
               /\ Gone(b)' => auth'.stop[b] = "stopped"
               /\ auth'.stop[b] \notin ActivePhases
               /\ auth'.fence[b] \notin ActivePhases \cup {"blocked"}
    BY <1>1, <1>2, <1>3 DEF AuthorityInv, Gone
  <2>4. auth'.gc \cap auth'.collected = {} BY <1>1, <1>2 DEF AuthorityInv
  <2> QED BY <1>2, <1>3, <2>1, <2>2, <2>3, <2>4 DEF AuthorityInv
<1>5. ASSUME NEW b \in Attempts PROVE AuthMovesAt(b)
  <2>1. CASE b = a
    BY <2>1, <1>1, <1>2 DEF AuthMovesAt, Standing, OverInv, OverAt, Gone, Ended,
       AuthorityInv
  <2>2. CASE b # a BY <2>2, <1>2, AttemptStays
  <2> QED BY <2>1, <2>2
<1> QED BY <1>2, <1>4, <1>5 DEF AuthMoves

LEMMA StopReserves ==
    ASSUME Standing, NEW a \in Attempts, ~Active, auth.pointer = a, auth.stop[a] = "absent",
           auth' = [auth EXCEPT !.stop[a] = "prepared"]
    PROVE  AuthMoves
<1>1. AuthorityInv /\ auth \in AuthRecords BY DEF Standing, Core, LauncherTypes
<1>2. /\ auth' \in AuthRecords
      /\ auth'.stop[a] = "prepared"
      /\ \A b \in Attempts \ {a} : auth'.stop[b] = auth.stop[b]
      /\ auth'.launch = auth.launch /\ auth'.fence = auth.fence /\ auth'.capture = auth.capture
      /\ auth'.token = auth.token /\ auth'.gc = auth.gc
      /\ auth'.collected = auth.collected /\ auth'.pointer = auth.pointer
  BY <1>1 DEF AuthRecords, StopPhases
<1>3. auth.fence[a] = "absent" /\ a # "none"
  <2>1. auth.fence[a] \in FencePhases BY <1>1 DEF AuthRecords
  <2> QED BY <1>1, <2>1, AttemptsAssumption DEF AuthorityInv, Active, FencePhases, ActivePhases
<1>4. AuthorityInv' BY <1>1, <1>2, <1>3 DEF AuthorityInv, ActivePhases, Gone
<1>5. ASSUME NEW b \in Attempts PROVE AuthMovesAt(b)
  <2>1. CASE b = a
    BY <2>1, <1>1, <1>2, <1>3 DEF AuthMovesAt, Standing, Core, SupervisorInv, BegunInv,
       OverInv, OverAt, Gone, Ended, AuthorityInv
  <2>2. CASE b # a BY <2>2, <1>2, AttemptStays
  <2> QED BY <2>1, <2>2
<1> QED BY <1>2, <1>4, <1>5 DEF AuthMoves

LEMMA StopClaimed ==
    ASSUME Standing, NEW a \in Attempts, auth.stop[a] = "prepared", NEW p \in Procs,
           auth' = [auth EXCEPT !.stop[a] = "starting", !.token[a] = p]
    PROVE  AuthMoves /\ auth'.token[a] = p /\ auth'.stop[a] = "starting"
<1>1. AuthorityInv /\ auth \in AuthRecords BY DEF Standing, Core, LauncherTypes
<1>2. /\ auth' \in AuthRecords
      /\ auth'.stop[a] = "starting" /\ auth'.token[a] = p
      /\ \A b \in Attempts \ {a} : auth'.stop[b] = auth.stop[b] /\ auth'.token[b] = auth.token[b]
      /\ auth'.launch = auth.launch /\ auth'.fence = auth.fence /\ auth'.capture = auth.capture
      /\ auth'.gc = auth.gc
      /\ auth'.collected = auth.collected /\ auth'.pointer = auth.pointer
  BY <1>1 DEF AuthRecords, StopPhases
<1>3. AuthorityInv' BY <1>1, <1>2 DEF AuthorityInv, ActivePhases, Gone
<1>4. ASSUME NEW b \in Attempts PROVE AuthMovesAt(b)
  <2>1. CASE b = a
    BY <2>1, <1>1, <1>2 DEF AuthMovesAt, Standing, Core, SupervisorInv, BegunInv, OverInv,
       OverAt, Gone, Ended, AuthorityInv
  <2>2. CASE b # a BY <2>2, <1>2, AttemptStays
  <2> QED BY <2>1, <2>2
<1> QED BY <1>2, <1>3, <1>4 DEF AuthMoves

LEMMA StopUncertain ==
    ASSUME Standing, NEW a \in Attempts, auth.stop[a] = "starting",
           auth' = [auth EXCEPT !.stop[a] = "uncertain"]
    PROVE  AuthMoves
<1>1. AuthorityInv /\ auth \in AuthRecords BY DEF Standing, Core, LauncherTypes
<1>2. /\ auth' \in AuthRecords
      /\ auth'.stop[a] = "uncertain"
      /\ \A b \in Attempts \ {a} : auth'.stop[b] = auth.stop[b]
      /\ auth'.launch = auth.launch /\ auth'.fence = auth.fence /\ auth'.capture = auth.capture
      /\ auth'.token = auth.token /\ auth'.gc = auth.gc
      /\ auth'.collected = auth.collected /\ auth'.pointer = auth.pointer
  BY <1>1 DEF AuthRecords, StopPhases
<1>3. AuthorityInv' BY <1>1, <1>2 DEF AuthorityInv, ActivePhases, Gone
<1>4. ASSUME NEW b \in Attempts PROVE AuthMovesAt(b)
  <2>1. CASE b = a
    BY <2>1, <1>1, <1>2 DEF AuthMovesAt, Standing, Core, SupervisorInv, BegunInv, OverInv,
       OverAt, Gone, Ended, AuthorityInv
  <2>2. CASE b # a BY <2>2, <1>2, AttemptStays
  <2> QED BY <2>1, <2>2
<1> QED BY <1>2, <1>3, <1>4 DEF AuthMoves

(* A stop is final once its writer is down.                                *)
LEMMA StopEnds ==
    ASSUME Standing, NEW a \in Attempts, auth.stop[a] \in {"starting", "uncertain"},
           StoppedDown(a), NEW handoff \in BOOLEAN, auth' = StopFinal(a, handoff),
           \A q \in Procs : call[q].a = a => call[q].pc \notin Dispatched
    PROVE  AuthMoves /\ auth'.stop[a] = "stopped" /\ auth'.token = auth.token
<1>1. AuthorityInv /\ auth \in AuthRecords BY DEF Standing, Core, LauncherTypes
<1>2. /\ auth' \in AuthRecords
      /\ auth'.stop[a] = "stopped" /\ auth'.pointer = "none" /\ auth'.gc = auth.gc \cup {a}
      /\ \A b \in Attempts \ {a} : auth'.stop[b] = auth.stop[b] /\ auth'.capture[b] = auth.capture[b]
      /\ auth'.launch = auth.launch /\ auth'.fence = auth.fence
      /\ auth'.token = auth.token /\ auth'.collected = auth.collected
  BY <1>1 DEF StopFinal, AuthRecords, StopPhases, CapturePhases
<1>3. auth.pointer = a /\ auth.pointer # "none" /\ a \notin auth.collected /\ a \notin auth.gc
  BY <1>1, AttemptsAssumption DEF AuthorityInv, ActivePhases, StoppedDown, Gone
<1>4. AuthorityInv' BY <1>1, <1>2, <1>3 DEF AuthorityInv, ActivePhases, Gone
<1>5. ASSUME NEW b \in Attempts PROVE AuthMovesAt(b)
  <2>1. CASE b = a
    BY <2>1, <1>1, <1>2 DEF AuthMovesAt, Standing, Core, SupervisorInv, BegunInv, OverInv,
       OverAt, Gone, Ended, AuthorityInv
  <2>2. CASE b # a BY <2>2, <1>2, AttemptStays
  <2> QED BY <2>1, <2>2
<1> QED BY <1>2, <1>4, <1>5 DEF AuthMoves

LEMMA FenceMoves ==
    ASSUME Standing, NEW a \in Attempts, NEW phase \in {"prepared", "starting", "uncertain", "blocked"},
           auth.fence[a] \in ActivePhases \/ (auth.fence[a] = "absent" /\ ~Active /\ auth.pointer = a),
           auth.fence[a] \in {"starting", "uncertain"} => phase # "prepared",
           auth' = [auth EXCEPT !.fence[a] = phase]
    PROVE  AuthMoves /\ auth'.fence[a] = phase
<1>1. AuthorityInv /\ auth \in AuthRecords BY DEF Standing, Core, LauncherTypes
<1>2. /\ auth' \in AuthRecords
      /\ auth'.fence[a] = phase
      /\ \A b \in Attempts \ {a} : auth'.fence[b] = auth.fence[b]
      /\ auth'.launch = auth.launch /\ auth'.stop = auth.stop /\ auth'.capture = auth.capture
      /\ auth'.token = auth.token /\ auth'.gc = auth.gc
      /\ auth'.collected = auth.collected /\ auth'.pointer = auth.pointer
  BY <1>1 DEF AuthRecords, FencePhases
<1>3. auth.pointer = a /\ a # "none" /\ auth.stop[a] = "absent"
  <2>1. auth.stop[a] \in StopPhases BY <1>1 DEF AuthRecords
  <2>2. auth.pointer = a BY <1>1 DEF AuthorityInv
  <2> QED BY <1>1, <2>1, <2>2, AttemptsAssumption DEF AuthorityInv, Active, StopPhases, ActivePhases
<1>4. AuthorityInv' BY <1>1, <1>2, <1>3 DEF AuthorityInv, ActivePhases, Gone
<1>5. ASSUME NEW b \in Attempts PROVE AuthMovesAt(b)
  <2>1. CASE b = a
    BY <2>1, <1>1, <1>2 DEF AuthMovesAt, Standing, Core, SupervisorInv, BegunInv, OverInv,
       OverAt, Gone, Ended, AuthorityInv, ActivePhases
  <2>2. CASE b # a BY <2>2, <1>2, AttemptStays
  <2> QED BY <2>1, <2>2
<1> QED BY <1>2, <1>4, <1>5 DEF AuthMoves

(* A fence is final once the writer is down.                               *)
LEMMA FenceEnds ==
    ASSUME Standing, NEW a \in Attempts, auth.fence[a] \in {"starting", "uncertain"},
           StoppedDown(a), auth' = FenceFinal(a)
    PROVE  AuthMoves
<1>1. AuthorityInv /\ auth \in AuthRecords BY DEF Standing, Core, LauncherTypes
<1>2. /\ auth' \in AuthRecords
      /\ auth'.fence[a] = "fenced" /\ auth'.pointer = "none" /\ auth'.gc = auth.gc
      /\ \A b \in Attempts \ {a} : auth'.fence[b] = auth.fence[b] /\ auth'.capture[b] = auth.capture[b]
      /\ auth'.launch = auth.launch /\ auth'.stop = auth.stop
      /\ auth'.token = auth.token /\ auth'.collected = auth.collected
  BY <1>1 DEF FenceFinal, AuthRecords, FencePhases, CapturePhases
<1>3. auth.pointer = a /\ auth.pointer # "none" /\ auth.stop[a] = "absent"
  BY <1>1, AttemptsAssumption DEF AuthorityInv, ActivePhases
<1>4. AuthorityInv' BY <1>1, <1>2, <1>3 DEF AuthorityInv, ActivePhases, Gone
<1>5. ASSUME NEW b \in Attempts PROVE AuthMovesAt(b)
  <2>1. CASE b = a
    BY <2>1, <1>1, <1>2 DEF AuthMovesAt, Standing, Core, SupervisorInv, BegunInv, OverInv,
       OverAt, Gone, Ended, AuthorityInv, ActivePhases
  <2>2. CASE b # a BY <2>2, <1>2, AttemptStays
  <2> QED BY <2>1, <2>2
<1> QED BY <1>2, <1>4, <1>5 DEF AuthMoves

(* A capture is taken when nothing else is active.                         *)
LEMMA CaptureMoves ==
    ASSUME Standing, NEW a \in Attempts, NEW phase \in {"starting", "captured"},
           auth.capture[a] \in ActivePhases \/ (Idle /\ auth.capture[a] = "absent"),
           auth' = [auth EXCEPT !.capture[a] = phase]
    PROVE  AuthMoves
<1>1. AuthorityInv /\ auth \in AuthRecords BY DEF Standing, Core, LauncherTypes
<1>2. /\ auth' \in AuthRecords
      /\ auth'.capture[a] = phase
      /\ \A b \in Attempts \ {a} : auth'.capture[b] = auth.capture[b]
      /\ auth'.launch = auth.launch /\ auth'.stop = auth.stop /\ auth'.fence = auth.fence
      /\ auth'.token = auth.token /\ auth'.gc = auth.gc
      /\ auth'.collected = auth.collected /\ auth'.pointer = auth.pointer
  BY <1>1 DEF AuthRecords, CapturePhases
<1>3. auth.pointer = "none" /\ \A b \in Attempts : auth.launch[b] \notin ActivePhases
  BY <1>1 DEF AuthorityInv, Idle, Active
<1>4. AuthorityInv' BY <1>1, <1>2, <1>3 DEF AuthorityInv, ActivePhases, Gone
<1>5. \A b \in Attempts : AuthMovesAt(b) BY <1>2, AttemptStays
<1> QED BY <1>2, <1>4, <1>5 DEF AuthMoves

LEMMA CollectionCompletes ==
    ASSUME Standing, NEW a \in Attempts, a \in auth.gc, Chain(a) = {}, ~files[a][Stopped].kept,
           auth' = [auth EXCEPT !.gc = @ \ {a}, !.collected = @ \cup {a}]
    PROVE  AuthMoves
<1>1. AuthorityInv /\ auth \in AuthRecords /\ FilesAt(a)
  BY DEF Standing, Core, LauncherTypes, SupervisorInv, FilesInv
<1>2. /\ auth' \in AuthRecords
      /\ auth'.gc = auth.gc \ {a} /\ auth'.collected = auth.collected \cup {a}
      /\ auth'.launch = auth.launch /\ auth'.stop = auth.stop /\ auth'.fence = auth.fence
      /\ auth'.token = auth.token /\ auth'.capture = auth.capture
      /\ auth'.pointer = auth.pointer
  BY <1>1 DEF AuthRecords
<1>3. \A r \in Revisions : ~files[a][r].live /\ ~files[a][r].kept
  BY <1>1, RevisionNumbers DEF FilesAt, Chain, Has
<1>4. AuthorityInv' BY <1>1, <1>2 DEF AuthorityInv, ActivePhases, Gone
<1>5. ASSUME NEW b \in Attempts PROVE AuthMovesAt(b)
  <2>1. CASE b = a
    BY <2>1, <1>1, <1>2, <1>3 DEF AuthMovesAt, Standing, Core, SupervisorInv, BegunInv,
       OverInv, OverAt, Gone, Ended, AuthorityInv
  <2>2. CASE b # a BY <2>2, <1>2, AttemptStays
  <2> QED BY <2>1, <2>2
<1> QED BY <1>2, <1>4, <1>5 DEF AuthMoves

-----------------------------------------------------------------------------
(* How a call moves, and what the calls of the others then still know.     *)
CallPcs == LaunchPcs \cup StopPcs \cup FencePcs \cup {"idle"}
Asking == {"launching", "reconciling", "stopping", "fencing"}
Knowing == {"finalize", "sdispatch", "sfinalize", "sreadback", "ffinalize"}
PlainPcs == CallPcs \ (Asking \cup Knowing \cup {"idle"})

CallMoves(p) ==
    /\ call' \in [Procs -> CallRecords]
    /\ guard' \in [Locks -> [Attempts -> Procs \cup {"none"}]]
    /\ \A q \in Procs \ {p} : call'[q] = call[q] /\ (call[q].pc # "idle" /\ Held(q) => Held(q)')
    /\ HoldAt(p)'

HandleMoves(p) ==
    /\ handle' \in [Procs -> HandleRecords]
    /\ \A q \in Procs \ {p} : handle'[q] = handle[q]

CallKnows(c, q, a) ==
    /\ c.gc => c.pc \in {"finalize", "readback", "mark"}
    /\ c.pc \in {"launching", "reconciling", "finalize"} => c.seen \in {"starting", "uncertain"}
    /\ c.pc = "finalize" =>
          /\ c.ev # "none"
          /\ c.gc => auth'.launch[a] = "started"
          /\ c.ev = "started" => Ran(a)' /\ ~c.gc
          /\ c.ev # "started" /\ ~c.gc /\ ~exposed' => Dead(a)'
    /\ c.pc \in Dispatched \cup {"sfinalize", "sreadback"} =>
          auth'.token[a] = q /\ auth'.stop[a] \notin {"absent", "prepared"}
    /\ c.pc \in Dispatched => auth'.stop[a] # "stopped"
    /\ c.pc \in {"sfinalize", "sreadback"} => auth'.stop[a] = "stopped" \/ StoppedDown(a)'
    /\ c.pc = "sfinalize" => c.seen \in {"starting", "uncertain"}
    /\ c.pc \in {"fencing", "ffinalize"} => auth'.fence[a] \notin {"absent", "prepared"}
    /\ c.pc = "ffinalize" => StoppedDown(a)'

LEMMA PlainCall ==
    ASSUME NEW p \in Procs, call'[p].pc \in PlainPcs \cup {"idle"},
           call'[p].gc => call'[p].pc \in {"readback", "mark"}
    PROVE  CallAt(p)'
  BY DEF PlainPcs, CallPcs, Asking, Knowing, CallAt, Dispatched

(* A call that does not move knows no less.                                *)
LEMMA StillKnows ==
    ASSUME Standing, NEW q \in Procs, Stays, AuthMoves, AuthorityInv',
           call'[q] = call[q], UNCHANGED exposed
    PROVE  CallAt(q)'
<1>1. CallAt(q) /\ HoldAt(q) BY DEF Standing, Core, CallsHold, CallInv
<1>5. ASSUME call[q].pc = "idle" PROVE CallAt(q)'
  <2>1. ~call[q].gc BY <1>1, <1>5 DEF CallAt
  <2>2. call'[q].pc = "idle" /\ ~call'[q].gc /\ q \in Procs BY <1>5, <2>1
  <2> QED BY ONLY <2>2, PlainCall
<1>6. ASSUME call[q].pc # "idle" PROVE CallAt(q)'
  <2>1. PICK a \in Attempts : a = call[q].a /\ a = call'[q].a BY <1>1, <1>6 DEF HoldAt
  <2>2. AuthMovesAt(a) /\ auth' \in AuthRecords BY DEF AuthMoves
  <2>3. Gone(a)' => auth'.stop[a] = "stopped" /\ auth'.fence[a] = "absent"
    BY DEF AuthorityInv
  <2>4. /\ Ran(a) => Ran(a)'
        /\ Dead(a) => Dead(a)'
        /\ StoppedDown(a) /\ ~Gone(a)' => StoppedDown(a)'
    BY DEF Stays
  <2>5. /\ call[q].gc => call[q].pc \in {"finalize", "readback", "mark"}
        /\ call[q].pc \in {"launching", "reconciling", "finalize"} =>
              call[q].seen \in {"starting", "uncertain"}
        /\ call[q].pc = "finalize" =>
              /\ call[q].ev # "none"
              /\ call[q].gc => auth'.launch[a] = "started"
              /\ call[q].ev = "started" => Ran(a)' /\ ~call[q].gc
              /\ call[q].ev # "started" /\ ~call[q].gc /\ ~exposed => Dead(a)'
    BY <1>1, <2>1, <2>2, <2>4 DEF CallAt, AuthMovesAt
  <2>6. /\ call[q].pc \in Dispatched \cup {"sfinalize", "sreadback"} =>
              auth'.token[a] = q /\ auth'.stop[a] \notin {"absent", "prepared"}
        /\ call[q].pc \in Dispatched => auth'.stop[a] # "stopped"
        /\ call[q].pc \in {"sfinalize", "sreadback"} => auth'.stop[a] = "stopped" \/ StoppedDown(a)'
        /\ call[q].pc = "sfinalize" => call[q].seen \in {"starting", "uncertain"}
    BY <1>1, <2>1, <2>2, <2>3, <2>4 DEF CallAt, AuthMovesAt
  <2>7. /\ call[q].pc \in {"fencing", "ffinalize"} => auth'.fence[a] \notin {"absent", "prepared"}
        /\ call[q].pc = "ffinalize" => StoppedDown(a)'
    BY <1>1, <2>1, <2>2, <2>3, <2>4 DEF CallAt, AuthMovesAt
  <2>8. CallKnows(call[q], q, a) BY <2>5, <2>6, <2>7 DEF CallKnows
  <2>9. CallKnows(call'[q], q, a) /\ a = call'[q].a BY <2>1, <2>8
  <2> QED BY ONLY <2>9 DEF CallKnows, CallAt
<1> QED BY <1>5, <1>6

LEMMA MovesGoOn ==
    ASSUME Standing, NEW p \in Procs, Outside, AuthMoves, RunMoves(p), CallMoves(p), HandleMoves(p),
           RunFor(p)', CallAt(p)', HandleAt(p)'
    PROVE  Standing'
<1>1. SupervisorTypes' /\ SupervisorInv' /\ OverInv' /\ Stays BY MovesKeep, MovesStay
<1>2. AuthorityInv' /\ LauncherTypes'
  BY DEF AuthMoves, CallMoves, HandleMoves, LauncherTypes, Outside, Standing, Core
<1>3. ASSUME NEW q \in Procs \ {p} PROVE HoldAt(q)' /\ RunFor(q)' /\ CallAt(q)' /\ HandleAt(q)'
  <2>1. call'[q] = call[q] /\ run'[q] = run[q] /\ handle'[q] = handle[q]
        /\ (call[q].pc # "idle" /\ Held(q) => Held(q)')
        /\ exposed' = exposed
    BY DEF CallMoves, RunMoves, HandleMoves, Outside
  <2>2. HoldAt(q) /\ RunFor(q) /\ CallAt(q) /\ HandleAt(q)
    BY DEF Standing, Core, CallsHold, RunsForCall, CallInv, HandleInv
  <2>3. HoldAt(q)' /\ RunFor(q)' BY <2>1, <2>2 DEF HoldAt, RunFor
  <2>4. HandleAt(q)' BY <2>1, <2>2, <1>1 DEF HandleAt, Stays
  <2>5. CallAt(q)' BY <1>1, <1>2, <2>1, StillKnows
  <2> QED BY <2>3, <2>4, <2>5
<1>4. ASSUME NEW q \in Procs PROVE HoldAt(q)' /\ RunFor(q)' /\ CallAt(q)' /\ HandleAt(q)'
  BY <1>3 DEF CallMoves
<1>5. CallsHold' /\ RunsForCall' /\ CallInv' /\ HandleInv'
  BY <1>4 DEF CallsHold, RunsForCall, CallInv, HandleInv
<1> QED BY <1>1, <1>2, <1>5 DEF Standing, Core

(* The run of a call that has none, or takes its answer.                   *)
Rests(p) == (UNCHANGED run /\ call[p].pc \notin Asking) \/ Answered(p)

LEMMA RestMoves ==
    ASSUME Standing, NEW p \in Procs, Rests(p)
    PROVE  RunMoves(p) /\ run'[p].mode = "none" /\ run'[p].pc = "idle"
<1>1. run \in [Procs -> RunRecords] /\ RunFor(p) /\ call[p].pc \in CallPcs
  BY DEF Standing, Core, SupervisorTypes, RunsForCall, LauncherTypes, CallRecords, CallPcs
<1>2. NoRun \in RunRecords
  BY RevisionNumbers DEF NoRun, RunRecords, RunPcs, Modes, Bys, Results
<1>3. CASE UNCHANGED run /\ call[p].pc \notin Asking
  <2>1. ModesOf(call[p].pc) = {"none"} BY <1>3 DEF ModesOf, Asking
  <2> QED BY <1>1, <1>3, <2>1 DEF RunFor, RunMoves
<1>4. CASE Answered(p) BY <1>1, <1>2, <1>4 DEF Answered, RunMoves, NoRun
<1> QED BY <1>3, <1>4 DEF Rests

LEMMA RestFor ==
    ASSUME NEW p \in Procs, run'[p].mode = "none", run'[p].pc = "idle", call'[p].pc \notin Asking
    PROVE  RunFor(p)'
  BY DEF RunFor, ModesOf, Asking

(* A call that goes on keeps its lock.                                     *)
LEMMA Advances ==
    ASSUME Standing, NEW p \in Procs, call[p].pc # "idle", UNCHANGED <<guard, exposed>>,
           call' \in [Procs -> CallRecords], \A q \in Procs \ {p} : call'[q] = call[q],
           call'[p].lock = call[p].lock, call'[p].a = call[p].a,
           call'[p].pc \in LaunchPcs => call[p].pc \in LaunchPcs
    PROVE  CallMoves(p) /\ call[p].a \in Attempts /\ (~exposed => Held(p))
<1>1. HoldAt(p) BY DEF Standing, Core, CallsHold
<1> QED BY <1>1 DEF CallMoves, HoldAt, Held, Standing, Core, LauncherTypes

LEMMA GoMoves ==
    ASSUME Standing, NEW p \in Procs, call[p].pc # "idle", UNCHANGED exposed,
           NEW pc \in CallPcs \ {"idle"}, Go(p, pc), pc \in LaunchPcs => call[p].pc \in LaunchPcs
    PROVE  /\ CallMoves(p)
           /\ call'[p].pc = pc /\ call'[p].a = call[p].a /\ (call'[p].gc <=> call[p].gc)
           /\ call'[p].seen = call[p].seen /\ call'[p].ev = call[p].ev
<1>1. call \in [Procs -> CallRecords] /\ call[p] \in CallRecords
  BY DEF Standing, Core, LauncherTypes
<1>2. /\ call' \in [Procs -> CallRecords] /\ UNCHANGED guard
      /\ call'[p].pc = pc /\ call'[p].a = call[p].a /\ call'[p].gc = call[p].gc
      /\ call'[p].seen = call[p].seen /\ call'[p].ev = call[p].ev /\ call'[p].lock = call[p].lock
      /\ \A q \in Procs \ {p} : call'[q] = call[q]
  BY <1>1 DEF Go, CallRecords, CallPcs
<1> QED BY <1>2, Advances

LEMMA SeenMoves ==
    ASSUME Standing, NEW p \in Procs, call[p].pc # "idle", UNCHANGED exposed,
           NEW pc \in CallPcs \ {"idle"}, NEW phase \in LaunchPhases \cup StopPhases,
           Seen(p, pc, phase), pc \in LaunchPcs => call[p].pc \in LaunchPcs
    PROVE  /\ CallMoves(p)
           /\ call'[p].pc = pc /\ call'[p].a = call[p].a /\ (call'[p].gc <=> call[p].gc)
           /\ call'[p].seen = phase /\ call'[p].ev = call[p].ev
<1>1. call \in [Procs -> CallRecords] /\ call[p] \in CallRecords
  BY DEF Standing, Core, LauncherTypes
<1>2. /\ call' \in [Procs -> CallRecords] /\ UNCHANGED guard
      /\ call'[p].pc = pc /\ call'[p].a = call[p].a /\ call'[p].gc = call[p].gc
      /\ call'[p].seen = phase /\ call'[p].ev = call[p].ev /\ call'[p].lock = call[p].lock
      /\ \A q \in Procs \ {p} : call'[q] = call[q]
  BY ZenonT(60), <1>1 DEF Seen, CallRecords, CallPcs
<1> QED BY <1>2, Advances

LEMMA FinalizingMoves ==
    ASSUME Standing, NEW p \in Procs, call[p].pc \in LaunchPcs, UNCHANGED exposed,
           NEW ev \in Evidence, NEW gc \in BOOLEAN, Finalizing(p, ev, gc)
    PROVE  /\ CallMoves(p)
           /\ call'[p].pc = "finalize" /\ call'[p].a = call[p].a /\ (call'[p].gc <=> gc)
           /\ call'[p].seen = call[p].seen /\ call'[p].ev = ev
<1>1. call \in [Procs -> CallRecords] /\ call[p] \in CallRecords /\ call[p].pc # "idle"
  BY DEF Standing, Core, LauncherTypes, LaunchPcs
<1>2. /\ call' \in [Procs -> CallRecords] /\ UNCHANGED guard
      /\ call'[p].pc = "finalize" /\ call'[p].a = call[p].a /\ call'[p].gc = gc
      /\ call'[p].seen = call[p].seen /\ call'[p].ev = ev /\ call'[p].lock = call[p].lock
      /\ \A q \in Procs \ {p} : call'[q] = call[q]
  BY <1>1 DEF Finalizing, CallRecords, LaunchPcs
<1> QED BY <1>1, <1>2, Advances

LEMMA LeaveMoves ==
    ASSUME Standing, NEW p \in Procs, call[p].pc # "idle", UNCHANGED exposed, Leave(p)
    PROVE  CallMoves(p) /\ call'[p].pc = "idle" /\ ~call'[p].gc
<1>1. /\ call \in [Procs -> CallRecords] /\ call[p] \in CallRecords
      /\ guard \in [Locks -> [Attempts -> Procs \cup {"none"}]]
      /\ call[p].a \in Attempts
  BY DEF Standing, Core, LauncherTypes, CallsHold, HoldAt
<1>2. NoCall \in CallRecords BY DEF NoCall, CallRecords, Locks, Evidence
<1>3. call' \in [Procs -> CallRecords] /\ call'[p] = NoCall /\ \A q \in Procs \ {p} : call'[q] = call[q]
  BY <1>1, <1>2 DEF Leave
<1>4. call[p].lock \in Locks BY <1>1 DEF CallRecords
<1>5. /\ guard' \in [Locks -> [Attempts -> Procs \cup {"none"}]]
      /\ \A l \in Locks, a \in Attempts, q \in Procs \ {p} : guard[l][a] = q => guard'[l][a] = q
  <2>1. CASE Held(p)
    <3>1. guard' = [guard EXCEPT ![call[p].lock][call[p].a] = "none"] BY <2>1 DEF Leave
    <3>2. guard[call[p].lock][call[p].a] = p BY <2>1 DEF Held
    <3> QED BY <1>1, <1>4, <3>1, <3>2
  <2>2. CASE ~Held(p) BY <1>1, <2>2 DEF Leave
  <2> QED BY <2>1, <2>2
<1>6. ASSUME NEW q \in Procs \ {p}, call[q].pc # "idle", Held(q) PROVE Held(q)'
  <2>1. call[q].lock \in Locks /\ call[q].a \in Attempts
    BY <1>1, <1>6 DEF CallRecords, Standing, Core, CallsHold, HoldAt
  <2> QED BY <1>3, <1>5, <1>6, <2>1 DEF Held
<1> QED BY <1>3, <1>5, <1>6 DEF CallMoves, HoldAt, NoCall, LaunchPcs

(* A call that goes on, or returns, with nothing to remember.              *)
PlainLaunch == {"reserve", "pread", "claim", "mark", "ambiguous", "readback", "read", "cancel",
                "premark"}
PlainOther == {"sread", "sreserve", "sclaim", "sphase", "smark", "sconfirm", "freserve", "fread",
               "fclaim", "fblock"}

Plainly(p) ==
    /\ CallMoves(p)
    /\ \/ call'[p].pc = "idle" /\ ~call'[p].gc
       \/ /\ call'[p].pc \in PlainPcs /\ (call'[p].gc <=> call[p].gc)
          /\ call[p].gc => call'[p].pc \in {"readback", "mark"}

HandleFine(p) ==
    \/ UNCHANGED handle
    \/ \E h \in HandleRecords :
          /\ handle' = [handle EXCEPT ![p] = h]
          /\ h.state = "provisional" => h.a = handle[p].a /\ handle[p].state = "provisional"

LEMMA FineMoves ==
    ASSUME Standing, NEW p \in Procs, HandleFine(p), Stays
    PROVE  HandleMoves(p) /\ HandleAt(p)'
<1>1. HandleAt(p) /\ handle \in [Procs -> HandleRecords]
  BY DEF Standing, Core, HandleInv, LauncherTypes
<1>2. CASE UNCHANGED handle BY <1>1, <1>2 DEF HandleMoves, HandleAt, Stays
<1>3. ASSUME NEW h \in HandleRecords, handle' = [handle EXCEPT ![p] = h],
             h.state = "provisional" => h.a = handle[p].a /\ handle[p].state = "provisional"
      PROVE  HandleMoves(p) /\ HandleAt(p)'
  <2>1. handle'[p] = h BY <1>1, <1>3
  <2> QED BY <1>1, <1>3, <2>1 DEF HandleMoves, HandleAt, Stays
<1> QED BY <1>2, <1>3 DEF HandleFine

LEMMA PlainlyKeeps ==
    ASSUME Standing, NEW p \in Procs, Outside, AuthMoves, HandleFine(p), Rests(p), Plainly(p)
    PROVE  Standing'
<1>1. RunMoves(p) /\ run'[p].mode = "none" /\ run'[p].pc = "idle" BY RestMoves
<1>2. HandleMoves(p) /\ HandleAt(p)' BY <1>1, MovesStay, FineMoves
<1>3. call'[p].pc \in PlainPcs \cup {"idle"} /\ (call'[p].gc => call'[p].pc \in {"readback", "mark"})
  BY DEF Plainly
<1>4. RunFor(p)' /\ CallAt(p)' BY <1>1, <1>3, RestFor, PlainCall DEF PlainPcs, Asking
<1> QED BY <1>1, <1>2, <1>4, MovesGoOn DEF Plainly

LEMMA NotCollecting ==
    ASSUME Standing, NEW p \in Procs, call[p].pc \notin {"finalize", "readback", "mark"}
    PROVE  ~call[p].gc
  BY DEF Standing, CallInv, CallAt

LEMMA PlainNames ==
    /\ PlainLaunch \cup PlainOther \subseteq PlainPcs
    /\ PlainPcs \subseteq CallPcs \ {"idle"}
    /\ PlainOther \cap LaunchPcs = {}
    /\ "idle" \notin LaunchPcs \cup StopPcs \cup FencePcs
  BY DEF PlainLaunch, PlainOther, PlainPcs, CallPcs, LaunchPcs, StopPcs, FencePcs, Asking,
     Knowing

LEMMA GoPlain ==
    ASSUME Standing, NEW p \in Procs, UNCHANGED exposed, NEW pc \in PlainLaunch, Go(p, pc),
           call[p].pc \in LaunchPcs,
           call[p].pc \in {"finalize", "readback", "mark"} => pc \in {"readback", "mark"}
    PROVE  Plainly(p)
<1>1. CallMoves(p) /\ call'[p].pc = pc /\ (call'[p].gc <=> call[p].gc)
  BY PlainNames, GoMoves
<1> QED BY <1>1, PlainNames, NotCollecting DEF Plainly

LEMMA GoOther ==
    ASSUME Standing, NEW p \in Procs, UNCHANGED exposed, NEW pc \in PlainOther, Go(p, pc),
           call[p].pc \in StopPcs \cup FencePcs
    PROVE  Plainly(p)
<1>1. CallMoves(p) /\ call'[p].pc = pc /\ (call'[p].gc <=> call[p].gc)
  BY PlainNames, GoMoves
<1>2. ~call[p].gc BY NotCollecting DEF StopPcs, FencePcs
<1> QED BY <1>1, <1>2, PlainNames DEF Plainly

LEMMA LeavePlain ==
    ASSUME Standing, NEW p \in Procs, UNCHANGED exposed, Leave(p), call[p].pc # "idle"
    PROVE  Plainly(p)
  BY LeaveMoves DEF Plainly

LEMMA SeenPlain ==
    ASSUME Standing, NEW p \in Procs, UNCHANGED exposed, NEW pc \in PlainLaunch,
           NEW phase \in LaunchPhases, Seen(p, pc, phase),
           call[p].pc \in LaunchPcs \ {"finalize", "readback", "mark"}
    PROVE  Plainly(p)
<1>1. CallMoves(p) /\ call'[p].pc = pc /\ (call'[p].gc <=> call[p].gc)
  BY PlainNames, SeenMoves
<1> QED BY <1>1, PlainNames, NotCollecting DEF Plainly

(* A call that counts its attempts.                                        *)
LEMMA CountMoves ==
    ASSUME Standing, NEW p \in Procs, UNCHANGED <<guard, exposed>>, NEW pc \in StopPcs \cup FencePcs,
           NEW tries \in Nat, call' = [call EXCEPT ![p].pc = pc, ![p].tries = tries],
           call[p].pc \in StopPcs \cup FencePcs
    PROVE  /\ CallMoves(p) /\ call'[p].pc = pc /\ (call'[p].gc <=> call[p].gc)
           /\ call'[p].a = call[p].a /\ call'[p].seen = call[p].seen
<1>1. call \in [Procs -> CallRecords] /\ call[p] \in CallRecords
  BY DEF Standing, Core, LauncherTypes
<1>2. /\ call' \in [Procs -> CallRecords] /\ UNCHANGED guard
      /\ call'[p].pc = pc /\ call'[p].a = call[p].a /\ call'[p].gc = call[p].gc
      /\ call'[p].seen = call[p].seen /\ call'[p].ev = call[p].ev /\ call'[p].lock = call[p].lock
      /\ \A q \in Procs \ {p} : call'[q] = call[q]
  BY <1>1 DEF CallRecords
<1>3. pc \notin LaunchPcs /\ call[p].pc # "idle" BY DEF LaunchPcs, StopPcs, FencePcs
<1> QED BY <1>2, <1>3, Advances

LEMMA CountPlain ==
    ASSUME Standing, NEW p \in Procs, UNCHANGED <<guard, exposed>>, NEW pc \in PlainOther,
           NEW tries \in Nat, call' = [call EXCEPT ![p].pc = pc, ![p].tries = tries],
           call[p].pc \in StopPcs \cup FencePcs
    PROVE  Plainly(p)
<1>1. pc \in StopPcs \cup FencePcs BY DEF PlainOther, StopPcs, FencePcs
<1>2. CallMoves(p) /\ call'[p].pc = pc /\ (call'[p].gc <=> call[p].gc) BY <1>1, CountMoves
<1>3. ~call[p].gc BY NotCollecting DEF StopPcs, FencePcs
<1> QED BY <1>2, <1>3, PlainNames DEF Plainly

LEMMA RetryPlain ==
    ASSUME Standing, NEW p \in Procs, UNCHANGED exposed, NEW pc \in PlainOther, Retry(p, pc),
           call[p].pc \in StopPcs \cup FencePcs
    PROVE  Plainly(p) /\ UNCHANGED run
<1>1. call[p].tries + 1 \in Nat BY DEF Standing, Core, LauncherTypes, CallRecords
<1>2. CASE call' = [call EXCEPT ![p].pc = pc, ![p].tries = @ + 1] /\ UNCHANGED guard
  <2>1. call' = [call EXCEPT ![p].pc = pc, ![p].tries = call[p].tries + 1]
    BY <1>2 DEF Standing, Core, LauncherTypes
  <2> QED BY <1>1, <1>2, <2>1, CountPlain DEF Retry
<1>3. CASE Leave(p) BY <1>3, LeavePlain, PlainNames DEF Retry
<1> QED BY <1>2, <1>3 DEF Retry

-----------------------------------------------------------------------------
(* The launch.                                                             *)
LEMMA CallIsFor ==
    ASSUME Standing, NEW p \in Procs, call[p].pc # "idle"
    PROVE  call[p].a \in Attempts
  BY DEF Standing, Core, CallsHold, HoldAt

LEMMA ReserveKeeps ==
    ASSUME Standing, NEW p \in Procs, Reserve(p)
    PROVE  Standing'
<1>1. call[p].pc = "reserve" /\ Outside /\ UNCHANGED <<run, handle>>
  BY DEF Reserve, In, Outside, supervisorVars
<1>2. PICK a \in Attempts : a = call[p].a BY <1>1, CallIsFor
<1>3. \/ UNCHANGED auth
      \/ CanReserveLaunch(a) /\ auth' = LaunchReserved(a)
  BY <1>2 DEF Reserve, Ask
<1>4. AuthMoves
  <2>1. CASE CanReserveLaunch(a) /\ auth' = LaunchReserved(a)
    BY <2>1, LaunchSet, LaunchReserves DEF LaunchReserved, LaunchPhases, Standing, Core
  <2> QED BY <1>3, <2>1, AuthStays
<1>5. Go(p, "claim") \/ Go(p, "read") \/ Leave(p) BY DEF Reserve, Ask
<1>6. Plainly(p) BY <1>1, <1>5, GoPlain, LeavePlain DEF PlainLaunch, LaunchPcs, Outside
<1> QED BY <1>1, <1>4, <1>6, PlainlyKeeps DEF Rests, Asking, HandleFine

LEMMA ReadPreparedKeeps ==
    ASSUME Standing, NEW p \in Procs, ReadPrepared(p)
    PROVE  Standing'
<1>1. call[p].pc = "pread" /\ Outside /\ UNCHANGED <<run, handle, auth>>
  BY DEF ReadPrepared, In, Outside, supervisorVars
<1>5. Go(p, "claim") \/ Go(p, "read") \/ Leave(p) BY DEF ReadPrepared, Probe
<1>6. Plainly(p) BY <1>1, <1>5, GoPlain, LeavePlain DEF PlainLaunch, LaunchPcs, Outside
<1> QED BY <1>1, <1>6, AuthStays, PlainlyKeeps DEF Rests, Asking, HandleFine

(* A call of the supervisor.                                               *)
LEMMA RequestIs ==
    ASSUME Standing, NEW p \in Procs, NEW a \in Attempts, NEW mode \in Modes \ {"none"}, NEW by \in Bys,
           Request(p, a, mode, by)
    PROVE  /\ run' \in [Procs -> RunRecords]
           /\ \A q \in Procs \ {p} : run'[q] = run[q]
           /\ run'[p].pc = "read" /\ run'[p].mode = mode /\ run'[p].a = a
<1>1. run \in [Procs -> RunRecords] BY DEF Standing, Core, SupervisorTypes
<1>2. [NoRun EXCEPT !.pc = "read", !.a = a, !.mode = mode, !.by = by] \in RunRecords
  BY RevisionNumbers DEF NoRun, RunRecords, RunPcs, Bys, Results
<1>3. run'[p] = [NoRun EXCEPT !.pc = "read", !.a = a, !.mode = mode, !.by = by]
  BY <1>1 DEF Request
<1> QED BY <1>1, <1>2, <1>3 DEF Request, NoRun

LEMMA ClaimKeeps ==
    ASSUME Standing, NEW p \in Procs, Claim(p)
    PROVE  Standing'
<1>1. call[p].pc = "claim" /\ Outside /\ UNCHANGED handle BY DEF Claim, In, Outside
<1>2. PICK a \in Attempts : a = call[p].a BY <1>1, CallIsFor
<1>3. \/ UNCHANGED auth
      \/ auth.launch[a] = "prepared" /\ auth' = LaunchClaimed(a)
  BY <1>2 DEF Claim, Ask
<1>4. AuthMoves
  <2>1. CASE auth.launch[a] = "prepared" /\ auth' = LaunchClaimed(a)
    BY <2>1, LaunchGoesOn DEF LaunchClaimed, ActivePhases
  <2> QED BY <1>3, <2>1, AuthStays
<1>5. \/ /\ Claimed(p, "launching") /\ Request(p, a, "launch", "none")
         /\ auth.launch[a] = "prepared" /\ auth' = LaunchClaimed(a)
      \/ Claimed(p, "mark") /\ UNCHANGED run
      \/ (Go(p, "ambiguous") \/ Go(p, "read") \/ Leave(p)) /\ UNCHANGED run
  BY <1>2 DEF Claim, Ask, Probe
<1>6. CASE /\ Claimed(p, "launching") /\ Request(p, a, "launch", "none")
           /\ auth.launch[a] = "prepared" /\ auth' = LaunchClaimed(a)
  <2>1. /\ run' \in [Procs -> RunRecords]
        /\ \A q \in Procs \ {p} : run'[q] = run[q]
        /\ run'[p].pc = "read" /\ run'[p].mode = "launch" /\ run'[p].a = a
    BY <1>6, RequestIs DEF Modes, Bys
  <2>2. auth'.launch[a] = "starting"
    BY <1>6, LaunchSet DEF LaunchClaimed, Standing, Core, LaunchPhases
  <2>3. RunMoves(p) BY <2>1, <2>2, <1>6 DEF RunMoves, Fresh, Modes
  <2>4. Seen(p, "launching", "starting") BY <1>6 DEF Claimed, Seen
  <2>5. /\ CallMoves(p)
        /\ call'[p].pc = "launching" /\ call'[p].a = a /\ ~call'[p].gc
        /\ call'[p].seen = "starting"
    BY <1>1, <1>2, <2>4, SeenMoves, NotCollecting DEF CallPcs, LaunchPcs, LaunchPhases,
       Outside
  <2>6. RunFor(p)' BY <2>1, <2>5 DEF RunFor, ModesOf
  <2>7. CallAt(p)' BY <2>5 DEF CallAt, Dispatched
  <2>8. HandleMoves(p) /\ HandleAt(p)'
    BY <1>1, <1>4, <2>3, MovesStay, FineMoves DEF HandleFine
  <2> QED BY <1>1, <1>4, <2>3, <2>5, <2>6, <2>7, <2>8, MovesGoOn
<1>7. CASE Claimed(p, "mark") /\ UNCHANGED run
  <2>1. Plainly(p)
    BY <1>1, <1>7, SeenPlain DEF Claimed, Seen, PlainLaunch, LaunchPcs, LaunchPhases,
       Outside
  <2> QED BY <1>1, <1>4, <1>7, <2>1, PlainlyKeeps DEF Rests, Asking, HandleFine
<1>8. CASE (Go(p, "ambiguous") \/ Go(p, "read") \/ Leave(p)) /\ UNCHANGED run
  <2>1. Plainly(p) BY <1>1, <1>8, GoPlain, LeavePlain DEF PlainLaunch, LaunchPcs, Outside
  <2> QED BY <1>1, <1>4, <1>8, <2>1, PlainlyKeeps DEF Rests, Asking, HandleFine
<1> QED BY <1>5, <1>6, <1>7, <1>8

LEMMA AmbiguousKeeps ==
    ASSUME Standing, NEW p \in Procs, Ambiguous(p)
    PROVE  Standing'
<1>1. call[p].pc = "ambiguous" /\ Outside /\ UNCHANGED <<run, handle, auth>>
  BY DEF Ambiguous, In, Outside, supervisorVars
<1>2. Go(p, "read") \/ Leave(p) BY DEF Ambiguous
<1>3. Plainly(p) BY <1>1, <1>2, GoPlain, LeavePlain DEF PlainLaunch, LaunchPcs, Outside
<1> QED BY <1>1, <1>3, AuthStays, PlainlyKeeps DEF Rests, Asking, HandleFine

(* The supervisor says that it started the container: then it has.         *)
LEMMA LaunchedRan ==
    ASSUME Standing, NEW p \in Procs, Outside, UNCHANGED auth, Answered(p),
           run[p].mode = "launch", run[p].result = "started", NEW a, a = run[p].a
    PROVE  a \in Attempts /\ Ran(a)'
<1>1. a \in Attempts /\ Begun(a) /\ LaunchAt(p) BY RunLives DEF Standing, RunAt
<1>2. starts[a] = 1 /\ Has(a, Started) /\ ~Gone(a) BY <1>1 DEF Answered, At, LaunchAt
<1>3. <<"create", a>> \notin stray /\ <<"start", a>> \notin stray
  BY <1>1, <1>2 DEF Standing, Core, SupervisorInv, StrayInv, StrayAt
<1>4. ASSUME NEW q \in Procs PROVE ~LaunchRun(q, a)'
  <2>1. run' = [run EXCEPT ![p] = NoRun] /\ run \in [Procs -> RunRecords]
    BY DEF Answered, Standing, Core, SupervisorTypes
  <2>2. LaunchRun(q, a) => q = p
    BY <1>1 DEF Standing, Core, SupervisorInv, RunInv, OneLaunch, LaunchRun
  <2> QED BY <2>1, <2>2 DEF LaunchRun, NoRun
<1> QED BY <1>1, <1>2, <1>3, <1>4 DEF Ran, Begun, Quiet, Has, Gone, Outside

LEMMA LaunchedKeeps ==
    ASSUME Standing, NEW p \in Procs, Launched(p)
    PROVE  Standing'
<1>1. call[p].pc = "launching" /\ Outside /\ Answered(p) /\ UNCHANGED auth
  BY DEF Launched, In, Outside
<1>2. PICK a \in Attempts : a = call[p].a BY <1>1, CallIsFor
<1>3. run[p].mode = "launch" /\ run[p].a = a
  BY <1>1, <1>2 DEF Standing, Core, RunsForCall, RunFor, ModesOf
<1>4. LaunchAt(p) /\ run[p].pc = "done"
  BY <1>1, <1>3, RunLives DEF Standing, RunAt, Answered, At
<1>5. run[p].result \in {"started", "failed"} BY <1>4 DEF LaunchAt
<1>6. call[p].seen \in {"starting", "uncertain"} /\ AuthMoves
  BY <1>1, AuthStays DEF Standing, CallInv, CallAt
<1>7. CASE Go(p, "mark") /\ UNCHANGED handle
  <2>1. Plainly(p) BY <1>1, <1>7, GoPlain DEF PlainLaunch, LaunchPcs, Outside
  <2> QED BY <1>1, <1>6, <1>7, <2>1, PlainlyKeeps DEF Rests, HandleFine
<1>8. CASE /\ run[p].result = "started" /\ Finalizing(p, "started", FALSE)
           /\ handle' = [handle EXCEPT ![p] = [NoHandle EXCEPT !.state = "provisional", !.a = a]]
  <2>1. Ran(a)' BY <1>1, <1>3, <1>8, LaunchedRan
  <2>2. /\ CallMoves(p)
        /\ call'[p].pc = "finalize" /\ call'[p].a = a /\ ~call'[p].gc
        /\ call'[p].seen = call[p].seen /\ call'[p].ev = "started"
    BY <1>1, <1>2, <1>8, FinalizingMoves DEF LaunchPcs, Evidence, Outside
  <2>3. RunMoves(p) /\ RunFor(p)' BY <1>1, <2>2, RestMoves, RestFor DEF Rests, Asking
  <2>4. [NoHandle EXCEPT !.state = "provisional", !.a = a] \in HandleRecords
    BY DEF NoHandle, HandleRecords, Routes
  <2>5. HandleMoves(p) /\ handle'[p].a = a
    BY <1>8, <2>4 DEF HandleMoves, Standing, Core, LauncherTypes, NoHandle
  <2>6. HandleAt(p)' BY <2>1, <2>5 DEF HandleAt
  <2>7. CallAt(p)' BY <2>1, <2>2, <1>6 DEF CallAt, Dispatched
  <2> QED BY <1>1, <1>6, <2>2, <2>3, <2>5, <2>6, <2>7, MovesGoOn
<1>9. \/ Go(p, "mark") /\ UNCHANGED handle
      \/ /\ run[p].result = "started" /\ Finalizing(p, "started", FALSE)
         /\ handle' = [handle EXCEPT ![p] = [NoHandle EXCEPT !.state = "provisional", !.a = a]]
  BY <1>2, <1>5 DEF Launched, Answer
<1> QED BY <1>7, <1>8, <1>9

LEMMA HandleSet ==
    ASSUME Standing, NEW p \in Procs, NEW h \in HandleRecords,
           handle' = [handle EXCEPT ![p] = h], h.state # "provisional"
    PROVE  HandleFine(p)
  BY DEF HandleFine

LEMMA StateSet ==
    ASSUME Standing, NEW p \in Procs, NEW state \in {"ready", "stopping", "stopped", "lost"},
           handle' = [handle EXCEPT ![p].state = state]
    PROVE  HandleFine(p)
<1>1. handle \in [Procs -> HandleRecords] /\ handle[p] \in HandleRecords
  BY DEF Standing, Core, LauncherTypes
<1> DEFINE h == [handle[p] EXCEPT !.state = state]
<1>2. h \in HandleRecords /\ h.state = state BY <1>1 DEF HandleRecords
<1>3. handle' = [handle EXCEPT ![p] = h] BY <1>1
<1> HIDE DEF h
<1> QED BY <1>2, <1>3, HandleSet

LEMMA AdoptFine ==
    ASSUME Standing, NEW p \in Procs, Adopt(p)
    PROVE  HandleFine(p)
<1>1. UNCHANGED handle \/ handle' = [handle EXCEPT ![p].state = "ready"] BY DEF Adopt
<1> QED BY <1>1, StateSet DEF HandleFine

LEMMA FinalizeKeeps ==
    ASSUME Standing, NEW p \in Procs, Finalize(p)
    PROVE  Standing'
<1>1. call[p].pc = "finalize" /\ Outside /\ UNCHANGED run
  BY DEF Finalize, In, Outside, supervisorVars
<1>2. PICK a \in Attempts : a = call[p].a BY <1>1, CallIsFor
<1>3. CallAt(p) /\ call[p] \in CallRecords BY DEF Standing, Core, LauncherTypes, CallInv
<1>4. /\ call[p].seen \in {"starting", "uncertain"}
      /\ call[p].ev \in {"started", "not-started", "complete-stopped"}
      /\ call[p].gc => auth.launch[a] = "started"
      /\ call[p].ev = "started" => Ran(a)
      /\ call[p].ev # "started" /\ ~call[p].gc /\ ~exposed => Dead(a)
  BY <1>1, <1>2, <1>3 DEF CallAt, CallRecords, Evidence
<1>5. UNCHANGED auth \/ (auth.launch[a] = call[p].seen /\ auth' = LaunchFinal(a, call[p].ev, call[p].gc))
  BY <1>2 DEF Finalize, Ask
<1>6. AuthMoves
  <2>1. CASE auth.launch[a] = call[p].seen /\ auth' = LaunchFinal(a, call[p].ev, call[p].gc)
    <3>1. ~call[p].gc /\ auth.launch[a] \in {"starting", "uncertain"} BY <1>4, <2>1
    <3>2. auth \in AuthRecords BY DEF Standing, Core, LauncherTypes
    <3>3. CASE call[p].ev = "started"
      <4>1. auth' = [auth EXCEPT !.launch[a] = "started", !.pointer = a]
        BY <2>1, <3>1, <3>2, <3>3 DEF LaunchFinal, AuthRecords
      <4> QED BY <1>4, <3>1, <3>3, <4>1, LaunchStarts
    <3>4. CASE call[p].ev # "started"
      <4>1. auth' = [auth EXCEPT !.launch[a] = call[p].ev]
        BY <2>1, <3>1, <3>2, <3>4 DEF LaunchFinal, AuthRecords
      <4>2. call[p].ev \in Ended /\ call[p].ev # "cancelled" BY <1>4, <3>4 DEF Ended
      <4> QED BY <1>4, <3>1, <3>4, <4>1, <4>2, LaunchEnds DEF ActivePhases
    <3> QED BY <3>3, <3>4
  <2> QED BY <1>5, <2>1, AuthStays
<1>7. (Leave(p) /\ Adopt(p)) \/ (Go(p, "readback") /\ UNCHANGED handle) BY DEF Finalize, Ask
<1>8. Plainly(p) BY <1>1, <1>7, GoPlain, LeavePlain DEF PlainLaunch, LaunchPcs, Outside
<1>9. HandleFine(p) BY <1>7, AdoptFine DEF HandleFine
<1> QED BY <1>1, <1>6, <1>8, <1>9, PlainlyKeeps DEF Rests, Asking

LEMMA ReadbackKeeps ==
    ASSUME Standing, NEW p \in Procs, Readback(p)
    PROVE  Standing'
<1>1. call[p].pc = "readback" /\ Outside /\ UNCHANGED <<run, auth>>
  BY DEF Readback, In, Outside, supervisorVars
<1>2. (Leave(p) /\ Adopt(p)) \/ (Go(p, "mark") /\ UNCHANGED handle) BY DEF Readback
<1>3. Plainly(p) BY <1>1, <1>2, GoPlain, LeavePlain DEF PlainLaunch, LaunchPcs, Outside
<1>4. HandleFine(p) BY <1>2, AdoptFine DEF HandleFine
<1> QED BY <1>1, <1>3, <1>4, AuthStays, PlainlyKeeps DEF Rests, Asking

LEMMA MarkKeeps ==
    ASSUME Standing, NEW p \in Procs, Mark(p)
    PROVE  Standing'
<1>1. call[p].pc = "mark" /\ Outside /\ UNCHANGED <<run, handle>> /\ Leave(p)
  BY DEF Mark, In, Outside, supervisorVars
<1>2. PICK a \in Attempts : a = call[p].a BY <1>1, CallIsFor
<1>3. UNCHANGED auth \/ (auth.launch[a] = "starting" /\ auth' = LaunchUncertain(a))
  BY <1>2 DEF Mark
<1>4. AuthMoves BY <1>3, AuthStays, LaunchGoesOn DEF LaunchUncertain, ActivePhases
<1>5. Plainly(p) BY <1>1, LeavePlain DEF Outside
<1> QED BY <1>1, <1>4, <1>5, PlainlyKeeps DEF Rests, Asking, HandleFine

-----------------------------------------------------------------------------
(* The reconciliation.                                                     *)
LEMMA InquireKeeps ==
    ASSUME Standing, NEW p \in Procs, Outside, AuthMoves, UNCHANGED handle,
           call[p].pc \in {"read", "premark"}, NEW a \in Attempts, a = call[p].a,
           NEW phase \in {"starting", "uncertain"}, auth'.launch[a] = phase, Inquire(p, phase)
    PROVE  Standing'
<1>1. CASE Seen(p, "reconciling", phase) /\ Request(p, a, "reconcile", "none")
  <2>1. /\ run' \in [Procs -> RunRecords]
        /\ \A q \in Procs \ {p} : run'[q] = run[q]
        /\ run'[p].pc = "read" /\ run'[p].mode = "reconcile" /\ run'[p].a = a
    BY <1>1, RequestIs DEF Modes, Bys
  <2>2. RunMoves(p) BY <2>1, <1>1 DEF RunMoves, Fresh, Modes
  <2>3. /\ CallMoves(p)
        /\ call'[p].pc = "reconciling" /\ call'[p].a = a /\ ~call'[p].gc
        /\ call'[p].seen = phase
    BY <1>1, SeenMoves, NotCollecting DEF CallPcs, LaunchPcs, LaunchPhases, Outside
  <2>4. RunFor(p)' BY <2>1, <2>3 DEF RunFor, ModesOf
  <2>5. CallAt(p)' BY <2>3 DEF CallAt, Dispatched
  <2>6. HandleMoves(p) /\ HandleAt(p)' BY <2>2, MovesStay, FineMoves DEF HandleFine
  <2> QED BY <2>2, <2>3, <2>4, <2>5, <2>6, MovesGoOn
<1>2. CASE Leave(p) /\ UNCHANGED run
  <2>1. Plainly(p) BY <1>2, LeavePlain DEF Outside
  <2> QED BY <1>2, <2>1, PlainlyKeeps DEF Rests, Asking, HandleFine
<1> QED BY <1>1, <1>2 DEF Inquire, Probe

LEMMA ReadKeeps ==
    ASSUME Standing, NEW p \in Procs, Read(p)
    PROVE  Standing'
<1>1. call[p].pc = "read" /\ Outside BY DEF Read, In, Outside
<1>2. PICK a \in Attempts : a = call[p].a BY <1>1, CallIsFor
<1> DEFINE mine == handle[p].a = a /\ handle[p].state = "provisional"
<1>3. \/ Go(p, "cancel") /\ UNCHANGED <<auth, handle, run>>
      \/ /\ auth.launch[a] \in {"starting", "uncertain"} /\ mine
         /\ Probe(p, /\ call' = [call EXCEPT ![p] =
                        [@ EXCEPT !.pc = "finalize", !.ev = "started", !.seen = auth.launch[a]]]
                     /\ UNCHANGED guard,
                  Leave(p))
         /\ UNCHANGED <<auth, handle, run>>
      \/ auth.launch[a] = "starting" /\ Seen(p, "premark", "starting") /\ UNCHANGED <<auth, handle, run>>
      \/ auth.launch[a] = "uncertain" /\ Inquire(p, "uncertain") /\ UNCHANGED <<auth, handle>>
      \/ UNCHANGED <<auth, run>> /\ Leave(p) /\ Adopt(p)
  BY <1>2 DEF Read
<1>4. CASE Go(p, "cancel") /\ UNCHANGED <<auth, handle, run>>
  <2>1. Plainly(p) BY <1>1, <1>4, GoPlain DEF PlainLaunch, LaunchPcs, Outside
  <2> QED BY <1>1, <1>4, <2>1, AuthStays, PlainlyKeeps DEF Rests, Asking, HandleFine
<1>5. CASE /\ auth.launch[a] \in {"starting", "uncertain"} /\ mine
           /\ call' = [call EXCEPT ![p] =
                        [@ EXCEPT !.pc = "finalize", !.ev = "started", !.seen = auth.launch[a]]]
           /\ UNCHANGED <<guard, auth, handle, run>>
  <2>1. call \in [Procs -> CallRecords] /\ call[p] \in CallRecords /\ ~call[p].gc
    BY <1>1, NotCollecting DEF Standing, Core, LauncherTypes
  <2>2. /\ call' \in [Procs -> CallRecords] /\ UNCHANGED guard
        /\ call'[p].pc = "finalize" /\ call'[p].a = call[p].a /\ ~call'[p].gc
        /\ call'[p].seen = auth.launch[a] /\ call'[p].ev = "started" /\ call'[p].lock = call[p].lock
        /\ \A q \in Procs \ {p} : call'[q] = call[q]
    BY ZenonT(60), <2>1, <1>5 DEF CallRecords, LaunchPcs, Evidence, LaunchPhases
  <2>3. CallMoves(p) BY <1>1, <2>2, Advances DEF LaunchPcs, Outside
  <2>4. RunMoves(p) /\ RunFor(p)' BY <1>1, <1>5, <2>2, RestMoves, RestFor DEF Rests, Asking
  <2>5. AuthMoves BY <1>5, AuthStays
  <2>6. Ran(a)'
    <3>1. Ran(a) BY <1>5 DEF Standing, HandleInv, HandleAt
    <3> QED BY <1>1, <2>4, <2>5, <3>1, MovesStay DEF Stays
  <2>7. CallAt(p)' BY <1>2, <1>5, <2>2, <2>6 DEF CallAt, Dispatched
  <2>8. HandleMoves(p) /\ HandleAt(p)'
    BY <1>1, <1>5, <2>4, <2>5, MovesStay, FineMoves DEF HandleFine
  <2> QED BY <1>1, <2>3, <2>4, <2>5, <2>7, <2>8, MovesGoOn
<1>6. CASE auth.launch[a] = "starting" /\ Seen(p, "premark", "starting") /\ UNCHANGED <<auth, handle, run>>
  <2>1. Plainly(p)
    BY <1>1, <1>6, SeenPlain DEF PlainLaunch, LaunchPcs, LaunchPhases, Outside
  <2> QED BY <1>1, <1>6, <2>1, AuthStays, PlainlyKeeps DEF Rests, Asking, HandleFine
<1>7. CASE auth.launch[a] = "uncertain" /\ Inquire(p, "uncertain") /\ UNCHANGED <<auth, handle>>
  BY <1>1, <1>2, <1>7, AuthStays, InquireKeeps
<1>8. CASE UNCHANGED <<auth, run>> /\ Leave(p) /\ HandleFine(p)
  <2>1. Plainly(p) BY <1>1, <1>8, LeavePlain DEF Outside
  <2> QED BY <1>1, <1>8, <2>1, AuthStays, PlainlyKeeps DEF Rests, Asking
<1>9. UNCHANGED handle => HandleFine(p) BY DEF HandleFine
<1> QED BY <1>3, <1>4, <1>5, <1>6, <1>7, <1>8, <1>9, AdoptFine DEF Probe

LEMMA CancelKeeps ==
    ASSUME Standing, NEW p \in Procs, Cancel(p)
    PROVE  Standing'
<1>1. call[p].pc = "cancel" /\ Outside /\ UNCHANGED <<run, handle>> /\ Leave(p)
  BY DEF Cancel, In, Outside, supervisorVars, Ask
<1>2. PICK a \in Attempts : a = call[p].a BY <1>1, CallIsFor
<1>3. UNCHANGED auth \/ (auth.launch[a] = "prepared" /\ auth' = [auth EXCEPT !.launch[a] = "cancelled"])
  BY <1>2 DEF Cancel, Ask
<1>4. AuthMoves BY <1>3, AuthStays, LaunchEnds DEF ActivePhases, Ended
<1>5. Plainly(p) BY <1>1, LeavePlain DEF Outside
<1> QED BY <1>1, <1>4, <1>5, PlainlyKeeps DEF Rests, Asking, HandleFine

LEMMA MarkBeforeInquiryKeeps ==
    ASSUME Standing, NEW p \in Procs, MarkBeforeInquiry(p)
    PROVE  Standing'
<1>1. call[p].pc = "premark" /\ Outside /\ UNCHANGED handle
  BY DEF MarkBeforeInquiry, In, Outside
<1>2. PICK a \in Attempts : a = call[p].a BY <1>1, CallIsFor
<1>3. UNCHANGED auth \/ (auth.launch[a] = "starting" /\ auth' = LaunchUncertain(a))
  BY <1>2 DEF MarkBeforeInquiry
<1>4. AuthMoves BY <1>3, AuthStays, LaunchGoesOn DEF LaunchUncertain, ActivePhases
<1>5. \/ auth'.launch[a] \in {"starting", "uncertain"} /\ Inquire(p, auth'.launch[a])
      \/ Leave(p) /\ UNCHANGED run
  BY <1>2 DEF MarkBeforeInquiry
<1>6. CASE auth'.launch[a] \in {"starting", "uncertain"} /\ Inquire(p, auth'.launch[a])
  BY <1>1, <1>2, <1>4, <1>6, InquireKeeps
<1>7. CASE Leave(p) /\ UNCHANGED run
  <2>1. Plainly(p) BY <1>1, <1>7, LeavePlain DEF Outside
  <2> QED BY <1>1, <1>4, <1>7, <2>1, PlainlyKeeps DEF Rests, Asking, HandleFine
<1> QED BY <1>5, <1>6, <1>7

LEMMA ReconciledKeeps ==
    ASSUME Standing, NEW p \in Procs, Reconciled(p)
    PROVE  Standing'
<1>1. call[p].pc = "reconciling" /\ Outside /\ Answered(p) /\ UNCHANGED <<auth, handle>>
  BY DEF Reconciled, In, Outside
<1>2. PICK a \in Attempts : a = call[p].a BY <1>1, CallIsFor
<1>3. run[p].mode = "reconcile" /\ run[p].a = a
  BY <1>1, <1>2 DEF Standing, Core, RunsForCall, RunFor, ModesOf
<1>4. ReconcileAt(p) /\ run[p].pc = "done"
  BY <1>1, <1>3, RunLives DEF Standing, RunAt, Answered, At
<1>5. call[p].seen \in {"starting", "uncertain"} /\ AuthMoves
  BY <1>1, AuthStays DEF Standing, CallInv, CallAt
<1>6. \/ \E ev \in {"not-started", "complete-stopped"}, gc \in BOOLEAN :
            /\ Finalizing(p, ev, gc)
            /\ gc => run[p].result = "proved"
            /\ ~gc => run[p].result \in {"not-started", "exited"}
      \/ Leave(p)
  BY DEF Reconciled, Answer
<1>7. ASSUME NEW ev \in {"not-started", "complete-stopped"}, NEW gc \in BOOLEAN, Finalizing(p, ev, gc),
             gc => run[p].result = "proved", ~gc => run[p].result \in {"not-started", "exited"}
      PROVE  Standing'
  <2>1. /\ CallMoves(p)
        /\ call'[p].pc = "finalize" /\ call'[p].a = a /\ (call'[p].gc <=> gc)
        /\ call'[p].seen = call[p].seen /\ call'[p].ev = ev
    BY <1>1, <1>2, <1>7, FinalizingMoves DEF LaunchPcs, Evidence, Outside
  <2>2. RunMoves(p) /\ RunFor(p)' BY <1>1, <2>1, RestMoves, RestFor DEF Rests, Asking
  <2>3. HandleMoves(p) /\ HandleAt(p)'
    BY <1>1, <1>5, <2>2, MovesStay, FineMoves DEF HandleFine
  <2>4. gc => auth'.launch[a] = "started" BY <1>1, <1>3, <1>4, <1>7 DEF ReconcileAt
  <2>5. ~gc /\ ~exposed' => Dead(a)'
    <3>1. ~gc /\ ~exposed => Dead(a) BY <1>3, <1>4, <1>7 DEF ReconcileAt
    <3> QED BY <3>1, <1>1, <1>5, <2>2, MovesStay DEF Stays, Outside
  <2>6. CallAt(p)' BY <1>5, <2>1, <2>4, <2>5 DEF CallAt, Dispatched
  <2> QED BY <1>1, <1>5, <2>1, <2>2, <2>3, <2>6, MovesGoOn
<1>8. CASE Leave(p)
  <2>1. Plainly(p) BY <1>1, <1>8, LeavePlain DEF Outside
  <2> QED BY <1>1, <1>5, <2>1, PlainlyKeeps DEF Rests, HandleFine
<1> QED BY <1>6, <1>7, <1>8

-----------------------------------------------------------------------------
(* The stop.                                                               *)
LEMMA ClaimedSet ==
    ASSUME Standing, NEW p \in Procs, NEW claimed \in BOOLEAN,
           handle' = [handle EXCEPT ![p].claimed = claimed]
    PROVE  HandleFine(p)
<1>1. handle \in [Procs -> HandleRecords] /\ handle[p] \in HandleRecords
  BY DEF Standing, Core, LauncherTypes
<1> DEFINE h == [handle[p] EXCEPT !.claimed = claimed]
<1>2. h \in HandleRecords /\ h.state = handle[p].state /\ h.a = handle[p].a
  BY <1>1 DEF HandleRecords
<1>3. handle' = [handle EXCEPT ![p] = h] BY <1>1
<1> HIDE DEF h
<1> QED BY <1>2, <1>3 DEF HandleFine

LEMMA LoseFine ==
    ASSUME Standing, NEW p \in Procs, Lose(p)
    PROVE  HandleFine(p)
  BY StateSet DEF Lose

(* Only the call whose claim it was goes on to dispatch the stop.          *)
LEMMA DispatchKeeps ==
    ASSUME Standing, NEW p \in Procs, Outside, AuthMoves, HandleFine(p), UNCHANGED run,
           call[p].pc \in {"sread", "sclaim", "sphase"}, NEW a \in Attempts, a = call[p].a,
           auth'.token[a] = p, auth'.stop[a] = "starting", Go(p, "sdispatch")
    PROVE  Standing'
<1>1. /\ CallMoves(p)
      /\ call'[p].pc = "sdispatch" /\ call'[p].a = a /\ ~call'[p].gc
  BY GoMoves, NotCollecting DEF CallPcs, StopPcs, LaunchPcs, Outside
<1>2. RunMoves(p) /\ RunFor(p)' BY <1>1, RestMoves, RestFor DEF Rests, Asking
<1>3. HandleMoves(p) /\ HandleAt(p)' BY <1>2, MovesStay, FineMoves
<1>4. CallAt(p)' BY <1>1 DEF CallAt, Dispatched
<1> QED BY <1>1, <1>2, <1>3, <1>4, MovesGoOn

LEMMA ReadStopKeeps ==
    ASSUME Standing, NEW p \in Procs, ReadStop(p)
    PROVE  Standing'
<1>1. call[p].pc = "sread" /\ Outside /\ UNCHANGED <<run, auth>>
  BY DEF ReadStop, In, Outside, supervisorVars
<1>2. PICK a \in Attempts : a = call[p].a BY <1>1, CallIsFor
<1>3. \/ (Go(p, "sreserve") \/ Go(p, "sclaim") \/ Leave(p)) /\ HandleFine(p)
      \/ Authorized(p) /\ Go(p, "sdispatch") /\ UNCHANGED handle
  BY LoseFine DEF ReadStop, ToStop, Probe, HandleFine
<1>4. CASE (Go(p, "sreserve") \/ Go(p, "sclaim") \/ Leave(p)) /\ HandleFine(p)
  <2>1. Plainly(p) BY <1>1, <1>4, GoOther, LeavePlain DEF PlainOther, StopPcs, Outside
  <2> QED BY <1>1, <1>4, <2>1, AuthStays, PlainlyKeeps DEF Rests, Asking
<1>5. CASE Authorized(p) /\ Go(p, "sdispatch") /\ UNCHANGED handle
  BY <1>1, <1>2, <1>5, AuthStays, DispatchKeeps DEF Authorized, HandleFine
<1> QED BY <1>3, <1>4, <1>5

LEMMA ReserveStopKeeps ==
    ASSUME Standing, NEW p \in Procs, ReserveStop(p)
    PROVE  Standing'
<1>1. call[p].pc = "sreserve" /\ Outside /\ UNCHANGED <<run, handle>>
  BY DEF ReserveStop, In, Outside, supervisorVars
<1>2. PICK a \in Attempts : a = call[p].a BY <1>1, CallIsFor
<1>3. \/ UNCHANGED auth
      \/ /\ ~Active /\ auth.pointer = a /\ auth.stop[a] = "absent"
         /\ auth' = [auth EXCEPT !.stop[a] = "prepared"]
  BY <1>2 DEF ReserveStop, Ask
<1>4. AuthMoves BY <1>3, AuthStays, StopReserves
<1>5. \/ Go(p, "sclaim")
      \/ call' = [call EXCEPT ![p].pc = "sread", ![p].tries = @ + 1] /\ UNCHANGED guard
  BY DEF ReserveStop, Ask
<1>6. Plainly(p)
  <2>1. CASE Go(p, "sclaim") BY <1>1, <2>1, GoOther DEF PlainOther, StopPcs, Outside
  <2>2. CASE call' = [call EXCEPT ![p].pc = "sread", ![p].tries = @ + 1] /\ UNCHANGED guard
    <3>1. call[p].tries + 1 \in Nat /\ call \in [Procs -> CallRecords]
      BY DEF Standing, Core, LauncherTypes, CallRecords
    <3>2. call' = [call EXCEPT ![p].pc = "sread", ![p].tries = call[p].tries + 1]
      BY <3>1, <2>2
    <3> QED BY <1>1, <2>2, <3>1, <3>2, CountPlain DEF PlainOther, StopPcs, Outside
  <2> QED BY <1>5, <2>1, <2>2
<1> QED BY <1>1, <1>4, <1>6, PlainlyKeeps DEF Rests, Asking, HandleFine

LEMMA ClaimStopKeeps ==
    ASSUME Standing, NEW p \in Procs, ClaimStop(p)
    PROVE  Standing'
<1>1. call[p].pc = "sclaim" /\ Outside /\ UNCHANGED run /\ HandleFine(p)
  BY ClaimedSet DEF ClaimStop, In, Outside, supervisorVars
<1>2. PICK a \in Attempts : a = call[p].a BY <1>1, CallIsFor
<1>3. \/ UNCHANGED auth
      \/ auth.stop[a] = "prepared" /\ auth' = [auth EXCEPT !.stop[a] = "starting", !.token[a] = p]
  BY <1>2 DEF ClaimStop, Ask
<1>4. AuthMoves BY <1>3, AuthStays, StopClaimed
<1>5. \/ /\ Go(p, "sdispatch") /\ auth.stop[a] = "prepared"
         /\ auth' = [auth EXCEPT !.stop[a] = "starting", !.token[a] = p]
      \/ Leave(p) \/ Go(p, "sphase")
  BY <1>2 DEF ClaimStop, Ask, Probe
<1>6. CASE /\ Go(p, "sdispatch") /\ auth.stop[a] = "prepared"
           /\ auth' = [auth EXCEPT !.stop[a] = "starting", !.token[a] = p]
  BY <1>1, <1>2, <1>4, <1>6, StopClaimed, DispatchKeeps
<1>7. CASE Leave(p) \/ Go(p, "sphase")
  <2>1. Plainly(p) BY <1>1, <1>7, GoOther, LeavePlain DEF PlainOther, StopPcs, Outside
  <2> QED BY <1>1, <1>4, <2>1, PlainlyKeeps DEF Rests, Asking
<1> QED BY <1>5, <1>6, <1>7

LEMMA ReadStopClaimKeeps ==
    ASSUME Standing, NEW p \in Procs, ReadStopClaim(p)
    PROVE  Standing'
<1>1. call[p].pc = "sphase" /\ Outside /\ UNCHANGED <<run, auth>>
  BY DEF ReadStopClaim, In, Outside, supervisorVars
<1>2. PICK a \in Attempts : a = call[p].a BY <1>1, CallIsFor
<1>3. \/ Leave(p) /\ handle' = [handle EXCEPT ![p].claimed = FALSE]
      \/ Leave(p) /\ UNCHANGED handle
      \/ Leave(p) /\ handle' = [handle EXCEPT ![p].claimed = FALSE, ![p].state = "lost"]
      \/ Authorized(p) /\ Go(p, "sdispatch") /\ UNCHANGED handle
  BY DEF ReadStopClaim, ToStop, Probe
<1>4. ASSUME handle' = [handle EXCEPT ![p].claimed = FALSE, ![p].state = "lost"]
      PROVE  HandleFine(p)
  <2>1. handle \in [Procs -> HandleRecords] /\ handle[p] \in HandleRecords
    BY DEF Standing, Core, LauncherTypes
  <2> DEFINE h == [handle[p] EXCEPT !.claimed = FALSE, !.state = "lost"]
  <2>2. h \in HandleRecords /\ h.state = "lost" BY <2>1 DEF HandleRecords
  <2>3. handle' = [handle EXCEPT ![p] = h] BY <1>4, <2>1
  <2> HIDE DEF h
  <2> QED BY <2>2, <2>3, HandleSet
<1>5. CASE Leave(p) /\ HandleFine(p)
  <2>1. Plainly(p) BY <1>1, <1>5, LeavePlain DEF Outside
  <2> QED BY <1>1, <1>5, <2>1, AuthStays, PlainlyKeeps DEF Rests, Asking
<1>6. CASE Authorized(p) /\ Go(p, "sdispatch") /\ UNCHANGED handle
  BY <1>1, <1>2, <1>6, AuthStays, DispatchKeeps DEF Authorized, HandleFine
<1>7. UNCHANGED handle => HandleFine(p) BY DEF HandleFine
<1> QED BY <1>3, <1>4, <1>5, <1>6, <1>7, ClaimedSet

LEMMA DispatchStopKeeps ==
    ASSUME Standing, NEW p \in Procs, DispatchStop(p)
    PROVE  Standing'
<1>1. call[p].pc = "sdispatch" /\ Outside /\ UNCHANGED auth BY DEF DispatchStop, In, Outside
<1>2. PICK a \in Attempts : a = call[p].a BY <1>1, CallIsFor
<1>3. /\ auth.token[a] = p /\ auth.stop[a] \in {"starting", "uncertain"} /\ auth.launch[a] = "started"
      /\ AuthMoves
  <2>1. auth.token[a] = p /\ auth.stop[a] \notin {"absent", "prepared", "stopped"}
    BY <1>1, <1>2 DEF Standing, CallInv, CallAt, Dispatched
  <2>2. auth.stop[a] \in StopPhases /\ AuthorityInv
    BY DEF Standing, Core, LauncherTypes, AuthRecords
  <2> QED BY <1>1, <2>1, <2>2, AuthStays DEF StopPhases, AuthorityInv
<1>4. CASE /\ handle' = [handle EXCEPT ![p].state = "stopping"]
           /\ Request(p, a, "stop", "stop") /\ Go(p, "stopping")
  <2>1. /\ run' \in [Procs -> RunRecords]
        /\ \A q \in Procs \ {p} : run'[q] = run[q]
        /\ run'[p].pc = "read" /\ run'[p].mode = "stop" /\ run'[p].a = a
    BY <1>4, RequestIs DEF Modes, Bys
  <2>2. RunMoves(p) BY <2>1, <1>1, <1>3 DEF RunMoves, Fresh, Modes
  <2>3. /\ CallMoves(p)
        /\ call'[p].pc = "stopping" /\ call'[p].a = a /\ ~call'[p].gc
    BY <1>1, <1>2, <1>4, GoMoves, NotCollecting DEF CallPcs, StopPcs, LaunchPcs, Outside
  <2>4. RunFor(p)' BY <2>1, <2>3 DEF RunFor, ModesOf
  <2>5. CallAt(p)' BY <1>1, <1>3, <2>3 DEF CallAt, Dispatched
  <2>6. HandleMoves(p) /\ HandleAt(p)'
    BY <1>1, <1>3, <1>4, <2>2, MovesStay, StateSet, FineMoves
  <2> QED BY <1>1, <1>3, <2>2, <2>3, <2>4, <2>5, <2>6, MovesGoOn
<1>5. CASE Go(p, "smark") /\ Lose(p) /\ UNCHANGED run
  <2>1. Plainly(p) BY <1>1, <1>5, GoOther DEF PlainOther, StopPcs, Outside
  <2> QED BY <1>1, <1>3, <1>5, <2>1, LoseFine, PlainlyKeeps DEF Rests, Asking
<1> QED BY <1>2, <1>4, <1>5 DEF DispatchStop

(* A call that goes on to make its stop final.                             *)
LEMMA ToFinalStop ==
    ASSUME Standing, NEW p \in Procs, UNCHANGED <<guard, exposed>>, call[p].pc \in StopPcs,
           NEW seen \in StopPhases, NEW tries \in Nat,
           call' = [call EXCEPT ![p] = [@ EXCEPT !.pc = "sfinalize", !.seen = seen, !.tries = tries]]
    PROVE  /\ CallMoves(p) /\ call'[p].pc = "sfinalize" /\ ~call'[p].gc
           /\ call'[p].a = call[p].a /\ call'[p].seen = seen
<1>1. call \in [Procs -> CallRecords] /\ call[p] \in CallRecords
  BY DEF Standing, Core, LauncherTypes
<1>2. ~call[p].gc /\ call[p].pc # "idle" BY NotCollecting DEF StopPcs
<1>3. /\ call' \in [Procs -> CallRecords]
      /\ call'[p].pc = "sfinalize" /\ call'[p].a = call[p].a /\ ~call'[p].gc
      /\ call'[p].seen = seen /\ call'[p].lock = call[p].lock
      /\ \A q \in Procs \ {p} : call'[q] = call[q]
  BY <1>1, <1>2 DEF CallRecords, StopPcs
<1> QED BY <1>2, <1>3, Advances DEF LaunchPcs

LEMMA WriterAnsweredKeeps ==
    ASSUME Standing, NEW p \in Procs, WriterAnswered(p)
    PROVE  Standing'
<1>1. call[p].pc = "stopping" /\ Outside /\ UNCHANGED auth /\ Answered(p)
  BY DEF WriterAnswered, In, Outside
<1>2. PICK a \in Attempts : a = call[p].a BY <1>1, CallIsFor
<1>3. run[p].mode = "stop" /\ run[p].a = a /\ AuthMoves
  BY <1>1, <1>2, AuthStays DEF Standing, Core, RunsForCall, RunFor, ModesOf
<1>4. StopAt(p) /\ run[p].pc = "done" /\ ~Gone(a)
  BY <1>1, <1>3, RunLives DEF Standing, RunAt, Answered, At, StopModes
<1>5. /\ call[p].a = a /\ auth.token[a] = p /\ auth.stop[a] \notin {"absent", "prepared"}
  BY <1>1, <1>2 DEF Standing, CallInv, CallAt, Dispatched
<1>6. CASE /\ run[p].result = "stopped" /\ UNCHANGED <<guard, handle>>
           /\ call' = [call EXCEPT ![p] = [@ EXCEPT !.pc = "sfinalize", !.seen = "starting", !.tries = 0]]
  <2>1. StoppedDown(a) BY <1>3, <1>4, <1>6 DEF StopAt
  <2>2. /\ CallMoves(p) /\ call'[p].pc = "sfinalize" /\ ~call'[p].gc
        /\ call'[p].a = a /\ call'[p].seen = "starting"
    BY <1>1, <1>2, <1>6, ToFinalStop DEF StopPcs, StopPhases, Outside
  <2>3. RunMoves(p) /\ RunFor(p)' BY <1>1, <2>2, RestMoves, RestFor DEF Rests, Asking
  <2>4. StoppedDown(a)' BY <1>1, <1>3, <1>4, <2>1, <2>3, MovesStay DEF Stays, Gone
  <2>5. CallAt(p)' BY <1>1, <1>5, <2>2, <2>4 DEF CallAt, Dispatched
  <2>6. HandleMoves(p) /\ HandleAt(p)'
    BY <1>1, <1>3, <1>6, <2>3, MovesStay, FineMoves DEF HandleFine
  <2> QED BY <1>1, <1>3, <2>2, <2>3, <2>5, <2>6, MovesGoOn
<1>7. CASE Go(p, "smark") /\ Lose(p)
  <2>1. Plainly(p) BY <1>1, <1>7, GoOther DEF PlainOther, StopPcs, Outside
  <2> QED BY <1>1, <1>3, <1>7, <2>1, LoseFine, PlainlyKeeps DEF Rests
<1> QED BY <1>6, <1>7 DEF WriterAnswered, StopUnproved, Answer

LEMMA FinalizeStopKeeps ==
    ASSUME Standing, NEW p \in Procs, FinalizeStop(p)
    PROVE  Standing'
<1>1. call[p].pc = "sfinalize" /\ Outside /\ UNCHANGED <<run, handle>>
  BY DEF FinalizeStop, In, Outside, supervisorVars
<1>2. PICK a \in Attempts : a = call[p].a BY <1>1, CallIsFor
<1>3. /\ auth.token[a] = p /\ auth.stop[a] \notin {"absent", "prepared"}
      /\ auth.stop[a] = "stopped" \/ StoppedDown(a)
      /\ call[p].seen \in {"starting", "uncertain"}
  BY <1>1, <1>2 DEF Standing, CallInv, CallAt, Dispatched
<1>4. HandsOver(p) \in BOOLEAN BY DEF HandsOver
<1>5. ASSUME NEW q \in Procs, call[q].a = a PROVE call[q].pc \notin Dispatched
  BY <1>1, <1>3, <1>5 DEF Standing, CallInv, CallAt, Dispatched
<1>6. \/ UNCHANGED auth
      \/ auth.stop[a] = call[p].seen /\ auth' = StopFinal(a, HandsOver(p))
  BY <1>2 DEF FinalizeStop, Ask
<1>7. AuthMoves
  <2>1. CASE auth.stop[a] = call[p].seen /\ auth' = StopFinal(a, HandsOver(p))
    BY <1>3, <1>4, <1>5, <2>1, StopEnds
  <2> QED BY <1>6, <2>1, AuthStays
<1>8. CASE Go(p, "sconfirm")
  <2>1. Plainly(p) BY <1>1, <1>8, GoOther DEF PlainOther, StopPcs, Outside
  <2> QED BY <1>1, <1>7, <2>1, PlainlyKeeps DEF Rests, Asking, HandleFine
<1>9. CASE Go(p, "sreadback")
  <2>1. /\ CallMoves(p) /\ call'[p].pc = "sreadback" /\ ~call'[p].gc /\ call'[p].a = a
    BY <1>1, <1>2, <1>9, GoMoves, NotCollecting DEF CallPcs, StopPcs, LaunchPcs, Outside
  <2>2. RunMoves(p) /\ RunFor(p)' BY <1>1, <2>1, RestMoves, RestFor DEF Rests, Asking
  <2>3. Stays BY <1>1, <1>7, <2>2, MovesStay
  <2>4. auth'.token[a] = p /\ auth'.stop[a] \notin {"absent", "prepared"}
    BY <1>3, <1>7 DEF AuthMoves, AuthMovesAt
  <2>5. auth'.stop[a] = "stopped" \/ StoppedDown(a)'
    <3>1. CASE auth.stop[a] = "stopped" BY <1>7, <3>1 DEF AuthMoves, AuthMovesAt
    <3>2. CASE StoppedDown(a)
      <4>1. Gone(a)' => auth'.stop[a] = "stopped" BY <1>7 DEF AuthMoves, AuthorityInv
      <4> QED BY <2>3, <3>2, <4>1 DEF Stays
    <3> QED BY <1>3, <3>1, <3>2
  <2>6. CallAt(p)' BY <2>1, <2>4, <2>5 DEF CallAt, Dispatched
  <2>7. HandleMoves(p) /\ HandleAt(p)' BY <1>1, <2>3, FineMoves DEF HandleFine
  <2> QED BY <1>1, <1>7, <2>1, <2>2, <2>6, <2>7, MovesGoOn
<1> QED BY <1>8, <1>9 DEF FinalizeStop, Ask

LEMMA ReadStopFinalKeeps ==
    ASSUME Standing, NEW p \in Procs, ReadStopFinal(p)
    PROVE  Standing'
<1>1. call[p].pc = "sreadback" /\ Outside /\ UNCHANGED <<run, auth>>
  BY DEF ReadStopFinal, In, Outside, supervisorVars
<1>2. PICK a \in Attempts : a = call[p].a BY <1>1, CallIsFor
<1>3. /\ auth.token[a] = p /\ auth.stop[a] \notin {"absent", "prepared"}
      /\ auth.stop[a] = "stopped" \/ StoppedDown(a)
      /\ auth.stop[a] \in StopPhases /\ AuthMoves
      /\ call[p].tries + 1 \in Nat
  BY <1>1, <1>2, AuthStays DEF Standing, CallInv, CallAt, Dispatched, Core, LauncherTypes,
     AuthRecords, CallRecords
<1>4. CASE (Go(p, "sconfirm") /\ UNCHANGED handle) \/ (Go(p, "smark") /\ Lose(p))
  <2>1. Plainly(p) BY <1>1, <1>4, GoOther DEF PlainOther, StopPcs, Outside
  <2>2. HandleFine(p) BY <1>4, LoseFine DEF HandleFine
  <2> QED BY <1>1, <1>3, <2>1, <2>2, PlainlyKeeps DEF Rests, Asking
<1>5. CASE /\ auth.stop[a] # "stopped" /\ UNCHANGED <<guard, handle>>
           /\ call' = [call EXCEPT ![p].pc = "sfinalize", ![p].seen = auth.stop[a],
                                   ![p].tries = @ + 1]
  <2>0. call \in [Procs -> CallRecords] /\ call[p] \in CallRecords /\ ~call[p].gc
    BY <1>1, NotCollecting DEF Standing, Core, LauncherTypes
  <2>1. /\ call' \in [Procs -> CallRecords]
        /\ call'[p].pc = "sfinalize" /\ call'[p].a = call[p].a /\ ~call'[p].gc
        /\ call'[p].seen = auth.stop[a] /\ call'[p].lock = call[p].lock
        /\ \A q \in Procs \ {p} : call'[q] = call[q]
    BY <1>3, <1>5, <2>0 DEF CallRecords, StopPcs
  <2>2. /\ CallMoves(p) /\ call'[p].pc = "sfinalize" /\ ~call'[p].gc
        /\ call'[p].a = a /\ call'[p].seen = auth.stop[a]
    <3>1. call[p].pc # "idle" /\ UNCHANGED <<guard, exposed>> /\ "sfinalize" \notin LaunchPcs
      BY <1>1, <1>5 DEF LaunchPcs, Outside
    <3>2. CallMoves(p) BY <2>1, <3>1, Advances
    <3> QED BY <1>2, <2>1, <3>2
  <2>3. RunMoves(p) /\ RunFor(p)' BY <1>1, <2>2, RestMoves, RestFor DEF Rests, Asking
  <2>4. StoppedDown(a)'
    <3>1. ~Gone(a)' BY <1>1, <1>3, <1>5 DEF AuthMoves, AuthorityInv
    <3> QED BY <1>1, <1>3, <1>5, <2>3, <3>1, MovesStay DEF Stays
  <2>5. CallAt(p)' BY <1>1, <1>3, <1>5, <2>2, <2>4 DEF CallAt, Dispatched, StopPhases
  <2>6. HandleMoves(p) /\ HandleAt(p)'
    BY <1>1, <1>3, <1>5, <2>3, MovesStay, FineMoves DEF HandleFine
  <2> QED BY <1>1, <1>3, <2>2, <2>3, <2>5, <2>6, MovesGoOn
<1> QED BY <1>2, <1>4, <1>5 DEF ReadStopFinal, StopUnproved

LEMMA ConfirmStopKeeps ==
    ASSUME Standing, NEW p \in Procs, ConfirmStop(p)
    PROVE  Standing'
<1>1. call[p].pc = "sconfirm" /\ Outside /\ UNCHANGED <<run, auth>>
  BY DEF ConfirmStop, In, Outside, supervisorVars
<1>2. \/ Leave(p) /\ handle' = [handle EXCEPT ![p].state = "stopped"]
      \/ Go(p, "smark") /\ handle' = [handle EXCEPT ![p].state = "stopped"]
      \/ Go(p, "smark") /\ Lose(p)
  BY DEF ConfirmStop, StopUnproved
<1>3. Plainly(p) BY <1>1, <1>2, GoOther, LeavePlain DEF PlainOther, StopPcs, Outside
<1>4. HandleFine(p) BY <1>2, LoseFine, StateSet
<1> QED BY <1>1, <1>3, <1>4, AuthStays, PlainlyKeeps DEF Rests, Asking

LEMMA MarkStopKeeps ==
    ASSUME Standing, NEW p \in Procs, MarkStop(p)
    PROVE  Standing'
<1>1. call[p].pc = "smark" /\ Outside /\ UNCHANGED <<run, handle>> /\ Leave(p)
  BY DEF MarkStop, In, Outside, supervisorVars
<1>2. PICK a \in Attempts : a = call[p].a BY <1>1, CallIsFor
<1>3. UNCHANGED auth \/ (auth.stop[a] = "starting" /\ auth' = [auth EXCEPT !.stop[a] = "uncertain"])
  BY <1>2 DEF MarkStop
<1>4. AuthMoves BY <1>3, AuthStays, StopUncertain
<1>5. Plainly(p) BY <1>1, LeavePlain DEF Outside
<1> QED BY <1>1, <1>4, <1>5, PlainlyKeeps DEF Rests, Asking, HandleFine

-----------------------------------------------------------------------------
(* The fence.                                                              *)
LEMMA VerifyKeeps ==
    ASSUME Standing, NEW p \in Procs, Outside, AuthMoves, UNCHANGED handle,
           call[p].pc \in {"fread", "fclaim", "fencing"}, NEW a \in Attempts, a = call[p].a,
           NEW mode \in {"fresh", "restop"}, auth'.fence[a] \notin {"absent", "prepared"},
           Verify(p, mode)
    PROVE  Standing'
<1>1. /\ run' \in [Procs -> RunRecords]
      /\ \A q \in Procs \ {p} : run'[q] = run[q]
      /\ run'[p].pc = "read" /\ run'[p].mode = mode /\ run'[p].a = a
  BY RequestIs DEF Verify, Modes, Bys
<1>2. auth'.launch[a] = "started" BY DEF AuthMoves, AuthorityInv
<1>3. RunMoves(p) BY <1>1, <1>2 DEF RunMoves, Fresh, Modes
<1>4. /\ CallMoves(p)
      /\ call'[p].pc = "fencing" /\ call'[p].a = a /\ ~call'[p].gc
  BY GoMoves, NotCollecting DEF Verify, CallPcs, FencePcs, LaunchPcs, Outside
<1>5. RunFor(p)' BY <1>1, <1>4 DEF RunFor, ModesOf
<1>6. CallAt(p)' BY <1>4 DEF CallAt, Dispatched
<1>7. HandleMoves(p) /\ HandleAt(p)' BY <1>3, MovesStay, FineMoves DEF HandleFine
<1> QED BY <1>3, <1>4, <1>5, <1>6, <1>7, MovesGoOn

LEMMA SettlePlain ==
    ASSUME Standing, NEW p \in Procs, UNCHANGED exposed, NEW pc \in PlainOther, Settle(p, pc),
           call[p].pc \in StopPcs \cup FencePcs
    PROVE  Plainly(p)
  BY CountPlain DEF Settle

LEMMA ReadFenceKeeps ==
    ASSUME Standing, NEW p \in Procs, ReadFence(p)
    PROVE  Standing'
<1>1. call[p].pc = "fread" /\ Outside /\ UNCHANGED <<handle, auth>>
  BY DEF ReadFence, In, Outside
<1>2. PICK a \in Attempts : a = call[p].a BY <1>1, CallIsFor
<1>3. AuthMoves BY <1>1, AuthStays
<1>4. \/ Retry(p, "freserve") \/ Retry(p, "fclaim")
      \/ Leave(p) /\ UNCHANGED run
      \/ auth.fence[a] \in {"starting", "uncertain"} /\ Verify(p, "restop")
  BY <1>2 DEF ReadFence, Probe
<1>5. CASE Retry(p, "freserve") \/ Retry(p, "fclaim") \/ (Leave(p) /\ UNCHANGED run)
  <2>1. Plainly(p) /\ UNCHANGED run
    BY <1>1, <1>5, RetryPlain, LeavePlain DEF PlainOther, FencePcs, Outside
  <2> QED BY <1>1, <1>3, <2>1, PlainlyKeeps DEF Rests, Asking, HandleFine
<1>6. CASE auth.fence[a] \in {"starting", "uncertain"} /\ Verify(p, "restop")
  BY <1>1, <1>2, <1>3, <1>6, VerifyKeeps
<1> QED BY <1>4, <1>5, <1>6

LEMMA ReserveFenceKeeps ==
    ASSUME Standing, NEW p \in Procs, ReserveFence(p)
    PROVE  Standing'
<1>1. call[p].pc = "freserve" /\ Outside /\ UNCHANGED <<handle, run>>
  BY DEF ReserveFence, In, Outside, Ask, Proceed
<1>2. PICK a \in Attempts : a = call[p].a BY <1>1, CallIsFor
<1>3. \/ UNCHANGED auth
      \/ /\ auth.fence[a] \in {"absent", "prepared"}
         /\ auth.fence[a] = "prepared" \/ (~Active /\ auth.pointer = a)
         /\ auth' = [auth EXCEPT !.fence[a] = "prepared"]
  BY <1>2 DEF ReserveFence, Ask
<1>4. AuthMoves BY <1>3, AuthStays, FenceMoves DEF ActivePhases
<1>5. Settle(p, "fclaim") \/ Settle(p, "fread") \/ Go(p, "fread")
  BY DEF ReserveFence, Ask, Proceed
<1>6. Plainly(p) BY <1>1, <1>5, GoOther, SettlePlain DEF PlainOther, FencePcs, Outside
<1> QED BY <1>1, <1>4, <1>6, PlainlyKeeps DEF Rests, Asking, HandleFine

LEMMA ClaimFenceKeeps ==
    ASSUME Standing, NEW p \in Procs, ClaimFence(p)
    PROVE  Standing'
<1>1. call[p].pc = "fclaim" /\ Outside /\ UNCHANGED handle BY DEF ClaimFence, In, Outside
<1>2. PICK a \in Attempts : a = call[p].a BY <1>1, CallIsFor
<1>3. \/ UNCHANGED auth
      \/ auth.fence[a] = "prepared" /\ auth' = [auth EXCEPT !.fence[a] = "starting"]
  BY <1>2 DEF ClaimFence, Ask
<1>4. AuthMoves BY <1>3, AuthStays, FenceMoves DEF ActivePhases
<1>5. \/ (Leave(p) \/ Go(p, "fread")) /\ UNCHANGED run
      \/ /\ Verify(p, "fresh")
         /\ auth.fence[a] = "prepared" /\ auth' = [auth EXCEPT !.fence[a] = "starting"]
  BY <1>2 DEF ClaimFence, Ask, Probe
<1>6. CASE (Leave(p) \/ Go(p, "fread")) /\ UNCHANGED run
  <2>1. Plainly(p) BY <1>1, <1>6, GoOther, LeavePlain DEF PlainOther, FencePcs, Outside
  <2> QED BY <1>1, <1>4, <1>6, <2>1, PlainlyKeeps DEF Rests, Asking, HandleFine
<1>7. CASE /\ Verify(p, "fresh")
           /\ auth.fence[a] = "prepared" /\ auth' = [auth EXCEPT !.fence[a] = "starting"]
  <2>1. auth'.fence[a] = "starting" BY <1>7, FenceMoves DEF ActivePhases
  <2> QED BY <1>1, <1>2, <1>4, <1>7, <2>1, VerifyKeeps
<1> QED BY <1>5, <1>6, <1>7

LEMMA FencedKeeps ==
    ASSUME Standing, NEW p \in Procs, Fenced(p)
    PROVE  Standing'
<1>1. call[p].pc = "fencing" /\ Outside /\ UNCHANGED <<handle, auth>> /\ run[p].pc = "done"
  BY DEF Fenced, In, At, Outside
<1>2. PICK a \in Attempts : a = call[p].a BY <1>1, CallIsFor
<1>3. AuthMoves /\ auth.fence[a] \notin {"absent", "prepared"}
  BY <1>1, <1>2, AuthStays DEF Standing, CallInv, CallAt
<1>4. run[p].mode \in {"fresh", "restop"} /\ run[p].a = a
  BY <1>1, <1>2 DEF Standing, Core, RunsForCall, RunFor, ModesOf
<1>5. StopAt(p) /\ ~Gone(a) BY <1>1, <1>4, RunLives DEF Standing, RunAt, StopModes
<1>6. \/ run[p].result = "stopped" /\ Answered(p) /\ Settle(p, "ffinalize")
      \/ Verify(p, "restop")
      \/ Answered(p) /\ (Settle(p, "fblock") \/ Leave(p))
  BY DEF Fenced, Answer
<1>7. CASE run[p].result = "stopped" /\ Answered(p) /\ Settle(p, "ffinalize")
  <2>1. StoppedDown(a) BY <1>1, <1>4, <1>5, <1>7 DEF StopAt
  <2>2. CallMoves(p) /\ call'[p].pc = "ffinalize" /\ ~call'[p].gc /\ call'[p].a = a
    BY <1>1, <1>2, <1>7, CountMoves, NotCollecting DEF Settle, FencePcs, Outside
  <2>3. RunMoves(p) /\ RunFor(p)' BY <1>7, <2>2, RestMoves, RestFor DEF Rests, Asking
  <2>4. StoppedDown(a)' BY <1>1, <1>3, <1>5, <2>1, <2>3, MovesStay DEF Stays, Gone
  <2>5. CallAt(p)' BY <1>1, <1>3, <2>2, <2>4 DEF CallAt, Dispatched
  <2>6. HandleMoves(p) /\ HandleAt(p)'
    BY <1>1, <1>3, <2>3, MovesStay, FineMoves DEF HandleFine
  <2> QED BY <1>1, <1>3, <2>2, <2>3, <2>5, <2>6, MovesGoOn
<1>8. CASE Verify(p, "restop") BY <1>1, <1>2, <1>3, <1>8, VerifyKeeps
<1>9. CASE Answered(p) /\ (Settle(p, "fblock") \/ Leave(p))
  <2>1. Plainly(p) BY <1>1, <1>9, SettlePlain, LeavePlain DEF PlainOther, FencePcs, Outside
  <2> QED BY <1>1, <1>3, <1>9, <2>1, PlainlyKeeps DEF Rests, HandleFine
<1> QED BY <1>6, <1>7, <1>8, <1>9

LEMMA FinalizeFenceKeeps ==
    ASSUME Standing, NEW p \in Procs, FinalizeFence(p)
    PROVE  Standing'
<1>1. call[p].pc = "ffinalize" /\ Outside /\ UNCHANGED <<handle, run>>
  BY DEF FinalizeFence, In, Outside, Ask, Retry
<1>2. PICK a \in Attempts : a = call[p].a BY <1>1, CallIsFor
<1>3. StoppedDown(a) /\ auth.fence[a] \notin {"absent", "prepared"}
  BY <1>1, <1>2 DEF Standing, CallInv, CallAt
<1>4. \/ UNCHANGED auth
      \/ auth.fence[a] \in {"starting", "uncertain"} /\ auth' = FenceFinal(a)
  BY <1>2 DEF FinalizeFence, Ask
<1>5. AuthMoves BY <1>3, <1>4, AuthStays, FenceEnds
<1>6. Leave(p) \/ Retry(p, "ffinalize") BY DEF FinalizeFence, Ask
<1>7. CASE Leave(p)
  <2>1. Plainly(p) BY <1>1, <1>7, LeavePlain DEF Outside
  <2> QED BY <1>1, <1>5, <2>1, PlainlyKeeps DEF Rests, Asking, HandleFine
<1>8. CASE call' = [call EXCEPT ![p].pc = "ffinalize", ![p].tries = @ + 1] /\ UNCHANGED guard
  <2>1. call \in [Procs -> CallRecords] /\ call[p] \in CallRecords /\ ~call[p].gc
    BY <1>1, NotCollecting DEF Standing, Core, LauncherTypes
  <2>2. /\ call' \in [Procs -> CallRecords]
        /\ call'[p].pc = "ffinalize" /\ call'[p].a = call[p].a /\ ~call'[p].gc
        /\ call'[p].lock = call[p].lock
        /\ \A q \in Procs \ {p} : call'[q] = call[q]
    BY <1>8, <2>1 DEF CallRecords, FencePcs
  <2>3. CallMoves(p) /\ call'[p].pc = "ffinalize" /\ ~call'[p].gc /\ call'[p].a = a
    BY <1>1, <1>2, <1>8, <2>2, Advances DEF LaunchPcs, Outside
  <2>4. RunMoves(p) /\ RunFor(p)' BY <1>1, <2>3, RestMoves, RestFor DEF Rests, Asking
  <2>5. auth'.fence[a] \notin {"absent", "prepared"} /\ ~Gone(a)'
    BY <1>3, <1>5 DEF AuthMoves, AuthMovesAt, AuthorityInv
  <2>6. StoppedDown(a)' BY <1>1, <1>3, <1>5, <2>4, <2>5, MovesStay DEF Stays
  <2>7. CallAt(p)' BY <2>3, <2>5, <2>6 DEF CallAt, Dispatched
  <2>8. HandleMoves(p) /\ HandleAt(p)'
    BY <1>1, <1>5, <2>4, MovesStay, FineMoves DEF HandleFine
  <2> QED BY <1>1, <1>5, <2>3, <2>4, <2>7, <2>8, MovesGoOn
<1> QED BY <1>6, <1>7, <1>8 DEF Retry

LEMMA BlockFenceKeeps ==
    ASSUME Standing, NEW p \in Procs, BlockFence(p)
    PROVE  Standing'
<1>1. call[p].pc = "fblock" /\ Outside /\ UNCHANGED <<handle, run>>
  BY DEF BlockFence, In, Outside, Ask, Retry, Proceed
<1>2. PICK a \in Attempts : a = call[p].a BY <1>1, CallIsFor
<1>3. \/ UNCHANGED auth
      \/ auth.fence[a] = "starting" /\ auth' = [auth EXCEPT !.fence[a] = "uncertain"]
      \/ auth.fence[a] = "uncertain" /\ auth' = [auth EXCEPT !.fence[a] = "blocked"]
  BY <1>2 DEF BlockFence, Ask
<1>4. AuthMoves BY <1>3, AuthStays, FenceMoves DEF ActivePhases
<1>5. Settle(p, "fblock") \/ Retry(p, "fblock") \/ Leave(p) BY DEF BlockFence, Ask, Proceed
<1>6. Plainly(p)
  BY <1>1, <1>5, SettlePlain, RetryPlain, LeavePlain DEF PlainOther, FencePcs, Outside
<1> QED BY <1>1, <1>4, <1>6, PlainlyKeeps DEF Rests, Asking, HandleFine

-----------------------------------------------------------------------------
(* What happens around the calls.                                          *)
LEMMA AroundKeeps ==
    ASSUME Standing, Outside, AuthMoves, UNCHANGED <<run, call, guard>>,
           handle' \in [Procs -> HandleRecords],
           \A q \in Procs : handle'[q] = handle[q] \/ handle'[q].state # "provisional"
    PROVE  Standing'
<1>1. RunMoves("none") BY DEF RunMoves, Standing, Core, SupervisorTypes
<1>2. SupervisorTypes' /\ SupervisorInv' /\ OverInv' /\ Stays BY <1>1, MovesKeep, MovesStay
<1>3. AuthorityInv' /\ LauncherTypes' /\ CallsHold' /\ RunsForCall'
  BY DEF AuthMoves, LauncherTypes, Outside, Standing, Core, CallsHold, HoldAt, Held,
     RunsForCall, RunFor
<1>4. CallInv' BY <1>2, <1>3, StillKnows DEF CallInv, Outside
<1>5. HandleInv'
  <2> SUFFICES ASSUME NEW q \in Procs PROVE HandleAt(q)'
    BY DEF HandleInv
  <2>1. HandleAt(q) BY DEF Standing, HandleInv
  <2> QED BY <1>2, <2>1 DEF HandleAt, Stays
<1> QED BY <1>2, <1>3, <1>4, <1>5 DEF Standing, Core

LEMMA StableKeeps ==
    ASSUME Standing, Stable, UNCHANGED <<auth, exposed>>,
           \A q \in Procs : call'[q] = call[q] \/ (call'[q].pc = "idle" /\ ~call'[q].gc),
           \A q \in Procs : handle'[q] = handle[q] \/ handle'[q].state # "provisional"
    PROVE  CallInv' /\ OverInv' /\ HandleInv'
<1>1. Stays BY DEF Stable, Stays
<1>2. AuthMoves BY AuthStays
<1>3. CallInv'
  <2> SUFFICES ASSUME NEW q \in Procs PROVE CallAt(q)'
    BY DEF CallInv
  <2>1. CASE call'[q] = call[q] BY <1>1, <1>2, <2>1, StillKnows DEF AuthMoves
  <2>2. CASE call'[q].pc = "idle" /\ ~call'[q].gc BY <2>2, PlainCall
  <2> QED BY <2>1, <2>2
<1>4. OverInv'
  <2> SUFFICES ASSUME NEW a \in Attempts PROVE OverAt(a)'
    BY DEF OverInv
  <2>1. OverAt(a) BY DEF Standing, OverInv
  <2> QED BY <2>1 DEF OverAt, Stable, Gone
<1>5. HandleInv'
  <2> SUFFICES ASSUME NEW q \in Procs PROVE HandleAt(q)'
    BY DEF HandleInv
  <2>1. HandleAt(q) BY DEF Standing, HandleInv
  <2> QED BY <2>1 DEF HandleAt, Stable
<1> QED BY <1>3, <1>4, <1>5

(* The supervisor and the containers.                                      *)
LEMMA KeptKeeps ==
    ASSUME Standing, Kept, UNCHANGED launcherVars
    PROVE  Standing'
<1>1. CallInv' /\ OverInv' /\ HandleInv' BY StableKeeps DEF Kept, launcherVars
<1>2. LauncherTypes' /\ CallsHold' /\ AuthorityInv'
  BY DEF launcherVars, Standing, Core, LauncherTypes, CallsHold, HoldAt, Held, AuthorityInv,
     Gone
<1> QED BY <1>1, <1>2 DEF Kept, Standing, Core

(* A lock that is lost weakens what is known.                              *)
LEMMA LoseGuardKeeps ==
    ASSUME Standing, NEW p \in Procs, LoseGuard(p)
    PROVE  Standing'
<1>1. /\ exposed' = TRUE /\ UNCHANGED <<files, box, stray, run, starts, auth, call, handle>>
      /\ guard' = [guard EXCEPT ![call[p].lock][call[p].a] = "none"]
  BY DEF LoseGuard, supervisorVars
<1>2. SupervisorTypes' /\ LauncherTypes' /\ CallsHold' /\ RunsForCall' /\ AuthorityInv'
  BY ZenonT(60), <1>1 DEF Standing, Core, SupervisorTypes, LauncherTypes, CallsHold, HoldAt,
     Held, RunsForCall, RunFor, AuthorityInv, Gone
<1>3. BegunInv' /\ FilesInv' /\ BoxInv' /\ StrayInv'
  BY SMTT(30), <1>1 DEF Standing, Core, SupervisorInv, BegunInv, Begun, Ran, Quiet,
     LaunchRun, Has, Gone, FilesInv, FilesAt, BoxInv, BoxAt, StrayInv, StrayAt
<1>4. RunInv'
  <2>1. OneLaunch' BY <1>1 DEF Standing, Core, SupervisorInv, RunInv, OneLaunch, LaunchRun
  <2>2. ASSUME NEW q \in Procs PROVE RunAt(q)'
    <3>1. RunAt(q) BY SMTT(30) DEF Standing, Core, SupervisorInv, RunInv
    <3>2. LaunchAt(q) => LaunchAt(q)' BY SMTT(30), <1>1 DEF LaunchAt, Gone, PreStart, Has
    <3>3. ReconcileAt(q) => ReconcileAt(q)' BY <1>1 DEF ReconcileAt
    <3>4. StopAt(q) => StopAt(q)' BY <1>1 DEF StopAt, Has, StoppedDown, Gone
    <3> QED BY SMTT(30), <1>1, <3>1, <3>2, <3>3, <3>4 DEF RunAt
  <2> QED BY <2>1, <2>2 DEF RunInv
<1>5. CallInv'
  <2> SUFFICES ASSUME NEW q \in Procs PROVE CallAt(q)'
    BY DEF CallInv
  <2>1. CallAt(q) BY DEF Standing, CallInv
  <2> QED BY <1>1, <2>1 DEF CallAt, Ran, Begun, Quiet, LaunchRun, Gone, Has, StoppedDown
<1>6. OverInv' BY <1>1 DEF Standing, OverInv, OverAt, StoppedDown, Gone, Has
<1>7. HandleInv'
  BY <1>1 DEF Standing, HandleInv, HandleAt, Ran, Begun, Quiet, LaunchRun, Gone, Has
<1> QED BY <1>2, <1>3, <1>4, <1>5, <1>6, <1>7 DEF Standing, Core, SupervisorInv

(* A process dies, or the host does.                                       *)
LEMMA ForgotIsTyped ==
    NoCall \in CallRecords /\ NoHandle \in HandleRecords
  BY DEF NoCall, CallRecords, Locks, Evidence, NoHandle, HandleRecords, Routes

LEMMA CrashKeepsStanding ==
    ASSUME Standing, NEW p \in Procs, Crash(p)
    PROVE  Standing'
<1>1. /\ SupervisorDies(p) /\ UNCHANGED <<auth, exposed>>
      /\ call' = [call EXCEPT ![p] = NoCall]
      /\ handle' = [handle EXCEPT ![p] = NoHandle]
      /\ guard' = Freed(p)
      /\ run' = [run EXCEPT ![p] = NoRun]
  BY DEF Crash, SupervisorDies
<1>2. SupervisorTypes' /\ SupervisorInv' /\ Stable BY <1>1, CrashKeeps DEF Standing
<1>3. LauncherTypes BY DEF Standing, Core
<1>4. /\ call'[p] = NoCall /\ handle'[p] = NoHandle
      /\ \A q \in Procs \ {p} : call'[q] = call[q] /\ handle'[q] = handle[q] /\ run'[q] = run[q]
  BY <1>1, <1>3 DEF LauncherTypes, Standing, Core, SupervisorTypes
<1>5. \A q \in Procs \ {p}, l \in Locks, a \in Attempts : guard[l][a] = q => guard'[l][a] = q
  BY <1>1 DEF Freed
<1>6. LauncherTypes'
  <2>1. guard' \in [Locks -> [Attempts -> Procs \cup {"none"}]]
    BY <1>1, <1>3 DEF LauncherTypes, Freed
  <2> QED BY <1>1, <1>3, <2>1, ForgotIsTyped DEF LauncherTypes
<1>7. CallsHold'
  <2> SUFFICES ASSUME NEW q \in Procs PROVE HoldAt(q)'
    BY DEF CallsHold
  <2>1. CASE q = p BY <1>4, <2>1 DEF HoldAt, NoCall, LaunchPcs
  <2>2. CASE q # p
    <3>1. HoldAt(q) /\ call[q].lock \in Locks
      BY <1>3 DEF Standing, Core, CallsHold, LauncherTypes, CallRecords
    <3> QED BY <1>1, <1>4, <1>5, <2>2, <3>1 DEF HoldAt, Held
  <2> QED BY <2>1, <2>2
<1>8. RunsForCall'
  <2> SUFFICES ASSUME NEW q \in Procs PROVE RunFor(q)'
    BY DEF RunsForCall
  <2>1. CASE q = p
    <3>1. run'[p].mode = "none" /\ run'[p].pc = "idle"
      BY <1>1 DEF Standing, Core, SupervisorTypes, NoRun
    <3> QED BY <1>4, <2>1, <3>1, RestFor DEF NoCall, Asking
  <2>2. CASE q # p BY <1>4, <2>2 DEF Standing, Core, RunsForCall, RunFor
  <2> QED BY <2>1, <2>2
<1>9. AuthorityInv' BY <1>1 DEF Standing, Core, AuthorityInv, Gone
<1>10. CallInv' /\ OverInv' /\ HandleInv'
  BY <1>1, <1>2, <1>4, StableKeeps DEF NoCall, NoHandle
<1> QED BY <1>2, <1>6, <1>7, <1>8, <1>9, <1>10 DEF Standing, Core

LEMMA PowerLossKeeps ==
    ASSUME Standing, PowerLoss
    PROVE  Standing'
<1>1. /\ HostLosesPower /\ UNCHANGED <<auth, exposed>>
      /\ call' = [p \in Procs |-> NoCall]
      /\ handle' = [p \in Procs |-> NoHandle]
      /\ guard' = [l \in Locks |-> [a \in Attempts |-> "none"]]
      /\ run' = [p \in Procs |-> NoRun]
  BY DEF PowerLoss, HostLosesPower
<1>2. SupervisorTypes' /\ SupervisorInv' /\ Stable BY <1>1, PowerKeeps DEF Standing
<1>3. LauncherTypes' BY <1>1, ForgotIsTyped DEF Standing, Core, LauncherTypes
<1>4. CallsHold' BY <1>1 DEF CallsHold, HoldAt, NoCall, LaunchPcs
<1>5. RunsForCall' BY <1>1, RestFor DEF RunsForCall, NoCall, NoRun, Asking
<1>6. AuthorityInv' BY <1>1 DEF Standing, Core, AuthorityInv, Gone
<1>7. CallInv' /\ OverInv' /\ HandleInv' BY <1>1, <1>2, StableKeeps DEF NoCall, NoHandle
<1> QED BY <1>2, <1>3, <1>4, <1>5, <1>6, <1>7 DEF Standing, Core

-----------------------------------------------------------------------------
(* A call is made.                                                         *)
LEMMA EntryIsPlain ==
    ASSUME NEW kind \in Kinds
    PROVE  /\ Entry(kind) \in PlainLaunch \cup PlainOther
           /\ LockOf(kind) \in Locks
           /\ Entry(kind) \in LaunchPcs => LockOf(kind) = "launch"
  BY DEF Kinds, Entry, Stops, LockOf, Locks, PlainLaunch, PlainOther, LaunchPcs

LEMMA EnterKeeps ==
    ASSUME Standing, NEW p \in Procs, NEW kind \in Kinds, NEW a \in Attempts, Enter(p, kind, a)
    PROVE  Standing'
<1>1. /\ call[p].pc = "idle" /\ Outside /\ UNCHANGED <<run, auth>>
      /\ guard[LockOf(kind)][a] = "none"
      /\ guard' = [guard EXCEPT ![LockOf(kind)][a] = p]
  BY DEF Enter, In, Outside, supervisorVars
<1>2. LauncherTypes /\ CallsHold BY DEF Standing, Core
<1>3. PICK pc \in PlainLaunch \cup PlainOther, l \in Locks :
          pc = Entry(kind) /\ l = LockOf(kind) /\ (pc \in LaunchPcs => l = "launch")
  BY EntryIsPlain
<1>4. PICK c \in CallRecords : /\ call' = [call EXCEPT ![p] = c]
                               /\ c.pc = pc /\ c.lock = l /\ c.a = a /\ ~c.gc
  <2> DEFINE c == [NoCall EXCEPT !.pc = Entry(kind), !.kind = kind, !.lock = LockOf(kind), !.a = a]
  <2>1. call' = [call EXCEPT ![p] = c] BY DEF Enter
  <2>2. pc \in LaunchPcs \cup StopPcs \cup FencePcs \cup {"idle"}
    BY <1>3, PlainNames DEF PlainPcs, CallPcs
  <2>3. c \in CallRecords /\ c.pc = pc /\ c.lock = l /\ c.a = a /\ ~c.gc
    BY <1>3, <2>2, ForgotIsTyped DEF CallRecords, NoCall
  <2> HIDE DEF c
  <2> QED BY <2>1, <2>3
<1>5. call'[p] = c /\ call' \in [Procs -> CallRecords] /\ \A q \in Procs \ {p} : call'[q] = call[q]
  BY <1>2, <1>4 DEF LauncherTypes
<1>6. /\ guard' \in [Locks -> [Attempts -> Procs \cup {"none"}]]
      /\ guard'[l][a] = p
      /\ \A m \in Locks, b \in Attempts, q \in Procs : guard[m][b] = q => guard'[m][b] = q
  BY <1>1, <1>2, <1>3, SupervisorAssumption DEF LauncherTypes
<1>7. HoldAt(p)' BY <1>3, <1>4, <1>5, <1>6 DEF HoldAt, Held
<1>8. ASSUME NEW q \in Procs \ {p}, call[q].pc # "idle", Held(q) PROVE Held(q)'
  <2>1. call[q].lock \in Locks /\ call[q].a \in Attempts
    BY <1>2, <1>8 DEF LauncherTypes, CallRecords, CallsHold, HoldAt
  <2> QED BY <1>5, <1>6, <1>8, <2>1 DEF Held
<1>9. CallMoves(p) BY <1>5, <1>6, <1>7, <1>8 DEF CallMoves
<1>10. RunMoves(p) BY <1>1 DEF RunMoves, Standing, Core, SupervisorTypes
<1>11. RunFor(p)'
  <2>1. run'[p].mode = "none" /\ run'[p].pc = "idle"
    BY <1>1 DEF Standing, Core, RunsForCall, RunFor, ModesOf
  <2> QED BY <1>3, <1>4, <1>5, <2>1, PlainNames, RestFor DEF PlainPcs
<1>12. CallAt(p)' BY <1>3, <1>4, <1>5, PlainNames, PlainCall
<1>13. HandleMoves(p) /\ HandleAt(p)'
  <2>1. AuthMoves /\ Stays BY <1>1, <1>10, AuthStays, MovesStay
  <2>2. HandleFine(p)
    <3>1. CASE kind \in Stops
      <4>1. handle' = [handle EXCEPT ![p].route = kind] /\ handle[p] \in HandleRecords
        BY <1>2, <3>1 DEF Enter, LauncherTypes
      <4>2. /\ [handle[p] EXCEPT !.route = kind] \in HandleRecords
            /\ [handle[p] EXCEPT !.route = kind].state = handle[p].state
            /\ [handle[p] EXCEPT !.route = kind].a = handle[p].a
        BY <3>1, <4>1 DEF HandleRecords, Routes
      <4>3. handle' = [handle EXCEPT ![p] = [handle[p] EXCEPT !.route = kind]] BY <4>1
      <4> QED BY <4>2, <4>3 DEF HandleFine
    <3>2. CASE kind \notin Stops BY <3>2 DEF Enter, HandleFine
    <3> QED BY <3>1, <3>2
  <2> QED BY <2>1, <2>2, FineMoves
<1> QED BY <1>1, <1>9, <1>10, <1>11, <1>12, <1>13, AuthStays, MovesGoOn

-----------------------------------------------------------------------------
(* What the authority does without a call, and what only the capability    *)
(* and the catalogue know of.                                              *)
Aside == UNCHANGED <<files, box, stray, run, starts, guard, call, exposed>>

HandlesFine ==
    /\ handle' \in [Procs -> HandleRecords]
    /\ \A q \in Procs : handle'[q] = handle[q] \/ handle'[q].state # "provisional"

LEMMA AsideKeeps ==
    ASSUME Standing, Aside, AuthMoves, HandlesFine
    PROVE  Standing'
  BY AroundKeeps DEF Aside, Outside, HandlesFine

LEMMA HandlesSame ==
    ASSUME Standing, UNCHANGED handle
    PROVE  HandlesFine
  BY DEF HandlesFine, Standing, Core, LauncherTypes

LEMMA HandleForgotten ==
    ASSUME Standing, NEW p \in Procs, handle' = [handle EXCEPT ![p] = NoHandle]
    PROVE  HandlesFine
  BY ForgotIsTyped DEF HandlesFine, Standing, Core, LauncherTypes, NoHandle

LEMMA HandOverKeeps ==
    ASSUME Standing, NEW a \in Attempts, RestoreHandsOver(a)
    PROVE  Standing'
<1>1. Aside /\ UNCHANGED handle /\ CanReserveLaunch(a)
      /\ auth' = [LaunchReserved(a) EXCEPT !.handoff = @ \cup {a}]
  BY DEF RestoreHandsOver, Aside, supervisorVars
<1>2. auth \in AuthRecords BY DEF Standing, Core, LauncherTypes
<1>3. /\ auth' \in AuthRecords
      /\ auth'.launch[a] = "prepared"
      /\ \A b \in Attempts \ {a} : auth'.launch[b] = auth.launch[b]
      /\ auth'.stop = auth.stop /\ auth'.fence = auth.fence /\ auth'.capture = auth.capture
      /\ auth'.token = auth.token /\ auth'.gc = auth.gc
      /\ auth'.collected = auth.collected /\ auth'.pointer = auth.pointer
  BY <1>1, <1>2 DEF AuthRecords, LaunchReserved, LaunchPhases
<1>4. AuthMoves BY <1>1, <1>3, LaunchReserves
<1> QED BY <1>1, <1>4, HandlesSame, AsideKeeps

(* The operation of a capture, by its worker or inside the capability.     *)
LEMMA CaptureOperationKeeps ==
    ASSUME Standing, Aside, UNCHANGED handle, NEW a, NEW phase \in {"starting", "captured"},
           auth.capture[a] \in ActivePhases \/ (Idle /\ auth.capture[a] = "absent"),
           auth' = [auth EXCEPT !.capture[a] = phase]
    PROVE  Standing'
<1>1. CASE a \in Attempts BY <1>1, CaptureMoves, HandlesSame, AsideKeeps
<1>2. CASE a \notin Attempts
  <2>1. auth \in AuthRecords BY DEF Standing, Core, LauncherTypes
  <2>2. auth' = auth BY <1>2, <2>1 DEF AuthRecords
  <2> QED BY <2>2, AuthStays, HandlesSame, AsideKeeps
<1> QED BY <1>1, <1>2

LEMMA SnapshotKeeps ==
    ASSUME Standing, NEW p \in Procs, SnapshotBegins(p) \/ SnapshotEnds(p)
    PROVE  Standing'
<1>1. Aside /\ UNCHANGED handle BY DEF SnapshotBegins, SnapshotEnds, Aside, supervisorVars
<1>2. PICK a : a = writer[p].a
  OBVIOUS
<1>3. CASE UNCHANGED auth BY <1>1, <1>3, AuthStays, HandlesSame, AsideKeeps
<1>4. CASE SnapshotBegins(p) /\ ~UNCHANGED auth
  <2>1. Idle /\ auth.capture[a] = "absent" /\ auth' = [auth EXCEPT !.capture[a] = "starting"]
    BY <1>2, <1>4 DEF SnapshotBegins, CanCapture
  <2> QED BY <1>1, <2>1, CaptureOperationKeeps
<1>5. CASE SnapshotEnds(p) /\ ~UNCHANGED auth
  <2>1. auth.capture[a] \in ActivePhases /\ auth' = [auth EXCEPT !.capture[a] = "captured"]
    BY <1>2, <1>5 DEF SnapshotEnds, ActivePhases
  <2> QED BY <1>1, <2>1, CaptureOperationKeeps
<1> QED BY <1>3, <1>4, <1>5

LEMMA CaptureWorkerKeeps ==
    ASSUME Standing, NEW a \in Attempts, CaptureWorker(a)
    PROVE  Standing'
<1>1. Aside /\ UNCHANGED handle BY DEF CaptureWorker, Aside, supervisorVars
<1>2. /\ auth.capture[a] \in ActivePhases
      /\ \/ auth' = [auth EXCEPT !.capture[a] = "starting"]
         \/ auth' = [auth EXCEPT !.capture[a] = "captured"]
  BY DEF CaptureWorker, ActivePhases
<1> QED BY <1>1, <1>2, CaptureOperationKeeps

LEMMA CompleteCollectionKeeps ==
    ASSUME Standing, NEW a \in Attempts, CompleteCollection(a)
    PROVE  Standing'
<1>1. Aside /\ UNCHANGED handle BY DEF CompleteCollection, Aside, supervisorVars
<1>2. AuthMoves BY CollectionCompletes DEF CompleteCollection
<1> QED BY <1>1, <1>2, HandlesSame, AsideKeeps

LEMMA RetiringKeeps ==
    ASSUME Standing, NEW p \in Procs, Retire(p) \/ RetireAtomic(p)
    PROVE  Standing'
<1>1. Aside /\ UNCHANGED auth /\ (UNCHANGED handle \/ handle' = [handle EXCEPT ![p] = NoHandle])
  BY DEF Retire, RetireAtomic, Aside, supervisorVars
<1> QED BY <1>1, AuthStays, HandlesSame, HandleForgotten, AsideKeeps

LEMMA UnseenKeeps ==
    ASSUME Standing, Aside, UNCHANGED <<auth, handle>>
    PROVE  Standing'
  BY AuthStays, HandlesSame, AsideKeeps

-----------------------------------------------------------------------------
(* Every step.                                                             *)
LEMMA LauncherStepKeeps ==
    ASSUME Standing, NEW p \in Procs, LauncherStep(p)
    PROVE  Standing'
<1>1. CASE \/ Reserve(p) \/ ReadPrepared(p) \/ Claim(p) \/ Ambiguous(p)
           \/ Launched(p) \/ Finalize(p) \/ Readback(p) \/ Mark(p)
  BY <1>1, ReserveKeeps, ReadPreparedKeeps, ClaimKeeps, AmbiguousKeeps, LaunchedKeeps,
     FinalizeKeeps, ReadbackKeeps, MarkKeeps
<1>2. CASE Read(p) \/ Cancel(p) \/ MarkBeforeInquiry(p) \/ Reconciled(p)
  BY <1>2, ReadKeeps, CancelKeeps, MarkBeforeInquiryKeeps, ReconciledKeeps
<1>3. CASE \/ ReadStop(p) \/ ReserveStop(p) \/ ClaimStop(p) \/ ReadStopClaim(p) \/ DispatchStop(p)
           \/ WriterAnswered(p) \/ FinalizeStop(p) \/ ReadStopFinal(p) \/ MarkStop(p)
  BY <1>3, ReadStopKeeps, ReserveStopKeeps, ClaimStopKeeps, ReadStopClaimKeeps,
     DispatchStopKeeps, WriterAnsweredKeeps, FinalizeStopKeeps, ReadStopFinalKeeps,
     MarkStopKeeps
<1>4. CASE Consume(p) \/ Revoke(p)
  BY <1>4, UnseenKeeps DEF Consume, Revoke, Aside, supervisorVars
<1>5. CASE SnapshotBegins(p) \/ SnapshotEnds(p) \/ Retire(p)
  BY <1>5, SnapshotKeeps, RetiringKeeps
<1>6. CASE \/ ReserveFence(p) \/ ReadFence(p) \/ ClaimFence(p) \/ Fenced(p) \/ FinalizeFence(p)
           \/ BlockFence(p)
  BY <1>6, ReserveFenceKeeps, ReadFenceKeeps, ClaimFenceKeeps, FencedKeeps,
     FinalizeFenceKeeps, BlockFenceKeeps
<1> QED BY <1>1, <1>2, <1>3, <1>4, <1>5, <1>6 DEF LauncherStep

LEMMA NextKeeps ==
    ASSUME Standing, Next
    PROVE  Standing'
<1>1. ASSUME NEW p \in Procs, NEW kind \in Kinds, NEW a \in Attempts, Enter(p, kind, a)
      PROVE  Standing'
  BY <1>1, EnterKeeps
<1>2. ASSUME NEW p \in Procs, LauncherStep(p) PROVE Standing'
  BY <1>2, LauncherStepKeeps
<1>3. ASSUME NEW p \in Procs, ConfirmStop(p) PROVE Standing'
  BY <1>3, ConfirmStopKeeps
<1>4. ASSUME NEW p \in Procs, AtomicCapture(p) PROVE Standing'
  BY <1>4, UnseenKeeps DEF AtomicCapture, Aside, supervisorVars
<1>5. ASSUME NEW p \in Procs, RetireAtomic(p) PROVE Standing'
  BY <1>5, RetiringKeeps
<1>6. ASSUME NEW p \in Procs, SupervisorStep(p), UNCHANGED launcherVars PROVE Standing'
  BY <1>6, SupervisorStepKeeps, KeptKeeps DEF Standing
<1>7. ASSUME NEW p \in Procs, LoseGuard(p) \/ Crash(p) PROVE Standing'
  BY <1>7, LoseGuardKeeps, CrashKeepsStanding
<1>8. ASSUME NEW a \in Attempts, RestoreHandsOver(a) \/ CaptureWorker(a) \/ CompleteCollection(a)
      PROVE  Standing'
  BY <1>8, HandOverKeeps, CaptureWorkerKeeps, CompleteCollectionKeeps
<1>9. ASSUME NEW a \in Attempts, Collect(a) PROVE Standing'
  BY <1>9, CollectKeeps, KeptKeeps DEF Standing, Collect
<1>10. ASSUME NEW a \in Attempts, ContainerExits(a), UNCHANGED launcherVars PROVE Standing'
  BY <1>10, ExitKeeps, KeptKeeps DEF Standing
<1>11. ASSUME StrayLands, UNCHANGED launcherVars PROVE Standing'
  BY <1>11, StrayKeeps, KeptKeeps DEF Standing
<1>12. ASSUME UNCHANGED <<supervisorVars, auth, guard, call, handle, exposed>> PROVE Standing'
  BY <1>12, UnseenKeeps DEF Aside, supervisorVars
<1> QED BY <1>1, <1>2, <1>3, <1>4, <1>5, <1>6, <1>7, <1>8, <1>9, <1>10, <1>11, <1>12, PowerLossKeeps
     DEF Next

LEMMA InitStanding ==
    ASSUME Init
    PROVE  Standing
<1>0. NoRun \in RunRecords /\ NoFile \in FileRecords
  BY RevisionNumbers DEF NoRun, RunRecords, RunPcs, Modes, Bys, Results, NoFile,
     FileRecords, Pends
<1>1. SupervisorTypes BY <1>0 DEF Init, SupervisorInit, FilesInit, SupervisorTypes, Boxes
<1>2. LauncherTypes
  BY ForgotIsTyped DEF Init, LauncherTypes, AuthRecords, LaunchPhases, StopPhases,
     FencePhases, CapturePhases
<1>3. CallsHold /\ RunsForCall
  BY DEF Init, SupervisorInit, CallsHold, HoldAt, NoCall, LaunchPcs, RunsForCall, RunFor,
     ModesOf, NoRun
<1>4. AuthorityInv BY DEF Init, AuthorityInv, ActivePhases, Gone
<1>5. \A p \in Procs : run[p].mode = "none" BY DEF Init, SupervisorInit, NoRun
<1>6. /\ \A a \in Attempts : /\ auth.launch[a] = "absent" /\ auth.stop[a] = "absent"
                            /\ auth.fence[a] = "absent" /\ auth.token[a] = "none"
                            /\ box[a] = "none" /\ starts[a] = 0
                            /\ \A r \in Revisions : ~files[a][r].live /\ ~files[a][r].kept
      /\ stray = {} /\ auth.gc = {} /\ auth.collected = {}
  BY DEF Init, SupervisorInit, FilesInit, NoFile
<1>7. BegunInv BY <1>5, <1>6 DEF BegunInv
<1>8. FilesInv BY <1>6, RevisionNumbers DEF FilesInv, FilesAt, Gone
<1>9. BoxInv /\ StrayInv BY <1>6, RevisionNumbers DEF BoxInv, BoxAt, StrayInv, StrayAt
<1>10. RunInv BY <1>5 DEF RunInv, OneLaunch, LaunchRun, RunAt, StopModes
<1>11. CallInv
  <2>1. \A p \in Procs : call[p].pc = "idle" /\ ~call[p].gc BY DEF Init, NoCall
  <2> QED BY <2>1 DEF CallInv, CallAt, Dispatched
<1>12. OverInv BY <1>6 DEF OverInv, OverAt, Ended
<1>13. HandleInv BY DEF Init, HandleInv, HandleAt, NoHandle
<1> QED BY <1>1, <1>2, <1>3, <1>4, <1>7, <1>8, <1>9, <1>10, <1>11, <1>12, <1>13
     DEF Standing, Core, SupervisorInv

-----------------------------------------------------------------------------
(* The catalogue of the atomic captures.                                   *)
Catalogue == CaptureTypes /\ CatalogueInv

(* The take of one process moves, and rows and snapshots only go forward.  *)
Forward ==
    \A a \in Attempts :
        /\ row[a] # "absent" => row'[a] # "absent"
        /\ row[a] = "committed" => row'[a] = "committed"
        /\ lv[a] => lv'[a]

LEMMA TakeMoves ==
    ASSUME Catalogue, NEW p \in Procs, CaptureTypes', Forward,
           \A q \in Procs \ {p} : take'[q] = take[q],
           \A a \in Attempts : dispatched'[a] # dispatched[a] => Dispatching(p, a),
           \A a \in Attempts : Dispatching(p, a)' => Dispatching(p, a) \/ row[a] = "absent",
           TakeAt(p)', \A a \in Attempts : CaptureAt(a)'
    PROVE  Catalogue'
<1>1. ASSUME NEW q \in Procs, q # p PROVE TakeAt(q)'
  <2>1. TakeAt(q) /\ take'[q] = take[q] /\ OneDispatch BY <1>1 DEF Catalogue, CatalogueInv
  <2>2. CASE take[q].pc = "none" BY <2>1, <2>2 DEF TakeAt
  <2>3. CASE take[q].pc # "none"
    <3>1. PICK a \in Attempts : a = take[q].a /\ a = take'[q].a BY <2>1, <2>3 DEF TakeAt
    <3>2. take[q].pc \in {"consume", "create"} => dispatched'[a] = dispatched[a]
      BY <1>1, <2>1, <3>1 DEF OneDispatch, Dispatching
    <3> QED BY <2>1, <3>1, <3>2 DEF TakeAt, Forward
  <2> QED BY <2>2, <2>3
<1>2. OneDispatch'
  <2> SUFFICES ASSUME NEW q \in Procs, NEW s \in Procs, NEW a \in Attempts,
                      Dispatching(q, a)', Dispatching(s, a)'
               PROVE  q = s
    BY DEF OneDispatch
  <2>1. ASSUME NEW o \in Procs \ {p}, Dispatching(o, a)' PROVE Dispatching(o, a) /\ row[a] # "absent"
    BY <2>1 DEF Dispatching, Catalogue, CatalogueInv, TakeAt
  <2> QED BY <2>1 DEF Catalogue, CatalogueInv, OneDispatch
<1> QED BY <1>1, <1>2 DEF Catalogue, CatalogueInv

(* Nothing but the take of one process moves, to a place that dispatches   *)
(* nothing, or stays where it dispatches.                                  *)
LEMMA TakeOnly ==
    ASSUME Catalogue, NEW p \in Procs, UNCHANGED <<row, lv, dispatched, late>>,
           NEW t \in TakeRecords, take' = [take EXCEPT ![p] = t],
           t.pc # "none" => t.a \in Attempts,
           t.pc = "read" => t.sent # "none",
           t.pc \in {"consume", "create"} => t.a = take[p].a /\ take[p].pc \in {"consume", "create"},
           t.pc = "commit" \/ (t.pc = "read" /\ t.sent = "commit") => lv[t.a],
           t.pc \in {"retire", "retired"} => row[t.a] = "committed"
    PROVE  Catalogue'
<1>1. CaptureTypes' /\ take'[p] = t /\ \A q \in Procs \ {p} : take'[q] = take[q]
  BY DEF Catalogue, CaptureTypes
<1>2. TakeAt(p)' BY <1>1 DEF TakeAt, Catalogue, CatalogueInv
<1>3. \A a \in Attempts : CaptureAt(a)' BY DEF CaptureAt, Catalogue, CatalogueInv
<1>4. \A a \in Attempts : Dispatching(p, a)' => Dispatching(p, a) BY <1>1 DEF Dispatching
<1> QED BY <1>1, <1>2, <1>3, <1>4, TakeMoves DEF Forward

(* A statement that is executed, now or late.                              *)
LEMMA ExecutedMoves ==
    ASSUME Catalogue, NEW c \in Statements, NEW a \in Attempts, c = "commit" => lv[a],
           row' = Executed(c, a), UNCHANGED <<lv, dispatched>>,
           late' \subseteq late \cup {<<c, a>>}
    PROVE  /\ row' \in [Attempts -> Rows] /\ Forward /\ \A b \in Attempts : CaptureAt(b)'
           /\ c = "claim" => row'[a] # "absent"
           /\ c = "commit" => row'[a] = "committed"
<1>1. row \in [Attempts -> Rows] /\ dispatched \in [Attempts -> Nat] /\ lv \in [Attempts -> BOOLEAN]
      /\ \A b \in Attempts : CaptureAt(b)
  BY DEF Catalogue, CatalogueInv, CaptureTypes
<1>2. CASE c = "claim"
  <2>1. row' = [row EXCEPT ![a] = IF @ = "absent" THEN "starting" ELSE @]
    BY <1>2 DEF Executed, claimStarting
  <2> QED BY <1>1, <1>2, <2>1 DEF Rows, Forward, CaptureAt
<1>3. CASE c = "mark"
  <2>1. row' = [row EXCEPT ![a] = IF @ = "starting" THEN "uncertain" ELSE @]
    BY <1>3 DEF Executed, markUncertain
  <2> QED BY <1>1, <1>3, <2>1 DEF Rows, Forward, CaptureAt
<1>4. CASE c = "commit"
  <2>1. row' = [row EXCEPT ![a] = IF @ \in {"starting", "uncertain"} THEN "committed" ELSE @]
    BY <1>4 DEF Executed, commitResult
  <2>2. lv[a] /\ row[a] \in {"starting", "uncertain", "committed"}
    BY <1>1, <1>4 DEF CaptureAt, Rows
  <2> QED BY <1>1, <1>4, <2>1, <2>2 DEF Rows, Forward, CaptureAt
<1> QED BY <1>2, <1>3, <1>4 DEF Statements

LEMMA UnansweredTake ==
    ASSUME Catalogue, NEW p \in Procs, NEW known \in BOOLEAN, take[p].pc \in Statements,
           Unanswered(p, known)
    PROVE  \E t \in TakeRecords : /\ take' = [take EXCEPT ![p] = t]
                                  /\ t.pc = "read" /\ t.a = take[p].a /\ t.sent = take[p].pc
<1>1. take \in [Procs -> TakeRecords] /\ take[p] \in TakeRecords
  BY DEF Catalogue, CaptureTypes
<1>2. take[p].again \in BOOLEAN BY <1>1 DEF TakeRecords
<1>3. PICK k \in BOOLEAN : k = (known /\ ~take[p].again) BY <1>2
<1> DEFINE t == [take[p] EXCEPT !.pc = "read", !.sent = take[p].pc, !.known = k]
<1>4. take' = [take EXCEPT ![p] = t] BY <1>1, <1>3 DEF Unanswered
<1>5. t \in TakeRecords /\ t.pc = "read" /\ t.a = take[p].a /\ t.sent = take[p].pc
  BY <1>1 DEF TakeRecords, TakePcs
<1> HIDE DEF t
<1> QED BY <1>4, <1>5

LEMMA GoesTake ==
    ASSUME Catalogue, NEW p \in Procs, NEW pc \in TakePcs, Goes(p, pc)
    PROVE  \E t \in TakeRecords : /\ take' = [take EXCEPT ![p] = t]
                                  /\ t.pc = pc /\ t.a = take[p].a /\ t.sent = take[p].sent
<1>1. take \in [Procs -> TakeRecords] /\ take[p] \in TakeRecords
  BY DEF Catalogue, CaptureTypes
<1> DEFINE t == [take[p] EXCEPT !.pc = pc]
<1>2. take' = [take EXCEPT ![p] = t] BY <1>1 DEF Goes
<1>3. t \in TakeRecords /\ t.pc = pc /\ t.a = take[p].a /\ t.sent = take[p].sent
  BY <1>1 DEF TakeRecords
<1> HIDE DEF t
<1> QED BY <1>2, <1>3

LEMMA ConsumedTake ==
    ASSUME Catalogue, NEW p \in Procs, NEW pc \in TakePcs,
           NEW authority \in {"none", "issued", "resolving", "consumed", "uncertain"},
           Consumed(p, pc, authority)
    PROVE  \E t \in TakeRecords : /\ take' = [take EXCEPT ![p] = t]
                                  /\ t.pc = pc /\ t.a = take[p].a
<1>1. take \in [Procs -> TakeRecords] /\ take[p] \in TakeRecords
  BY DEF Catalogue, CaptureTypes
<1> DEFINE t == [take[p] EXCEPT !.pc = pc, !.authority = authority, !.again = FALSE]
<1>2. take' = [take EXCEPT ![p] = t] BY <1>1 DEF Consumed
<1>3. t \in TakeRecords /\ t.pc = pc /\ t.a = take[p].a BY <1>1 DEF TakeRecords
<1> HIDE DEF t
<1> QED BY <1>2, <1>3

LEMMA StatementKeeps ==
    ASSUME Catalogue, NEW p \in Procs, Statement(p)
    PROVE  Catalogue'
<1>1. PICK c \in Statements, a \in Attempts :
          c = take[p].pc /\ a = take[p].a /\ (c = "commit" => lv[a])
  BY DEF Statement, Statements, Catalogue, CatalogueInv, TakeAt
<1>2. /\ UNCHANGED <<lv, dispatched>>
      /\ \/ row' = Executed(c, a) /\ Goes(p, After(c, a)) /\ UNCHANGED late
         \/ row' \in {row, Executed(c, a)} /\ Unanswered(p, FALSE) /\ UNCHANGED late
         \/ late' = late \cup {<<c, a>>} /\ Unanswered(p, FALSE) /\ UNCHANGED row
         \/ Unanswered(p, TRUE) /\ UNCHANGED <<row, late>>
  BY <1>1 DEF Statement, MayFail
<1>3. /\ row \in [Attempts -> Rows] /\ lv \in [Attempts -> BOOLEAN]
      /\ late \in SUBSET ((Statements \cup {"create"}) \X Attempts)
      /\ take \in [Procs -> TakeRecords] /\ dispatched \in [Attempts -> Nat]
      /\ \A b \in Attempts : CaptureAt(b)
  BY DEF Catalogue, CatalogueInv, CaptureTypes
<1>4. CASE row' = Executed(c, a) /\ Goes(p, After(c, a)) /\ UNCHANGED late
  <2>1. /\ row' \in [Attempts -> Rows] /\ Forward /\ \A b \in Attempts : CaptureAt(b)'
        /\ c = "claim" => row'[a] # "absent"
        /\ c = "commit" => row'[a] = "committed"
    BY <1>1, <1>2, <1>4, ExecutedMoves
  <2>2. PICK pc \in TakePcs : /\ pc = After(c, a)
                              /\ pc \in {"consume", "verify", "retire"}
                              /\ pc = "consume" => c = "claim" /\ row[a] = "absent"
                              /\ pc = "retire" => c = "commit"
    BY <1>1 DEF After, Statements, TakePcs
  <2>3. PICK t \in TakeRecords : take' = [take EXCEPT ![p] = t] /\ t.pc = pc /\ t.a = a
    BY <1>1, <1>4, <2>2, GoesTake
  <2>4. CaptureTypes' /\ take'[p] = t /\ \A q \in Procs \ {p} : take'[q] = take[q]
    BY <1>2, <1>3, <1>4, <2>1, <2>3 DEF CaptureTypes
  <2>5. row[a] = "absent" => dispatched[a] = 0 BY <1>3 DEF CaptureAt
  <2>6. TakeAt(p)' BY <1>2, <2>1, <2>2, <2>3, <2>4, <2>5 DEF TakeAt
  <2>7. \A b \in Attempts : Dispatching(p, b)' => row[b] = "absent"
    BY <2>2, <2>3, <2>4 DEF Dispatching
  <2> QED BY <1>2, <2>1, <2>4, <2>6, <2>7, TakeMoves
<1>5. CASE row' \in {row, Executed(c, a)} /\ Unanswered(p, FALSE) /\ UNCHANGED late
  <2>1. row' \in [Attempts -> Rows] /\ Forward /\ \A b \in Attempts : CaptureAt(b)'
    <3>1. CASE row' = Executed(c, a) BY <1>1, <1>2, <1>5, <3>1, ExecutedMoves
    <3>2. CASE row' = row BY <1>2, <1>3, <1>5, <3>2 DEF Forward, CaptureAt
    <3> QED BY <1>5, <3>1, <3>2
  <2>2. PICK t \in TakeRecords : /\ take' = [take EXCEPT ![p] = t]
                                 /\ t.pc = "read" /\ t.a = a /\ t.sent = c
    BY <1>1, <1>5, UnansweredTake
  <2>3. CaptureTypes' /\ take'[p] = t /\ \A q \in Procs \ {p} : take'[q] = take[q]
    BY <1>2, <1>3, <1>5, <2>1, <2>2 DEF CaptureTypes
  <2>4. TakeAt(p)' BY <1>1, <1>2, <2>2, <2>3 DEF TakeAt, Statements
  <2>5. \A b \in Attempts : ~Dispatching(p, b)' BY <2>2, <2>3 DEF Dispatching
  <2> QED BY <1>2, <2>1, <2>3, <2>4, <2>5, TakeMoves
<1>6. CASE late' = late \cup {<<c, a>>} /\ Unanswered(p, FALSE) /\ UNCHANGED row
  <2>1. Forward /\ \A b \in Attempts : CaptureAt(b)'
    BY <1>1, <1>2, <1>3, <1>6 DEF Forward, CaptureAt, Statements
  <2>2. PICK t \in TakeRecords : /\ take' = [take EXCEPT ![p] = t]
                                 /\ t.pc = "read" /\ t.a = a /\ t.sent = c
    BY <1>1, <1>6, UnansweredTake
  <2>3. CaptureTypes' /\ take'[p] = t /\ \A q \in Procs \ {p} : take'[q] = take[q]
    BY <1>2, <1>3, <1>6, <2>2 DEF CaptureTypes
  <2>4. TakeAt(p)' BY <1>1, <1>2, <2>2, <2>3 DEF TakeAt, Statements
  <2>5. \A b \in Attempts : ~Dispatching(p, b)' BY <2>2, <2>3 DEF Dispatching
  <2> QED BY <1>2, <2>1, <2>3, <2>4, <2>5, TakeMoves
<1>7. CASE Unanswered(p, TRUE) /\ UNCHANGED <<row, late>>
  <2>1. PICK t \in TakeRecords : /\ take' = [take EXCEPT ![p] = t]
                                 /\ t.pc = "read" /\ t.a = a /\ t.sent = c
    BY <1>1, <1>7, UnansweredTake
  <2> QED BY <1>1, <1>2, <1>7, <2>1, TakeOnly DEF Statements
<1> QED BY <1>2, <1>4, <1>5, <1>6, <1>7

LEMMA ReadRowKeeps ==
    ASSUME Catalogue, NEW p \in Procs, ReadRow(p)
    PROVE  Catalogue'
<1>1. /\ take[p].pc = "read" /\ UNCHANGED <<row, lv, dispatched, late>>
      /\ take \in [Procs -> TakeRecords] /\ TakeAt(p)
  BY DEF ReadRow, Taking, Catalogue, CatalogueInv, CaptureTypes
<1>2. PICK c \in Statements, a \in Attempts :
          c = take[p].sent /\ a = take[p].a /\ (c = "commit" => lv[a])
  BY <1>1 DEF TakeAt, TakeRecords
<1>3. \/ c = "commit" /\ row[a] = "committed" /\ Goes(p, "retire")
      \/ take' = [take EXCEPT ![p].pc = c, ![p].again = TRUE]
      \/ Goes(p, "verify")
  BY <1>2 DEF ReadRow, MayFail
<1>4. CASE row[a] = "committed" /\ Goes(p, "retire")
  <2>1. PICK t \in TakeRecords : take' = [take EXCEPT ![p] = t] /\ t.pc = "retire" /\ t.a = a
    BY <1>2, <1>4, GoesTake DEF TakePcs
  <2> QED BY <1>1, <1>2, <1>4, <2>1, TakeOnly
<1>5. CASE take' = [take EXCEPT ![p].pc = c, ![p].again = TRUE]
  <2> DEFINE t == [take[p] EXCEPT !.pc = c, !.again = TRUE]
  <2>1. take' = [take EXCEPT ![p] = t] BY <1>1, <1>5
  <2>2. t \in TakeRecords /\ t.pc = c /\ t.a = a
    BY <1>1, <1>2 DEF TakeRecords, TakePcs, Statements
  <2> HIDE DEF t
  <2> QED BY <1>1, <1>2, <2>1, <2>2, TakeOnly DEF Statements
<1>6. CASE Goes(p, "verify")
  <2>1. PICK t \in TakeRecords : take' = [take EXCEPT ![p] = t] /\ t.pc = "verify" /\ t.a = a
    BY <1>2, <1>6, GoesTake DEF TakePcs
  <2> QED BY <1>1, <1>2, <2>1, TakeOnly
<1> QED BY <1>3, <1>4, <1>5, <1>6

LEMMA ResolveKeeps ==
    ASSUME Catalogue, NEW p \in Procs, ResolveAuthority(p)
    PROVE  Catalogue'
<1>1. /\ take[p].pc = "consume" /\ UNCHANGED <<row, lv, dispatched, late>>
      /\ take[p].a \in Attempts
      /\ Consumed(p, "create", "resolving") \/ Consumed(p, "mark", "uncertain")
  BY DEF ResolveAuthority, Taking, Catalogue, CatalogueInv, TakeAt
<1>2. PICK t \in TakeRecords : take' = [take EXCEPT ![p] = t] /\ t.pc \in {"create", "mark"} /\ t.a = take[p].a
  BY <1>1, ConsumedTake DEF TakePcs
<1> QED BY <1>1, <1>2, TakeOnly

LEMMA SnapshotTaken ==
    ASSUME Catalogue, NEW p \in Procs, captureSnapshot(p)
    PROVE  Catalogue'
<1>1. PICK a \in Attempts : a = take[p].a
  BY DEF captureSnapshot, Taking, Catalogue, CatalogueInv, TakeAt
<1>2. /\ take[p].pc = "create" /\ UNCHANGED row /\ row[a] # "absent" /\ dispatched[a] = 0
      /\ dispatched' = [dispatched EXCEPT ![a] = @ + 1]
  BY <1>1 DEF captureSnapshot, Taking, Catalogue, CatalogueInv, TakeAt
<1>3. \/ lv' = [lv EXCEPT ![a] = TRUE] /\ UNCHANGED late /\ \E ok \in BOOLEAN : CaptureSettled(p, ok)
      \/ UNCHANGED <<lv, late>> /\ CaptureSettled(p, FALSE)
      \/ late' = late \cup {<<"create", a>>} /\ UNCHANGED lv /\ CaptureSettled(p, FALSE)
  <2>1. lv[a] \in BOOLEAN BY DEF Catalogue, CaptureTypes
  <2> QED BY <1>1, <2>1 DEF captureSnapshot, MayFail
<1>4. PICK t \in TakeRecords : /\ take' = [take EXCEPT ![p] = t]
                               /\ t.pc \in {"commit", "mark"} /\ t.a = a
                               /\ t.pc = "commit" => lv' = [lv EXCEPT ![a] = TRUE]
  <2>1. Consumed(p, "commit", "consumed") \/ Consumed(p, "mark", "uncertain")
    BY <1>3 DEF CaptureSettled
  <2>2. CASE Consumed(p, "mark", "uncertain") BY <1>1, <2>2, ConsumedTake DEF TakePcs
  <2>3. CASE Consumed(p, "commit", "consumed") /\ lv' = [lv EXCEPT ![a] = TRUE]
    BY <1>1, <2>3, ConsumedTake DEF TakePcs
  <2> QED BY <1>3, <2>1, <2>2, <2>3 DEF CaptureSettled
<1>5. /\ lv \in [Attempts -> BOOLEAN] /\ dispatched \in [Attempts -> Nat]
      /\ late \in SUBSET ((Statements \cup {"create"}) \X Attempts)
      /\ take \in [Procs -> TakeRecords] /\ row \in [Attempts -> Rows]
      /\ \A b \in Attempts : CaptureAt(b)
  BY DEF Catalogue, CatalogueInv, CaptureTypes
<1>6. /\ dispatched' \in [Attempts -> Nat] /\ dispatched'[a] = 1
      /\ \A b \in Attempts \ {a} : dispatched'[b] = dispatched[b]
  BY <1>2, <1>5
<1>7. /\ lv' \in [Attempts -> BOOLEAN]
      /\ \A b \in Attempts \ {a} : lv'[b] = lv[b]
      /\ lv[a] => lv'[a]
      /\ t.pc = "commit" => lv'[a]
  BY <1>3, <1>4, <1>5
<1>8. /\ late' \in SUBSET ((Statements \cup {"create"}) \X Attempts)
      /\ \A b \in Attempts \ {a} : <<"create", b>> \in late' => <<"create", b>> \in late
      /\ \A b \in Attempts : <<"commit", b>> \in late' => <<"commit", b>> \in late
  <2>1. CASE UNCHANGED late BY <2>1, <1>5
  <2>2. CASE late' = late \cup {<<"create", a>>}
    <3>1. <<"create", a>> \in (Statements \cup {"create"}) \X Attempts
      OBVIOUS
    <3>2. late' \in SUBSET ((Statements \cup {"create"}) \X Attempts) BY <2>2, <3>1, <1>5
    <3>3. ASSUME NEW b \in Attempts \ {a}, <<"create", b>> \in late' PROVE <<"create", b>> \in late
      BY <2>2, <3>3
    <3>4. ASSUME NEW b \in Attempts, <<"commit", b>> \in late' PROVE <<"commit", b>> \in late
      BY <2>2, <3>4
    <3> QED BY <3>2, <3>3, <3>4
  <2> QED BY <1>3, <2>1, <2>2
<1>9. CaptureTypes' /\ Forward /\ take'[p] = t /\ \A q \in Procs \ {p} : take'[q] = take[q]
  BY <1>2, <1>4, <1>5, <1>6, <1>7, <1>8 DEF CaptureTypes, Forward
<1>10. ASSUME NEW b \in Attempts PROVE CaptureAt(b)'
  <2>1. CASE b = a BY <2>1, <1>2, <1>5, <1>6, <1>7, <1>8 DEF CaptureAt
  <2>2. CASE b # a BY <2>2, <1>2, <1>5, <1>6, <1>7, <1>8 DEF CaptureAt
  <2> QED BY <2>1, <2>2
<1>11. TakeAt(p)' BY <1>4, <1>7, <1>9 DEF TakeAt
<1>12. \A b \in Attempts : ~Dispatching(p, b)' /\ (dispatched'[b] # dispatched[b] => Dispatching(p, b))
  BY <1>1, <1>2, <1>4, <1>6, <1>9 DEF Dispatching
<1> QED BY <1>9, <1>10, <1>11, <1>12, TakeMoves

LEMMA VerifyTakeKeeps ==
    ASSUME Catalogue, NEW p \in Procs, verifyCommitted(p) \/ reconcileCapture(p)
    PROVE  Catalogue'
<1>1. /\ take[p].pc # "none" /\ take[p].a \in Attempts /\ UNCHANGED <<row, lv, dispatched, late>>
  BY DEF verifyCommitted, reconcileCapture, Taking, Catalogue, CatalogueInv, TakeAt
<1>2. \/ row[take[p].a] = "committed" /\ Goes(p, "retire")
      \/ Goes(p, "verify") \/ Goes(p, "uncertain")
  BY DEF verifyCommitted, reconcileCapture, MayFail, Verified
<1>3. PICK t \in TakeRecords : /\ take' = [take EXCEPT ![p] = t] /\ t.a = take[p].a
                               /\ t.pc \in {"retire", "verify", "uncertain"}
                               /\ t.pc = "retire" => row[take[p].a] = "committed"
  BY <1>2, GoesTake DEF TakePcs
<1> QED BY <1>1, <1>3, TakeOnly

LEMMA RetireTakeKeeps ==
    ASSUME Catalogue, NEW p \in Procs, retireAttempt(p)
    PROVE  Catalogue'
<1>1. /\ take[p].pc = "retire" /\ take[p].a \in Attempts /\ row[take[p].a] = "committed"
      /\ UNCHANGED <<row, lv, dispatched, late>>
      /\ Goes(p, "retired") \/ Goes(p, "retirement-uncertain")
  BY DEF retireAttempt, Taking, Catalogue, CatalogueInv, TakeAt
<1>2. PICK t \in TakeRecords : /\ take' = [take EXCEPT ![p] = t] /\ t.a = take[p].a
                               /\ t.pc \in {"retired", "retirement-uncertain"}
  BY <1>1, GoesTake DEF TakePcs
<1> QED BY <1>1, <1>2, TakeOnly

LEMMA TakeBegins ==
    ASSUME Catalogue, NEW p \in Procs, NEW a \in Attempts, CaptureBegins(p, a),
           UNCHANGED <<row, lv, dispatched, late>>
    PROVE  Catalogue'
<1>1. PICK t \in TakeRecords : take' = [take EXCEPT ![p] = t] /\ t.pc = "claim" /\ t.a = a
  <2> DEFINE t == [NoTake EXCEPT !.pc = "claim", !.a = a, !.authority = "issued"]
  <2>1. t \in TakeRecords /\ t.pc = "claim" /\ t.a = a BY DEF NoTake, TakeRecords, TakePcs
  <2>2. take' = [take EXCEPT ![p] = t] BY DEF CaptureBegins
  <2> HIDE DEF t
  <2> QED BY <2>1, <2>2
<1> QED BY <1>1, TakeOnly

LEMMA LateKeeps ==
    ASSUME Catalogue, LateLands
    PROVE  Catalogue'
<1>1. PICK x \in late : /\ late' = late \ {x}
                        /\ row' = (IF x[1] = "create" THEN row ELSE Executed(x[1], x[2]))
                        /\ lv' = (IF x[1] = "create" THEN [lv EXCEPT ![x[2]] = TRUE] ELSE lv)
                        /\ UNCHANGED <<dispatched, take>>
  BY DEF LateLands
<1>2. /\ row \in [Attempts -> Rows] /\ lv \in [Attempts -> BOOLEAN]
      /\ late \in SUBSET ((Statements \cup {"create"}) \X Attempts)
      /\ \A b \in Attempts : CaptureAt(b)
  BY DEF Catalogue, CatalogueInv, CaptureTypes
<1>3. PICK c \in Statements \cup {"create"}, a \in Attempts : x = <<c, a>> BY <1>2
<1>4. /\ row' \in [Attempts -> Rows] /\ lv' \in [Attempts -> BOOLEAN]
      /\ Forward /\ \A b \in Attempts : CaptureAt(b)'
  <2>1. CASE c = "create"
    <3>1. UNCHANGED row /\ lv' = [lv EXCEPT ![a] = TRUE] /\ dispatched[a] = 1
      BY <1>1, <1>2, <1>3, <2>1 DEF CaptureAt
    <3> QED BY <1>1, <1>2, <3>1 DEF Forward, CaptureAt
  <2>2. CASE c \in Statements
    <3>1. c # "create" BY <2>2 DEF Statements
    <3>2. row' = Executed(c, a) /\ UNCHANGED lv /\ (c = "commit" => lv[a]) /\ late' \subseteq late
      BY <1>1, <1>2, <1>3, <3>1 DEF CaptureAt
    <3> QED BY <1>1, <1>2, <2>2, <3>2, ExecutedMoves
  <2> QED BY <2>1, <2>2
<1>5. CaptureTypes' BY <1>1, <1>2, <1>4 DEF Catalogue, CaptureTypes
<1>6. ASSUME NEW q \in Procs PROVE TakeAt(q)'
  <2>1. TakeAt(q) BY DEF Catalogue, CatalogueInv
  <2> QED BY <1>1, <1>4, <2>1 DEF TakeAt, Forward
<1>7. OneDispatch' BY <1>1 DEF Catalogue, CatalogueInv, OneDispatch, Dispatching
<1> QED BY <1>4, <1>5, <1>6, <1>7 DEF Catalogue, CatalogueInv

LEMMA ForgottenTake ==
    NoTake \in TakeRecords
  BY DEF NoTake, TakeRecords, TakePcs

LEMMA TakeDies ==
    ASSUME Catalogue, NEW p \in Procs, CaptureDies(p)
    PROVE  Catalogue'
<1>1. /\ take' = [take EXCEPT ![p] = NoTake] /\ UNCHANGED <<row, lv>>
      /\ take \in [Procs -> TakeRecords] /\ TakeAt(p)
      /\ \A b \in Attempts : CaptureAt(b)
  BY DEF CaptureDies, Catalogue, CatalogueInv, CaptureTypes
<1>2. CASE late' = late BY <1>1, <1>2, ForgottenTake, TakeOnly DEF CaptureDies, NoTake
<1>3. CASE late' # late
  <2>1. PICK c \in Statements \cup {"create"}, a \in Attempts :
            c = take[p].pc /\ a = take[p].a /\ late' = late \cup {<<c, a>>}
    BY <1>1, <1>3 DEF CaptureDies, TakeAt, Statements
  <2>2. /\ dispatched' = (IF c = "create" THEN [dispatched EXCEPT ![a] = @ + 1] ELSE dispatched)
        /\ c = "create" => dispatched[a] = 0 /\ row[a] # "absent"
        /\ c = "commit" => lv[a]
    BY <1>1, <1>3, <2>1 DEF CaptureDies, Taking, TakeAt, Statements
  <2>3. dispatched \in [Attempts -> Nat] /\ late \in SUBSET ((Statements \cup {"create"}) \X Attempts)
    BY DEF Catalogue, CaptureTypes
  <2>4. /\ dispatched' \in [Attempts -> Nat]
        /\ c = "create" => dispatched'[a] = 1
        /\ \A b \in Attempts : dispatched'[b] # dispatched[b] => b = a /\ c = "create"
    BY <2>2, <2>3
  <2>5. CaptureTypes' /\ take'[p] = NoTake /\ \A q \in Procs \ {p} : take'[q] = take[q]
    BY <1>1, <2>1, <2>3, <2>4, ForgottenTake DEF Catalogue, CaptureTypes
  <2>6. ASSUME NEW b \in Attempts PROVE CaptureAt(b)'
    <3>1. CASE b = a BY <3>1, <1>1, <2>1, <2>2, <2>4 DEF CaptureAt, Statements
    <3>2. CASE b # a BY <3>2, <1>1, <2>1, <2>4 DEF CaptureAt
    <3> QED BY <3>1, <3>2
  <2>7. TakeAt(p)' /\ \A b \in Attempts : ~Dispatching(p, b)'
    BY <2>5 DEF TakeAt, NoTake, Dispatching
  <2>8. \A b \in Attempts : dispatched'[b] # dispatched[b] => Dispatching(p, b)
    BY <2>1, <2>4 DEF Dispatching
  <2> QED BY <1>1, <2>5, <2>6, <2>7, <2>8, TakeMoves DEF Forward
<1> QED BY <1>2, <1>3

LEMMA HostDies ==
    ASSUME Catalogue, HostLosesCaptures
    PROVE  Catalogue'
<1>1. /\ take' = [p \in Procs |-> NoTake] /\ late' \subseteq late /\ UNCHANGED <<row, lv, dispatched>>
  BY DEF HostLosesCaptures
<1>2. CaptureTypes' BY <1>1, ForgottenTake DEF Catalogue, CaptureTypes
<1>3. \A p \in Procs : TakeAt(p)' /\ \A b \in Attempts : ~Dispatching(p, b)'
  BY <1>1 DEF TakeAt, NoTake, Dispatching
<1>4. \A b \in Attempts : CaptureAt(b)' BY <1>1 DEF Catalogue, CatalogueInv, CaptureAt
<1> QED BY <1>2, <1>3, <1>4 DEF Catalogue, CatalogueInv, OneDispatch

LEMMA CatalogueSame ==
    ASSUME Catalogue, UNCHANGED captureVars
    PROVE  Catalogue'
<1>1. UNCHANGED <<row, lv, dispatched, late, take>> BY DEF captureVars
<1>2. CaptureTypes' /\ OneDispatch'
  BY <1>1 DEF Catalogue, CatalogueInv, CaptureTypes, OneDispatch, Dispatching
<1>3. \A p \in Procs : TakeAt(p)' BY <1>1 DEF Catalogue, CatalogueInv, TakeAt
<1>4. \A a \in Attempts : CaptureAt(a)' BY <1>1 DEF Catalogue, CatalogueInv, CaptureAt
<1> QED BY <1>2, <1>3, <1>4 DEF Catalogue, CatalogueInv

LEMMA CatalogueKeeps ==
    ASSUME Standing, Catalogue, [Next]_vars
    PROVE  Catalogue'
<1>1. ASSUME NEW p \in Procs, ConfirmStop(p) PROVE Catalogue'
  <2>1. UNCHANGED <<row, lv, dispatched, late>>
        /\ (UNCHANGED take \/ (call[p].pc = "sconfirm" /\ CaptureBegins(p, call[p].a)))
    BY <1>1 DEF ConfirmStop, In
  <2>2. CASE UNCHANGED take BY <2>1, <2>2, CatalogueSame DEF captureVars
  <2>3. CASE call[p].pc = "sconfirm" /\ CaptureBegins(p, call[p].a)
    BY <2>1, <2>3, CallIsFor, TakeBegins
  <2> QED BY <2>1, <2>2, <2>3
<1>2. ASSUME NEW p \in Procs, AtomicCapture(p) PROVE Catalogue'
  BY <1>2, StatementKeeps, ReadRowKeeps, ResolveKeeps, SnapshotTaken, VerifyTakeKeeps DEF
     AtomicCapture, CaptureStep
<1>3. ASSUME NEW p \in Procs, RetireAtomic(p) PROVE Catalogue'
  BY <1>3, RetireTakeKeeps DEF RetireAtomic
<1>4. ASSUME NEW p \in Procs, Crash(p) PROVE Catalogue'
  BY SMTT(30), <1>4, TakeDies DEF Crash
<1>5. ASSUME UNCHANGED captureVars PROVE Catalogue'
  BY SMTT(30), <1>5, CatalogueSame
<1>6. ASSUME PowerLoss PROVE Catalogue'
  BY SMTT(30), <1>6, HostDies DEF PowerLoss
<1>7. \/ UNCHANGED captureVars
      \/ LateLands \/ PowerLoss
      \/ \E p \in Procs : ConfirmStop(p) \/ AtomicCapture(p) \/ RetireAtomic(p) \/ Crash(p)
  BY DEF Next, vars, launcherVars, Enter, LoseGuard, RestoreHandsOver, CaptureWorker,
     Collect, CompleteCollection
<1> QED BY <1>1, <1>2, <1>3, <1>4, <1>5, <1>6, <1>7, LateKeeps

LEMMA InitCatalogue ==
    ASSUME Init
    PROVE  Catalogue
<1>1. /\ row = [a \in Attempts |-> "absent"] /\ lv = [a \in Attempts |-> FALSE]
      /\ dispatched = [a \in Attempts |-> 0] /\ late = {} /\ take = [p \in Procs |-> NoTake]
  BY DEF Init, CaptureInit
<1>2. CaptureTypes BY <1>1, ForgottenTake DEF CaptureTypes, Rows
<1> QED BY <1>1, <1>2 DEF Catalogue, CatalogueInv, TakeAt, OneDispatch, Dispatching, CaptureAt, NoTake

-----------------------------------------------------------------------------
(* What the invariant says of the writers.                                 *)
LEMMA StutterStands ==
    ASSUME Standing, UNCHANGED vars
    PROVE  Standing'
  BY UnseenKeeps DEF vars, supervisorVars, Aside

(* A container that runs is that of a launch that is under way, or of the  *)
(* writer that the session points to.                                      *)
LEMMA RunningIs ==
    ASSUME Standing, ~exposed, NEW a \in Attempts, box[a] = "running"
    PROVE  auth.launch[a] \in {"starting", "uncertain"} \/ auth.pointer = a
<1>1. Begun(a) /\ ~Gone(a) /\ ~Dead(a) /\ ~StoppedDown(a) /\ auth.launch[a] \in LaunchPhases
  BY DEF Standing, Core, SupervisorInv, BegunInv, BoxInv, BoxAt, Dead, StoppedDown,
     LauncherTypes, AuthRecords
<1>2. OverAt(a) /\ AuthorityInv BY DEF Standing, Core, OverInv
<1>3. auth.stop[a] # "stopped" /\ auth.fence[a] # "fenced" /\ auth.launch[a] \notin Ended
  BY <1>1, <1>2 DEF OverAt
<1> QED BY <1>1, <1>2, <1>3 DEF AuthorityInv, Begun, LaunchPhases

LEMMA OverIsDeadHolds ==
    ASSUME Standing
    PROVE  OverIsDead
<1> SUFFICES ASSUME ~exposed
             PROVE  /\ \A a \in Attempts : Over(a) => box[a] # "running"
                    /\ \A a, b \in Running : a = b
  BY DEF OverIsDead
<1>1. AuthorityInv /\ OverInv /\ BoxInv BY DEF Standing, Core, SupervisorInv
<1>2. ASSUME NEW a \in Attempts, Over(a) PROVE box[a] # "running"
  <2>1. OverAt(a) /\ BoxAt(a) BY <1>1 DEF OverInv, BoxInv
  <2>2. CASE auth.launch[a] \in Ended BY <2>1, <2>2 DEF OverAt, Dead
  <2>3. CASE auth.stop[a] = "stopped" BY <2>1, <2>3 DEF OverAt, BoxAt
  <2>4. CASE auth.fence[a] = "fenced" BY <2>1, <2>4 DEF OverAt, StoppedDown
  <2> QED BY <1>2, <2>2, <2>3, <2>4 DEF Over
<1>3. ASSUME NEW a \in Running, NEW b \in Running PROVE a = b
  <2>1. \A x \in {a, b} : auth.launch[x] \in {"starting", "uncertain"} \/ auth.pointer = x
    BY RunningIs DEF Running
  <2>2. a \in Attempts /\ b \in Attempts BY DEF Running
  <2> QED BY <1>1, <2>1, <2>2, AttemptsAssumption DEF AuthorityInv, ActivePhases
<1> QED BY <1>2, <1>3

LEMMA EffectsHold ==
    ASSUME Standing
    PROVE  EffectsAreRecorded
<1> SUFFICES ASSUME NEW a \in Attempts
             PROVE  LET kept == {r \in Revisions : files[a][r].kept} IN
                    /\ starts[a] <= 1
                    /\ box[a] # "none" /\ a \notin auth.gc => Preparing \in kept
                    /\ a \in auth.collected => box[a] = "none" /\ kept = {}
                    /\ box[a] \in {"running", "exited"} => {Preparing, Created} \subseteq kept
                    /\ ~exposed /\ (auth.stop[a] = "stopped" \/ auth.fence[a] = "fenced") =>
                          box[a] = "none" /\ (Stopped \in kept \/ Chain(a) = {})
  BY DEF EffectsAreRecorded
<1> DEFINE kept == {r \in Revisions : files[a][r].kept}
<1>1. BoxAt(a) /\ FilesAt(a) /\ OverAt(a) /\ AuthorityInv
  BY DEF Standing, Core, SupervisorInv, BoxInv, FilesInv, OverInv
<1>2. \A r \in Revisions : Has(a, r) => r \in kept BY DEF Has
<1>3. starts[a] <= 1 BY <1>1 DEF BoxAt
<1>4. box[a] # "none" => Preparing \in kept BY <1>1, <1>2, RevisionNumbers DEF BoxAt
<1>5. a \in auth.collected => box[a] = "none" /\ kept = {} BY <1>1 DEF BoxAt, FilesAt, Gone
<1>6. box[a] \in {"running", "exited"} => {Preparing, Created} \subseteq kept
  BY <1>1, <1>2, RevisionNumbers DEF BoxAt
<1>7. ASSUME auth.stop[a] = "stopped" \/ auth.fence[a] = "fenced"
      PROVE  box[a] = "none" /\ (Stopped \in kept \/ Chain(a) = {})
  <2>1. CASE auth.fence[a] = "fenced"
    BY <1>1, <1>2, <2>1, RevisionNumbers DEF OverAt, StoppedDown
  <2>2. CASE auth.stop[a] = "stopped"
    <3>1. Gone(a) /\ box[a] = "none" BY <1>1, <2>2 DEF OverAt, BoxAt
    <3>2. CASE a \in auth.collected BY <1>1, <3>1, <3>2 DEF FilesAt, Chain
    <3>3. CASE a \in auth.gc
      <4>1. Stopped \in Revisions /\ \A r \in Revisions : files[a][r].live => files[a][r].kept
        BY <1>1, <3>3, RevisionNumbers DEF FilesAt
      <4>2. \A r \in Revisions : files[a][r].kept /\ r # Stopped => Stopped \in kept
        BY <1>1, <3>3, <4>1 DEF FilesAt, Has
      <4>3. Chain(a) # {} => Stopped \in kept BY <4>1, <4>2 DEF Chain
      <4> QED BY <3>1, <4>3
    <3> QED BY <3>1, <3>2, <3>3 DEF Gone
  <2> QED BY <1>7, <2>1, <2>2
<1> QED BY <1>3, <1>4, <1>5, <1>6, <1>7

LEMMA SnapshotHolds ==
    ASSUME Standing, Catalogue
    PROVE  SnapshotOfStopped
<1>1. ASSUME ~exposed, NEW a \in Attempts, auth.capture[a] = "starting" PROVE Running = {}
  <2> SUFFICES ASSUME NEW b \in Attempts, box[b] = "running" PROVE FALSE
    BY DEF Running
  <2>1. AuthorityInv BY DEF Standing, Core
  <2>2. auth.launch[b] \notin ActivePhases /\ auth.pointer = "none"
    BY <1>1, <2>1 DEF AuthorityInv, ActivePhases
  <2> QED BY <1>1, <2>2, RunningIs, AttemptsAssumption DEF ActivePhases
<1>2. CrashCaptureIsReal
  <2>1. ASSUME NEW a \in Attempts
        PROVE  dispatched[a] <= 1 /\ (row[a] = "committed" => lv[a] /\ dispatched[a] = 1)
    <3>1. CaptureAt(a) BY DEF Catalogue, CatalogueInv
    <3> QED BY <3>1 DEF CaptureAt
  <2>2. ASSUME NEW p \in Procs, take[p].pc \in {"retire", "retired"}
        PROVE  row[take[p].a] = "committed"
    BY <2>2 DEF Catalogue, CatalogueInv, TakeAt
  <2> QED BY <2>1, <2>2 DEF CrashCaptureIsReal
<1> QED BY <1>1, <1>2 DEF SnapshotOfStopped

-----------------------------------------------------------------------------
(* The state of the supervisor, of the authority's operations, of the      *)
(* calls and of the catalogue stays within its types, and everything that  *)
(* each call remembers across a lost answer is still so when it uses it    *)
(* (reconcileWithinGuard, stopWriterForCapture, recoverOrBlock).           *)
THEOREM LauncherInvariant == Spec => []LauncherInv
<1>1. Init => Standing /\ Catalogue BY InitStanding, InitCatalogue
<1>2. (Standing /\ Catalogue) /\ [Next]_vars => (Standing /\ Catalogue)'
  BY NextKeeps, StutterStands, CatalogueKeeps
<1>3. Standing /\ Catalogue => LauncherInv BY DEF Standing, Core, Catalogue, LauncherInv
<1> QED BY <1>1, <1>2, <1>3, PTL DEF Spec

LEMMA InvariantParts ==
    LauncherInv => Standing /\ Catalogue
  BY DEF Standing, Core, Catalogue, LauncherInv

(* What the authority records as over does not run and will not, and never *)
(* do two writers of the session run, as long as no call outlives its      *)
(* advisory lock (reconcileWithinGuard, proveNoStoppedContainer).          *)
THEOREM OverIsAlwaysDead == Spec => []OverIsDead
<1>1. LauncherInv => OverIsDead BY InvariantParts, OverIsDeadHolds
<1> QED BY <1>1, LauncherInvariant, PTL

(* A container exists and was started only as durable records say, is      *)
(* forgotten with a durable terminal record, never comes back once it was  *)
(* collected, and is never started twice, with or without the lock         *)
(* (writeExclusive, launchWriter, collect).                                *)
THEOREM EffectsAreAlwaysRecorded == Spec => []EffectsAreRecorded
<1>1. LauncherInv => EffectsAreRecorded BY InvariantParts, EffectsHold
<1> QED BY <1>1, LauncherInvariant, PTL

(* No writer of the session runs while a snapshot of it is taken, and      *)
(* every atomic crash capture is dispatched once and committed only for a  *)
(* snapshot that exists (consumeCapability, captureAtomicCrashCheckpoint). *)
THEOREM SnapshotIsOfStopped == Spec => []SnapshotOfStopped
<1>1. LauncherInv => SnapshotOfStopped BY InvariantParts, SnapshotHolds
<1> QED BY <1>1, LauncherInvariant, PTL
====
