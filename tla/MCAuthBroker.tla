---------------------------- MODULE MCAuthBroker ----------------------------
(* One process with two worker connections (auth_workers), or two broker   *)
(* processes (auth_race) in one of two settings, chosen at the start: a    *)
(* login against a refresher of the other process and an administrator, or *)
(* a worker that joins a refresh of its process started for an older token.*)
EXTENDS AuthBroker

CONSTANTS
    p1, p2, worker1, worker2, login, starter, refresher,
    Settings

VARIABLE setting    \* one of Settings

MCHome == [c \in Callers |-> IF c = refresher THEN p2 ELSE p1]

MCRequests == [c \in Callers |->
                 CASE c = login -> {"login"}
                   [] c \in {starter, refresher} -> {"refresh"}
                   [] OTHER -> {"login", "worker"}]

(* Who calls, and how often the administrator does. *)
MCCallers == CASE setting = "workers" -> {worker1, worker2}
               [] setting = "installs" -> {login, refresher}
               [] setting = "joins" -> {worker1, starter, refresher}

InSetting ==
    /\ \A c \in Callers \ MCCallers : call'[c] = IdleCall
    /\ setting = "joins" => adminCalls' <= 1 /\ nextToken' <= 3

MCInit == Init /\ setting \in Settings

MCNext == Next /\ InSetting /\ UNCHANGED setting

MCSpec == MCInit /\ [][MCNext]_<<vars, setting>> /\ Fairness
=============================================================================
