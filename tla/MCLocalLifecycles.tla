------------------------- MODULE MCLocalLifecycles -------------------------
(* What lives and dies with a process, two parts that share no state: two  *)
(* processes that refresh an authority home, or a detached-restore         *)
(* deployment.  In the one deployment a call and the recovery step use the *)
(* storage and the collector, in the other two calls use one reservation.  *)
EXTENDS ManagedAuthRefresh, RestoreDeployment

CONSTANTS front, back

MCWorks == {front, back, RecoveryStep}

Uses(first, second, step) ==
    [w \in MCWorks |-> CASE w = front -> first [] w = back -> second
                         [] OTHER -> step]

MCDeployments ==
    {Uses({"storage"}, {}, {"storage", "collector"}),
     Uses({"image"}, {"image"}, {})}

VARIABLE part

allVars == <<part, vars, lifeVars>>

MCInit ==
    /\ part \in {"refresh", "deployment"}
    /\ Init /\ LifecycleInit
    /\ part = "refresh" => reach[front] = {"storage"}

MCNext ==
    \/ part = "refresh" /\ Next /\ UNCHANGED <<part, lifeVars>>
    \/ part = "deployment" /\ LifecycleNext /\ UNCHANGED <<part, vars>>

MCSpec == MCInit /\ [][MCNext]_allVars /\ WF_lifeVars(Progress)
=============================================================================
