------------------------------- MODULE MCRestore -------------------------------
(***************************************************************************)
(* The life of a restored session: a checkpoint of one writer, its restore  *)
(* under a later epoch, launch, stop, detach and activation.  Every         *)
(* identifier is meant for one part of that life, so that the histories     *)
(* are long while the choices stay few.                                     *)
(***************************************************************************)
EXTENDS SessionAuthority

CONSTANTS a1, c1, d1, a2, g1, l1, s1, c2, d2, v1, l2

RestoreIds == {a1, c1, d1, a2, g1, l1, s1, c2, d2, v1, l2}

Acquire == {<<"writer-attachment-acquire", 1>>}
Capture == {<<"checkpoint-capture", 1>>}
Detach == {<<"writer-release", 1>>}
Fence == {<<"writer-force-fence", 1>>}
Generation == {<<"restore-generation", 1>>, <<"restore-generation", 2>>}
Launch == {<<"writer-launch-attempt", 1>>}
Stop == {<<"writer-launch-stop", 2>>, <<"writer-launch-stop", 3>>}
Activation == {<<"restore-activation", 1>>, <<"restore-activation", 2>>}

RestoreOffers ==
    [i \in RestoreIds |->
        CASE i = a1 -> Acquire
          [] i = a2 -> Acquire
          [] i = c1 -> Capture
          [] i = c2 -> Capture
          [] i = d1 -> Detach
          [] i = d2 -> Detach \cup Fence
          [] i = g1 -> Generation
          [] i = l1 -> Launch
          [] i = l2 -> Launch
          [] i = s1 -> Stop
          [] i = v1 -> Activation]

Rank ==
    [i \in RestoreIds |->
        CASE i = a1 -> 1 [] i = c1 -> 2 [] i = d1 -> 3 [] i = a2 -> 4
          [] i = g1 -> 5 [] i = l1 -> 6 [] i = s1 -> 7 [] i = c2 -> 8
          [] i = d2 -> 9 [] i = v1 -> 10 [] i = l2 -> 11]

\* Operations happen in the order of their part in that life, each of them or
\* not at all, and the first writer's part goes well.
LifeInOrder ==
    LET used == {i \in RestoreIds : ops[i].state # "absent"} IN
    /\ \A i, j \in used :
         Rank[i] < Rank[j] => ops[i].expected.revision < ops[j].expected.revision
    /\ \A i \in used \cap {a1, c1, d1, a2} :
         ops[i].state # "uncertain" /\ ~ Cancelled(ops[i])
    /\ leaseExpired => session.epoch > 1

\* Another session takes the identifier a restore keeps for its launch, a
\* stable plan keeps the restore's own, and the session may end in a fence that
\* hands over to an atomic crash capture.
ContendedOffers ==
    [RestoreOffers EXCEPT ![l1] = @ \cup {<<"foreign", 1>>},
                          ![g1] = @ \cup {<<"stable-plan", 1>>},
                          ![d2] = @ \cup {<<"writer-force-fence", 2>>},
                          ![v1] = @ \cup {<<"atomic-crash-capture", 1>>}]

AnyFleet == GatedContracts \cup {<<"generation-predecessor", 2>>}

Careful == Promises

================================================================================
