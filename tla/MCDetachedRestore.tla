-------------------------- MODULE MCDetachedRestore --------------------------
(* Alone with the session one process restores and the other does it all;  *)
(* between two sessions that wait for recovery both of them recover.       *)
EXTENDS DetachedRestore

CONSTANTS front, back

Deploy(first, second, neighbours) ==
    [calls |-> [w \in Workers |-> IF w = front THEN first ELSE second],
     neighbours |-> neighbours]

MCDeployments ==
    {Deploy({"restore"}, CallKinds, {}),
     Deploy({"restore", "recover"}, {"captures", "recover"}, Neighbours)}
=============================================================================
