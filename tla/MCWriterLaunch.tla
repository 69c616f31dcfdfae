--------------------------- MODULE MCWriterLaunch ---------------------------
(* Two processes and one attempt with every call; after it a second one    *)
(* that is launched.                                                       *)
EXTENDS LogicalWriterLauncher, TLC

CONSTANTS first, second

MCEpoch == [a \in Attempts |-> IF a = first THEN 1 ELSE 2]
MCCalls == [a \in Attempts |-> IF a = first THEN Kinds ELSE {"launch"}]

Symmetric == Permutations(Procs)
=============================================================================
