------------------------- MODULE AtomicPublication -------------------------
(***************************************************************************)
(* What publication promises: for each operation one tree is chosen, once,  *)
(* and at most one operation's chosen tree is published under the final      *)
(* name, entirely and for good.                                              *)
(***************************************************************************)
CONSTANTS Ops, Trees, None

VARIABLES chosen,    \* chosen[o]: the tree operation o will publish
          published  \* the operation whose tree has the final name

Init == chosen = [o \in Ops |-> None] /\ published = None

\* Several choices can become durable in one loss of power.
Choose ==
    /\ chosen' \in [Ops -> Trees \cup {None}]
    /\ \A o \in Ops : chosen[o] # None => chosen'[o] = chosen[o]
    /\ UNCHANGED published

Publish(o) ==
    /\ published = None /\ chosen[o] # None
    /\ published' = o
    /\ UNCHANGED chosen

Next == Choose \/ \E o \in Ops : Publish(o)
Spec == Init /\ [][Next]_<<chosen, published>>
=============================================================================
