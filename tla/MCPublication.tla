--------------------------- MODULE MCPublication ---------------------------
(* Small instances of the stopped-directory publication. *)
EXTENDS StoppedDirectoryPublication, TLC

CONSTANTS p1, p2, o1, o2, v1, v2

Symmetric == Permutations({p1, p2}) \cup Permutations({o1, o2})
               \cup Permutations({v1, v2})
=============================================================================
