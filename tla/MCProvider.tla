---------------------------- MODULE MCProvider ----------------------------
(* The provider ledger for TLC: two processes, one storage.                *)
EXTENDS ProviderAdoption, TLC

Symmetry == Permutations(Procs) \cup Permutations(Ops)
============================================================================
