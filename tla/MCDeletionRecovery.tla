-------------------------- MODULE MCDeletionRecovery --------------------------
(* Model checking of DeletionRecovery. *)
EXTENDS DeletionRecovery, TLC
Symmetry == Permutations(Accounts) \cup Permutations(Backups) \cup Permutations(Files)
=============================================================================
