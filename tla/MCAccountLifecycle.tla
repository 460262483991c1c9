-------------------------- MODULE MCAccountLifecycle --------------------------
(* Model checking of AccountLifecycle: workers, sessions, logins and identities *)
(* are interchangeable.                                                         *)
EXTENDS AccountLifecycle, TLC

Symmetry == Permutations(Workers) \cup Permutations(Sessions)
              \cup Permutations(Logins) \cup Permutations(Identities)
=============================================================================
