--------------------------- MODULE MCCatalogRequests ---------------------------
(* Model checking of CatalogRequests: members and requests are interchangeable. *)
EXTENDS CatalogRequests, TLC

Symmetry == Permutations(Members) \cup Permutations(Requests)
=============================================================================
