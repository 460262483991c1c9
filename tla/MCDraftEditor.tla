---------------------------- MODULE MCDraftEditor ----------------------------
(* Model checking of DraftEditor: tabs and texts are interchangeable. *)
EXTENDS DraftEditor, TLC

Symmetry == Permutations(Tabs) \cup Permutations(Texts)
=============================================================================
