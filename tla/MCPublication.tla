---------------------------- MODULE MCPublication ----------------------------
(* Small instances of Publication for TLC. *)
EXTENDS PublicationHistory, PublicationInvariant, TLC

CONSTANTS m1, m2, d1, d2, d3, a1, a2, a3, s1, s2

SimilarPair    == {<<s1, s2>>, <<s2, s1>>}
NothingSimilar == {}

RevisionIntents == {<<None, FALSE>>, <<"correction", TRUE>>}
AllIntents      == Reasons \X BOOLEAN
PlainIntent     == {<<None, FALSE>>}

\* Authors, drafts and keys are interchangeable; versions are ordered and stay apart.
Symmetry == Permutations(Authors \ Moderators) \cup Permutations(Drafts) \cup Permutations(Actions)
=============================================================================
