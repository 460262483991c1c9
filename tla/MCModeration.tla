---------------------------- MODULE MCModeration ----------------------------
(* Small instances of Moderation and of ModerationWorkspace for TLC.  A        *)
(* behaviour follows one of them: the first without pages, the second with one *)
(* page, and with less going on elsewhere.                                     *)
EXTENDS ModerationWorkspace, TLC

CONSTANTS m1, m2, m3, d1, a1, s1, k1, k2, w1

VARIABLE part

NothingSimilar == {}
PlainIntent    == {<<None, FALSE>>}
FirstReviewer  == [w \in Workspaces |-> m2]

\* Bounds beside the page: moderators stay, one member reports, and the author does
\* not withdraw.
Calm == /\ grants \subseteq grants'
        /\ Cardinality(reports') <= 1
        /\ \A v \in Published : ~visibility'[v].withdrawn

Init2 == /\ WorkspaceInit
         /\ part \in {"server", "page"}

Next2 == \/ part = "server" /\ ModerationNext /\ UNCHANGED <<pageVars, part>>
         \/ part = "page" /\ WorkspaceNext /\ Calm /\ UNCHANGED part

PartsSpec == Init2 /\ [][Next2]_<<vars, caseVars, pageVars, part>>

Symmetry == Permutations(Keys)
=============================================================================
