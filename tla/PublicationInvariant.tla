------------------------- MODULE PublicationInvariant -------------------------
(***************************************************************************)
(* The inductive invariant of Publication: what every reachable state      *)
(* satisfies and every step preserves, in named parts.                     *)
(***************************************************************************)
EXTENDS PublicationHistory

\* A draft has a source exactly when its kind asks for one, and the source is a
\* published version that stays published.
DraftInv ==
    \A d \in Drafts : drafts[d] # None =>
        /\ drafts[d].source \in Published \cup {None}
        /\ drafts[d].source = None <=> drafts[d].kind = "original"

\* A publication in flight is about a draft of its own member; the guard is held
\* exactly by the one that passed the checks.
TransactionInv ==
    \A m \in Members :
        /\ tx[m] # None => OwnedDraft(m, tx[m].request.draft)
        /\ guard = m <=> InPhase(m, "validated")

\* Publication rows exist exactly for the published versions.
VisibilityInv ==
    \A v \in Versions : visibility[v] = None <=> versions[v] = None

\* The effective state of a publication row is the one its two axes resolve to.
AxesInv ==
    \A v \in Published :
        visibility[v].state = Resolve(visibility[v].withdrawn, visibility[v].hidden)

\* The rows a version names exist: its recipe, its lineage and its draft, which is
\* its author's and terminal.
ReferenceInv ==
    \A v \in Published :
        LET e == versions[v] IN
        /\ e.recipe \in Published
        /\ e.lineage \in Published
        /\ drafts[e.draft] # None
        /\ drafts[e.draft].author = e.author
        /\ drafts[e.draft].status = "published"

Line(l) == {v \in Published : versions[v].lineage = l}

\* The numbers of a lineage run from 1 to that of its latest version, each used once.
NumberingInv ==
    \A l \in Versions :
        /\ Line(l) # {} =>
              \E top \in Line(l) : {versions[v].number : v \in Line(l)} = 1..versions[top].number
        /\ \A v, w \in Line(l) : versions[v].number = versions[w].number => v = w

Inductive == /\ TypeOK
             /\ DraftInv
             /\ TransactionInv
             /\ ChecksStillHold
             /\ VisibilityInv
             /\ AxesInv
             /\ ReferenceInv
             /\ NumberingInv
             /\ EditionChain
             /\ PublishedOnce

\* What Begin checked of a request stays true of it: its preflight is stored, and
\* its intent fits the kind of its draft.
RequestInv ==
    \A m \in Members : tx[m] # None =>
        /\ tx[m].request.preflight \in preflights
        /\ IntentValid(tx[m].request)

\* The editions of a recipe run from 1 to that of its current version.
EditionsInv ==
    \A r \in Versions : EditionRows(r) # {} =>
        {versions[v].edition : v \in EditionRows(r)} = 1..versions[current[r]].edition

\* What the tables record of every publication; preserved wherever Inductive holds.
RecordInv == /\ RequestInv
             /\ SnapshotIsReviewedDraft
             /\ ForkEventsMatchAdaptations
             /\ EditionsInv
=============================================================================
