-------------------------- MODULE Publication_proofs --------------------------
(***************************************************************************)
(* Proofs about Publication, for every number of members, drafts, versions *)
(* and keys.  Inductive is preserved part by part; each part's lemma may   *)
(* use the whole of Inductive in the state before the step.                *)
(***************************************************************************)
EXTENDS PublicationInvariant, FiniteSetTheorems, SequenceTheorems, TLAPS

\* Duplicate evidence is a set of published versions and a flag.
LEMMA EvidenceType == \A s, source : EvidenceNow(s, source) \in Evidence
BY DEF EvidenceNow, Evidence, Shortlist, Public, Published

\* The next number of a lineage that has a version is one above its top number.
LEMMA NextNumberAboveTop ==
    ASSUME TypeOK, NumberingInv, NEW l \in Versions, NEW top \in Line(l),
           {versions[v].number : v \in Line(l)} = 1..versions[top].number
    PROVE  NextNumber(l) = versions[top].number + 1
<1> DEFINE S == {versions[w].number : w \in {w \in Published : versions[w].lineage = l}}
           k == versions[top].number
<1>1. S = 1..k
  BY DEF Line
<1>2. k \in Nat /\ k \in S
  BY DEF Line, TypeOK, Published, Version
<1>3. \A x \in S : x <= k
  BY <1>1, <1>2
<1>4. Max(S) = k
  <2> HIDE DEF S, k
  <2>1. \A x \in S : (\A y \in S : x >= y) => x = k
    BY <1>1, <1>2, <1>3
  <2> QED BY <1>1, <1>2, <1>3, <2>1 DEF Max
<1> QED BY <1>4 DEF NextNumber

-----------------------------------------------------------------------------
(* Types *)

\* Moving the axes of a publication row leaves a publication row.
LEMMA AxesType ==
    ASSUME NEW row \in Visibility, NEW withdrawn \in BOOLEAN, NEW hidden \in BOOLEAN
    PROVE  SetAxes(row, withdrawn, hidden) \in Visibility
BY DEF SetAxes, Resolve, Visibility, States

\* A validated publication has a complete active draft, and what it inserts has
\* the type of a version row.
LEMMA NewVersionType ==
    ASSUME Inductive, NEW m \in Members, NEW v \in Versions, CommitPublish(m, v)
    PROVE  NewVersion(m, tx[m].request, v) \in Version
<1> DEFINE r == tx[m].request
           draft == drafts[r.draft]
           base == versions[draft.source]
<1> USE NoneAssumption
<1>1. tx[m] \in Transaction /\ InPhase(m, "validated")
  BY DEF Inductive, TypeOK, CommitPublish, InPhase
<1>2. r \in Request
  BY <1>1 DEF Transaction
<1>3. r.draft \in Drafts /\ r.action \in Actions /\ r.preflight \in Preflight
      /\ r.decision \in {"continue", None} /\ r.reason \in Reasons
  BY <1>2 DEF Request
<1>4. draft \in Draft /\ draft.structure \in Structures
  BY <1>1, <1>3 DEF Inductive, TypeOK, ChecksStillHold, Prepared, OwnedDraft, Draft
<1>5. draft.kind \in Kinds /\ draft.revision \in Revisions
      /\ draft.source \in Versions \cup {None}
  BY <1>4 DEF Draft
<1>6. ASSUME draft.kind # "original"
      PROVE  /\ draft.source \in Versions
             /\ draft.source \in Published
             /\ base \in Version
             /\ NextNumber(base.lineage) \in Nat
  <2>1. draft.source \in Public
    BY <1>6 DEF CommitPublish
  <2>2. draft.source \in Versions /\ draft.source \in Published /\ base \in Version
    BY <2>1 DEF Public, Published, Inductive, TypeOK
  <2>3. base.lineage \in Versions /\ draft.source \in Line(base.lineage)
    BY <2>2 DEF Version, Line
  <2>4. PICK top \in Line(base.lineage) :
          {versions[w].number : w \in Line(base.lineage)} = 1..versions[top].number
    BY <2>3 DEF Inductive, NumberingInv
  <2>5. NextNumber(base.lineage) = versions[top].number + 1
    BY <2>3, <2>4, NextNumberAboveTop DEF Inductive
  <2>6. versions[top].number \in Nat
    BY DEF Line, Published, Inductive, TypeOK, Version
  <2> QED BY <2>2, <2>5, <2>6
<1>7. CASE draft.kind = "original"
  BY <1>3, <1>4, <1>5, <1>7 DEF NewVersion, Version
<1>8. CASE draft.kind # "original"
  <2> HIDE DEF r, draft, base
  <2>1. base.lineage \in Versions /\ base.recipe \in Versions /\ base.edition \in Nat
    BY <1>6, <1>8 DEF Version
  <2>2. NextNumber(base.lineage) \in Nat /\ draft.source \in Versions
    BY <1>6, <1>8
  <2>3. CASE draft.kind = "revision"
    <3>1. base.edition + 1 \in Nat
      BY <2>1
    <3> QED BY <1>3, <1>4, <1>5, <2>1, <2>2, <2>3, <3>1 DEF NewVersion, Version, r, draft, base
  <2>4. CASE draft.kind = "adaptation"
    BY <1>3, <1>4, <1>5, <2>1, <2>2, <2>4 DEF NewVersion, Version, r, draft, base
  <2> QED BY <1>5, <1>8, <2>3, <2>4 DEF Kinds
<1> QED BY <1>7, <1>8

\* The steps of Next, each with its parameters in their types.
LEMMA NextCases ==
    ASSUME TypeOK, Next
    PROVE  \/ \E m \in Members, d \in Drafts, kind \in Kinds, source \in Versions \cup {None} :
                 CreateDraft(m, d, kind, source)
           \/ \E m \in Members, d \in Drafts, revision \in Revisions :
                 \/ \E s \in Structures \cup {None} : SaveDraft(m, d, revision, s)
                 \/ DiscardDraft(m, d, revision)
                 \/ RunPreflight(m, d, revision)
           \/ \E m \in Members, r \in Request : r.preflight \in preflights /\ BeginPublish(m, r)
           \/ \E m \in Members : ValidatePublish(m) \/ AbortPublish(m)
           \/ \E m \in Members, v \in Versions : CommitPublish(m, v)
           \/ \E m \in Members, v \in Versions, withdrawn \in BOOLEAN :
                 SetAuthoredVisibility(m, v, withdrawn)
           \/ \E m \in Members, v \in Versions, hidden \in BOOLEAN :
                 SetModerationVisibility(m, v, hidden)
<1> USE MembersAssumption, BoundsAssumption
<1>1. CASE \E m \in Authors : DraftStep(m)
  BY <1>1 DEF DraftStep
<1>2. CASE \E m \in Authors : PublishStep(m)
  <2>1. PICK m \in Members : PublishStep(m)
    BY <1>2
  <2>2. ASSUME NEW d \in Drafts, NEW a \in Actions, NEW revision \in Revisions,
               NEW p \in preflights, NEW decision \in {"continue", None}, NEW intent \in Intents
        PROVE  LET r == [draft |-> d, action |-> a, revision |-> revision, preflight |-> p,
                         decision |-> decision, reason |-> intent[1], withdraw |-> intent[2]]
               IN r \in Request /\ r.preflight \in preflights
    <3>1. intent[1] \in Reasons /\ intent[2] \in BOOLEAN
      OBVIOUS
    <3>2. p \in Preflight
      BY DEF TypeOK
    <3> QED BY <3>1, <3>2 DEF Request
  <2> QED BY <2>1, <2>2 DEF PublishStep
<1>3. CASE \E m \in Authors, v \in Versions, withdrawn \in BOOLEAN :
              SetAuthoredVisibility(m, v, withdrawn)
  BY <1>3
<1>4. CASE \E m \in Moderators, v \in Versions, hidden \in BOOLEAN :
              SetModerationVisibility(m, v, hidden)
  BY <1>4
<1> QED BY <1>1, <1>2, <1>3, <1>4 DEF Next, AuthorStep

\* Every handler writes rows of the right types into every table.
LEMMA TypePreserved == Inductive /\ [Next]_vars => TypeOK'
<1> SUFFICES ASSUME Inductive, [Next]_vars PROVE TypeOK'
  OBVIOUS
<1>t. TypeOK
  BY DEF Inductive
<1>1. ASSUME NEW m \in Members, NEW d \in Drafts, NEW kind \in Kinds,
             NEW source \in Versions \cup {None}, CreateDraft(m, d, kind, source)
      PROVE  TypeOK'
  <2>1. source # None => versions[source] \in Version
    BY <1>1, <1>t, NoneAssumption
       DEF CreateDraft, SourceAdmits, OwnedCurrent, Public, Published, TypeOK, Kinds
  <2>2. 1 \in Revisions
    BY BoundsAssumption DEF Revisions
  <2>3. (IF source = None THEN None ELSE versions[source].structure) \in Structures \cup {None}
    BY <2>1 DEF Version
  <2> QED BY <1>1, <1>t, <2>2, <2>3 DEF CreateDraft, TypeOK, Draft
<1>2. ASSUME NEW m \in Members, NEW d \in Drafts, NEW revision \in Revisions,
             NEW s \in Structures \cup {None}, SaveDraft(m, d, revision, s)
      PROVE  TypeOK'
  <2>1. drafts[d] \in Draft /\ revision + 1 \in Revisions
    BY <1>2, <1>t, BoundsAssumption DEF SaveDraft, Editable, OwnedDraft, TypeOK, Revisions
  <2>2. [drafts[d] EXCEPT !.revision = revision + 1, !.structure = s] \in Draft
    BY <2>1 DEF Draft
  <2> QED BY <1>2, <1>t, <2>2 DEF SaveDraft, TypeOK
<1>3. ASSUME NEW m \in Members, NEW d \in Drafts, NEW revision \in Revisions,
             DiscardDraft(m, d, revision)
      PROVE  TypeOK'
  <2>1. drafts[d] \in Draft
    BY <1>3, <1>t DEF DiscardDraft, Editable, OwnedDraft, TypeOK
  <2>2. [drafts[d] EXCEPT !.status = "discarded", !.structure = None] \in Draft
    BY <2>1 DEF Draft
  <2> QED BY <1>3, <1>t, <2>2 DEF DiscardDraft, TypeOK
<1>4. ASSUME NEW m \in Members, NEW d \in Drafts, NEW revision \in Revisions,
             RunPreflight(m, d, revision)
      PROVE  TypeOK'
  <2>1. drafts[d] \in Draft /\ drafts[d].structure \in Structures
    BY <1>4, <1>t DEF RunPreflight, Prepared, OwnedDraft, TypeOK, Draft
  <2>2. [draft |-> d, revision |-> revision, source |-> drafts[d].source,
         structure |-> drafts[d].structure,
         evidence |-> EvidenceNow(drafts[d].structure, drafts[d].source)] \in Preflight
    BY <2>1, EvidenceType DEF Preflight, Draft
  <2> QED BY <1>4, <1>t, <2>2 DEF RunPreflight, TypeOK
<1>5. ASSUME NEW m \in Members, NEW r \in Request, BeginPublish(m, r)
      PROVE  TypeOK'
  <2>1. [phase |-> "waiting", request |-> r] \in Transaction
    BY DEF Transaction
  <2> QED BY <1>5, <1>t, <2>1 DEF BeginPublish, TypeOK
<1>6. ASSUME NEW m \in Members, ValidatePublish(m)
      PROVE  TypeOK'
  <2>1. tx[m] \in Transaction
    BY <1>6, <1>t DEF ValidatePublish, InPhase, TypeOK
  <2>2. [tx[m] EXCEPT !.phase = "validated"] \in Transaction
    BY <2>1 DEF Transaction
  <2> QED BY <1>6, <1>t, <2>2 DEF ValidatePublish, TypeOK
<1>7. ASSUME NEW m \in Members, NEW v \in Versions, CommitPublish(m, v)
      PROVE  TypeOK'
  <2> DEFINE r == tx[m].request
             new == NewVersion(m, r, v)
  <2>1. new \in Version
    BY <1>7, NewVersionType
  <2>2. r \in Request /\ r.draft \in Drafts /\ drafts[r.draft] \in Draft
    BY <1>7, <1>t DEF CommitPublish, InPhase, TypeOK, Transaction, Request, Inductive,
                      TransactionInv, OwnedDraft
  <2>3. versions' \in [Versions -> Version \cup {None}]
    BY <1>7, <1>t, <2>1 DEF CommitPublish, TypeOK
  <2>4. current' \in [Versions -> Versions \cup {None}]
    BY <1>7, <1>t DEF CommitPublish, TypeOK
  <2>a. drafts[r.draft].kind # "original" =>
           drafts[r.draft].source \in Versions /\ drafts[r.draft].source \in Published
    BY <1>7 DEF CommitPublish, Public, Published
  <2>b. drafts[r.draft].kind = "original" => drafts[r.draft].source = None
    BY <2>2, NoneAssumption DEF Inductive, DraftInv
  <2>5. visibility' \in [Versions -> Visibility \cup {None}]
    <3>1. [state |-> "published", withdrawn |-> FALSE, hidden |-> FALSE] \in Visibility
      BY DEF Visibility, States
    <3>2. ASSUME NEW w \in Versions, w = drafts[r.draft].source
          PROVE  SetAxes(visibility[w], TRUE, visibility[w].hidden) \in Visibility
      <4>1. w \in Published
        BY <2>a, <2>b, <3>2, NoneAssumption
      <4>2. visibility[w] \in Visibility
        BY <1>t, <4>1 DEF Inductive, VisibilityInv, Published, TypeOK
      <4>3. visibility[w].hidden \in BOOLEAN
        BY <4>2 DEF Visibility
      <4> QED BY <4>2, <4>3, AxesType
    <3> QED BY <1>7, <1>t, <3>1, <3>2 DEF CommitPublish, TypeOK
  <2>6. forks' \subseteq ForkEvent
    <3>1. r.action \in Actions
      BY <2>2 DEF Request
    <3>2. ForkEvents(m, r, v) \subseteq ForkEvent
      BY <2>a, <3>1 DEF ForkEvents, ForkEvent
    <3> QED BY <1>7, <1>t, <3>2 DEF CommitPublish, TypeOK
  <2>7. drafts' \in [Drafts -> Draft \cup {None}]
    <3>1. [drafts[r.draft] EXCEPT !.status = "published"] \in Draft
      BY <2>2 DEF Draft
    <3> QED BY <1>7, <1>t, <2>2, <3>1 DEF CommitPublish, TypeOK
  <2> QED BY <1>7, <1>t, <2>3, <2>4, <2>5, <2>6, <2>7 DEF CommitPublish, TypeOK
<1>8. ASSUME NEW m \in Members, AbortPublish(m)
      PROVE  TypeOK'
  BY <1>8, <1>t DEF AbortPublish, TypeOK
<1>9. ASSUME NEW m \in Members, NEW v \in Versions, NEW withdrawn \in BOOLEAN,
             SetAuthoredVisibility(m, v, withdrawn)
      PROVE  TypeOK'
  <2>1. visibility[v] \in Visibility
    BY <1>9, <1>t DEF SetAuthoredVisibility, Inductive, VisibilityInv, Published, TypeOK
  <2>2. SetAxes(visibility[v], withdrawn, visibility[v].hidden) \in Visibility
    BY <2>1, AxesType DEF Visibility
  <2> QED BY <1>9, <1>t, <2>2 DEF SetAuthoredVisibility, TypeOK
<1>10. ASSUME NEW m \in Members, NEW v \in Versions, NEW hidden \in BOOLEAN,
             SetModerationVisibility(m, v, hidden)
      PROVE  TypeOK'
  <2>1. visibility[v] \in Visibility
    BY <1>10, <1>t DEF SetModerationVisibility, Inductive, VisibilityInv, Published, TypeOK
  <2>2. SetAxes(visibility[v], visibility[v].withdrawn, hidden) \in Visibility
    BY <2>1, AxesType DEF Visibility
  <2> QED BY <1>10, <1>t, <2>2 DEF SetModerationVisibility, TypeOK
<1>11. CASE UNCHANGED vars
  BY <1>11, <1>t DEF vars, TypeOK
<1> QED BY <1>t, <1>1, <1>2, <1>3, <1>4, <1>5, <1>6, <1>7, <1>8, <1>9, <1>10, <1>11, NextCases

-----------------------------------------------------------------------------
(* What a step leaves alone *)

\* Only a commit publishes, moves a recipe's pointer or records a fork.
LEMMA OnlyCommitPublishes ==
    ASSUME TypeOK, [Next]_vars, ~(\E m \in Members, v \in Versions : CommitPublish(m, v))
    PROVE  UNCHANGED <<versions, current, forks>>
<1>1. CASE UNCHANGED vars
  BY <1>1 DEF vars
<1>2. CASE Next
  BY <1>2, NextCases DEF CreateDraft, SaveDraft, DiscardDraft, RunPreflight, BeginPublish,
        ValidatePublish, AbortPublish, SetAuthoredVisibility, SetModerationVisibility
<1> QED BY <1>1, <1>2

\* The facts about a commit that every later argument starts from.
LEMMA CommitFacts ==
    ASSUME Inductive, NEW m \in Members, NEW v \in Versions, CommitPublish(m, v)
    PROVE  LET r == tx[m].request
               draft == drafts[r.draft]
           IN  /\ r \in Request /\ r.draft \in Drafts
               /\ draft \in Draft /\ draft.author = m /\ draft.status = "active"
               /\ guard = m /\ ~Receipted(m, r) /\ SourceReady(m, r)
               /\ v \notin Published
               /\ draft.kind = "original" => draft.source = None
               /\ draft.kind # "original" => draft.source \in Public
               /\ versions' = [versions EXCEPT ![v] = NewVersion(m, r, v)]
               /\ NewVersion(m, r, v) \in Version
               /\ Published' = Published \cup {v}
<1> DEFINE r == tx[m].request
           draft == drafts[r.draft]
<1>1. InPhase(m, "validated") /\ tx[m] \in Transaction
  BY NoneAssumption DEF CommitPublish, InPhase, Inductive, TypeOK
<1>2. r \in Request /\ r.draft \in Drafts
  BY <1>1 DEF Transaction, Request
<1>3. Prepared(m, r.draft, r.revision) /\ guard = m /\ ~Receipted(m, r) /\ SourceReady(m, r)
  BY <1>1 DEF Inductive, ChecksStillHold
<1>4. draft \in Draft /\ draft.author = m /\ draft.status = "active"
  BY <1>2, <1>3 DEF Prepared, OwnedDraft, Inductive, TypeOK
<1>5. draft.kind = "original" => draft.source = None
  BY <1>2, <1>4, NoneAssumption DEF Inductive, DraftInv
<1>6. versions' = [versions EXCEPT ![v] = NewVersion(m, r, v)] /\ v \notin Published
      /\ (draft.kind # "original" => draft.source \in Public)
  BY DEF CommitPublish, Published
<1>7. NewVersion(m, r, v) \in Version
  BY NewVersionType
<1>8. Published' = Published \cup {v}
  BY <1>6, <1>7, NoneAssumption DEF Published, Inductive, TypeOK
<1> QED BY <1>2, <1>3, <1>4, <1>5, <1>6, <1>7, <1>8

\* A published version is never unpublished, renumbered, reassigned or rewritten.
LEMMA PublishedForever ==
    ASSUME Inductive, [Next]_vars, NEW w \in Published
    PROVE  w \in Published' /\ versions'[w] = versions[w]
<1>1. CASE \E m \in Members, v \in Versions : CommitPublish(m, v)
  <2>1. PICK m \in Members, v \in Versions : CommitPublish(m, v)
    BY <1>1
  <2> QED BY <2>1, CommitFacts DEF Published, Inductive, TypeOK
<1>2. CASE ~(\E m \in Members, v \in Versions : CommitPublish(m, v))
  BY <1>2, OnlyCommitPublishes DEF Published, Inductive
<1> QED BY <1>1, <1>2

\* A draft keeps its author, kind and source; a terminal draft stays so, and only
\* a commit of its own publication makes it published.
LEMMA DraftKept ==
    ASSUME Inductive, [Next]_vars, NEW d \in Drafts, drafts[d] # None
    PROVE  /\ drafts'[d] # None
           /\ drafts'[d].author = drafts[d].author
           /\ drafts'[d].kind = drafts[d].kind
           /\ drafts'[d].source = drafts[d].source
           /\ drafts[d].status = "published" => drafts'[d].status = "published"
           /\ drafts[d].status # "published" /\ drafts'[d].status = "published" =>
                 \E m \in Members, v \in Versions : CommitPublish(m, v) /\ tx[m].request.draft = d
<1>t. TypeOK /\ drafts[d] \in Draft /\ TypeOK'
  BY TypePreserved DEF Inductive, TypeOK
<1>1. CASE UNCHANGED drafts
  BY <1>1
<1>2. ASSUME NEW m \in Members, NEW e \in Drafts, NEW kind \in Kinds,
             NEW source \in Versions \cup {None}, CreateDraft(m, e, kind, source)
      PROVE  UNCHANGED drafts[d]
  BY <1>2, <1>t DEF CreateDraft, TypeOK
<1>3. ASSUME NEW m \in Members, NEW e \in Drafts, NEW revision \in Revisions,
             NEW s \in Structures \cup {None}, SaveDraft(m, e, revision, s)
      PROVE  drafts'[d] = drafts[d] \/
             /\ drafts'[d] = [drafts[d] EXCEPT !.revision = revision + 1, !.structure = s]
             /\ drafts'[d] \in Draft
  <2>1. revision + 1 \in Revisions
    BY <1>3, BoundsAssumption DEF SaveDraft, Revisions
  <2>2. [drafts[d] EXCEPT !.revision = revision + 1, !.structure = s] \in Draft
    BY <1>t, <2>1 DEF Draft
  <2> QED BY <1>3, <1>t, <2>2 DEF SaveDraft, TypeOK
<1>4. ASSUME NEW m \in Members, NEW e \in Drafts, NEW revision \in Revisions,
             DiscardDraft(m, e, revision)
      PROVE  drafts'[d] = drafts[d] \/
             /\ drafts[d].status = "active"
             /\ drafts'[d] = [drafts[d] EXCEPT !.status = "discarded", !.structure = None]
  BY <1>4, <1>t DEF DiscardDraft, Editable, TypeOK
<1>5. ASSUME NEW m \in Members, NEW v \in Versions, CommitPublish(m, v)
      PROVE  drafts'[d] = drafts[d] \/
             /\ tx[m].request.draft = d
             /\ drafts'[d] = [drafts[d] EXCEPT !.status = "published"]
  BY <1>5, <1>t DEF CommitPublish, TypeOK
<1>n. drafts'[d] \in Draft => drafts'[d] # None
  BY NoneAssumption
<1>6. CASE \E m \in Members, e \in Drafts, kind \in Kinds, source \in Versions \cup {None} :
              CreateDraft(m, e, kind, source)
  BY <1>2, <1>6
<1>7. CASE \E m \in Members, e \in Drafts, revision \in Revisions, s \in Structures \cup {None} :
              SaveDraft(m, e, revision, s)
  <2>p. PICK m \in Members, e \in Drafts, revision \in Revisions, s \in Structures \cup {None} :
             SaveDraft(m, e, revision, s)
    BY <1>7
  <2>1. \/ drafts'[d] = drafts[d]
        \/ /\ drafts'[d] = [drafts[d] EXCEPT !.revision = revision + 1, !.structure = s]
           /\ drafts'[d] \in Draft
    BY <1>3, <2>p, Zenon
  <2>2. CASE drafts'[d] = drafts[d]
    BY <2>2
  <2>3. CASE /\ drafts'[d] = [drafts[d] EXCEPT !.revision = revision + 1, !.structure = s]
             /\ drafts'[d] \in Draft
    <3>1. /\ drafts'[d].author = drafts[d].author
          /\ drafts'[d].kind = drafts[d].kind
          /\ drafts'[d].source = drafts[d].source
          /\ drafts'[d].status = drafts[d].status
      BY <1>t, <2>3 DEF Draft
    <3> QED BY <1>n, <2>3, <3>1
  <2> QED BY <2>1, <2>2, <2>3
<1>8. CASE \E m \in Members, e \in Drafts, revision \in Revisions : DiscardDraft(m, e, revision)
  BY <1>4, <1>8, <1>t, <1>n DEF Draft
<1>9. CASE \E m \in Members, v \in Versions : CommitPublish(m, v)
  BY <1>5, <1>9, <1>t, <1>n DEF Draft
<1>10. CASE UNCHANGED vars
  BY <1>10, <1>1 DEF vars
<1>11. CASE Next
  <2>1. CASE \E m \in Members, e \in Drafts, revision \in Revisions : RunPreflight(m, e, revision)
    BY <1>1, <2>1 DEF RunPreflight
  <2>2. CASE \E m \in Members, r \in Request : BeginPublish(m, r)
    BY <1>1, <2>2 DEF BeginPublish
  <2>3. CASE \E m \in Members : ValidatePublish(m) \/ AbortPublish(m)
    BY <1>1, <2>3 DEF ValidatePublish, AbortPublish
  <2>4. CASE \E m \in Members, v \in Versions, withdrawn \in BOOLEAN :
                SetAuthoredVisibility(m, v, withdrawn)
    BY <1>1, <2>4 DEF SetAuthoredVisibility
  <2>5. CASE \E m \in Members, v \in Versions, hidden \in BOOLEAN :
                SetModerationVisibility(m, v, hidden)
    BY <1>1, <2>5 DEF SetModerationVisibility
  <2> QED BY <1>t, <1>11, <1>6, <1>7, <1>8, <1>9, <2>1, <2>2, <2>3, <2>4, <2>5, NextCases
<1> QED BY <1>10, <1>11

-----------------------------------------------------------------------------
(* The parts of Inductive about drafts, transactions and visibility *)

\* A draft's source stays published, and present exactly for the sourced kinds.
LEMMA DraftInvPreserved == Inductive /\ [Next]_vars => DraftInv'
<1> SUFFICES ASSUME Inductive, [Next]_vars, NEW d \in Drafts, drafts'[d] # None
             PROVE  /\ drafts'[d].source \in Published' \cup {None}
                    /\ drafts'[d].source = None <=> drafts'[d].kind = "original"
  BY DEF DraftInv
<1>t. TypeOK
  BY DEF Inductive
<1>1. CASE drafts[d] # None
  <2>1. drafts[d].source \in Published \cup {None}
        /\ (drafts[d].source = None <=> drafts[d].kind = "original")
    BY <1>1 DEF Inductive, DraftInv
  <2> QED BY <1>1, <2>1, DraftKept, PublishedForever
<1>2. CASE drafts[d] = None
  <2>1. CASE UNCHANGED vars
    BY <1>2, <2>1 DEF vars
  <2>2. ASSUME NEW m \in Members, NEW kind \in Kinds, NEW source \in Versions \cup {None},
               CreateDraft(m, d, kind, source)
        PROVE  /\ drafts'[d].source \in Published' \cup {None}
               /\ drafts'[d].source = None <=> drafts'[d].kind = "original"
    <3>1. drafts'[d].source = source /\ drafts'[d].kind = kind
      BY <1>t, <2>2 DEF CreateDraft, TypeOK
    <3>2. CASE kind = "original"
      BY <2>2, <3>1, <3>2 DEF CreateDraft, SourceAdmits
    <3>3. CASE kind = "adaptation"
      BY <2>2, <3>1, <3>3, NoneAssumption, PublishedForever
         DEF CreateDraft, SourceAdmits, Public, Published
    <3>4. CASE kind = "revision"
      BY <2>2, <3>1, <3>4, NoneAssumption, PublishedForever
         DEF CreateDraft, SourceAdmits, OwnedCurrent, Public, Published
    <3> QED BY <3>2, <3>3, <3>4 DEF Kinds
  <2>3. CASE Next
    <3>1. ASSUME NEW m \in Members, NEW e \in Drafts, NEW kind \in Kinds,
                 NEW source \in Versions \cup {None}, CreateDraft(m, e, kind, source)
          PROVE  e = d
      BY <1>t, <1>2, <3>1 DEF CreateDraft, TypeOK
    <3>2. \A m \in Members, e \in Drafts, revision \in Revisions, s \in Structures \cup {None} :
             ~SaveDraft(m, e, revision, s)
      BY <1>t, <1>2 DEF SaveDraft, Editable, OwnedDraft, TypeOK
    <3>3. \A m \in Members, e \in Drafts, revision \in Revisions : ~DiscardDraft(m, e, revision)
      BY <1>t, <1>2 DEF DiscardDraft, Editable, OwnedDraft, TypeOK
    <3>4. \A m \in Members, v \in Versions : ~CommitPublish(m, v)
      <4> SUFFICES ASSUME NEW m \in Members, NEW v \in Versions, CommitPublish(m, v) PROVE FALSE
        OBVIOUS
      <4>1. tx[m].request.draft # d
        BY <1>2, CommitFacts, NoneAssumption
      <4> QED BY <1>t, <1>2, <4>1 DEF CommitPublish, TypeOK
    <3>5. UNCHANGED drafts \/ \E m \in Members, kind \in Kinds, source \in Versions \cup {None} :
                                  CreateDraft(m, d, kind, source)
      <4>1. CASE \E m \in Members, e \in Drafts, revision \in Revisions : RunPreflight(m, e, revision)
        BY <4>1 DEF RunPreflight
      <4>2. CASE \E m \in Members, r \in Request : BeginPublish(m, r)
        BY <4>2 DEF BeginPublish
      <4>3. CASE \E m \in Members : ValidatePublish(m) \/ AbortPublish(m)
        BY <4>3 DEF ValidatePublish, AbortPublish
      <4>4. CASE \E m \in Members, v \in Versions, withdrawn \in BOOLEAN :
                    SetAuthoredVisibility(m, v, withdrawn)
        BY <4>4 DEF SetAuthoredVisibility
      <4>5. CASE \E m \in Members, v \in Versions, hidden \in BOOLEAN :
                    SetModerationVisibility(m, v, hidden)
        BY <4>5 DEF SetModerationVisibility
      <4> QED BY <1>t, <2>3, <3>1, <3>2, <3>3, <3>4, <4>1, <4>2, <4>3, <4>4, <4>5, NextCases
    <3> QED BY <1>2, <2>2, <3>5
  <2> QED BY <2>1, <2>3
<1> QED BY <1>1, <1>2

\* A version and its publication row are only ever inserted together.
LEMMA VisibilityInvPreserved == Inductive /\ [Next]_vars => VisibilityInv'
<1> SUFFICES ASSUME Inductive, [Next]_vars, NEW w \in Versions
             PROVE  visibility'[w] = None <=> versions'[w] = None
  BY DEF VisibilityInv
<1>t. TypeOK /\ TypeOK' /\ (visibility[w] = None <=> versions[w] = None)
  BY TypePreserved DEF Inductive, VisibilityInv
<1>1. ASSUME NEW m \in Members, NEW v \in Versions, CommitPublish(m, v)
      PROVE  visibility'[w] = None <=> versions'[w] = None
  <2> DEFINE source == drafts[tx[m].request.draft].source
             shown == [state |-> "published", withdrawn |-> FALSE, hidden |-> FALSE]
  <2>1. CASE w = v
    <3>1. visibility'[w] = shown
      BY <1>1, <2>1 DEF CommitPublish
    <3>2. shown \in Visibility
      BY DEF Visibility, States
    <3>3. versions'[w] = NewVersion(m, tx[m].request, v)
      BY <1>t, <1>1, <2>1 DEF CommitPublish, TypeOK
    <3>4. NewVersion(m, tx[m].request, v) \in Version
      BY <1>1, NewVersionType
    <3> QED BY <3>1, <3>2, <3>3, <3>4, NoneAssumption
  <2>2. CASE w # v /\ w = source
    <3>1. w \in Published
      BY <2>2, <1>1, CommitFacts, NoneAssumption DEF Public
    <3>2. visibility[w] \in Visibility
      BY <1>t, <3>1 DEF Published, TypeOK
    <3>3. SetAxes(visibility[w], TRUE, visibility[w].hidden) \in Visibility
      BY <3>2, AxesType DEF Visibility
    <3>4. visibility'[w] \in {visibility[w], SetAxes(visibility[w], TRUE, visibility[w].hidden)}
      BY <1>1, <2>2 DEF CommitPublish
    <3>5. versions'[w] # None
      BY <3>1, PublishedForever DEF Published
    <3> QED BY <3>2, <3>3, <3>4, <3>5, NoneAssumption
  <2>3. CASE w # v /\ w # source
    <3>1. visibility'[w] = visibility[w]
      BY <1>1, <2>3 DEF CommitPublish
    <3>2. versions'[w] = versions[w]
      BY <1>t, <1>1, <2>3 DEF CommitPublish, TypeOK
    <3> QED BY <1>t, <3>1, <3>2
  <2> QED BY <2>1, <2>2, <2>3
<1>2. ASSUME NEW m \in Members, NEW v \in Versions, NEW withdrawn \in BOOLEAN,
             SetAuthoredVisibility(m, v, withdrawn)
      PROVE  visibility'[w] = None <=> versions'[w] = None
  <2>1. visibility[v] \in Visibility /\ versions' = versions /\ versions[v] # None
    BY <1>2, <1>t DEF SetAuthoredVisibility, Inductive, VisibilityInv, Published, TypeOK
  <2>2. SetAxes(visibility[v], withdrawn, visibility[v].hidden) \in Visibility
    BY <2>1, AxesType DEF Visibility
  <2> QED BY <1>2, <1>t, <2>1, <2>2, NoneAssumption DEF SetAuthoredVisibility, TypeOK
<1>3. ASSUME NEW m \in Members, NEW v \in Versions, NEW hidden \in BOOLEAN,
             SetModerationVisibility(m, v, hidden)
      PROVE  visibility'[w] = None <=> versions'[w] = None
  <2>1. visibility[v] \in Visibility /\ versions' = versions /\ versions[v] # None
    BY <1>3, <1>t DEF SetModerationVisibility, Inductive, VisibilityInv, Published, TypeOK
  <2>2. SetAxes(visibility[v], visibility[v].withdrawn, hidden) \in Visibility
    BY <2>1, AxesType DEF Visibility
  <2> QED BY <1>3, <1>t, <2>1, <2>2, NoneAssumption DEF SetModerationVisibility, TypeOK
<1>4. CASE UNCHANGED <<visibility, versions>>
  BY <1>4, <1>t
<1>5. CASE UNCHANGED vars
  BY <1>4, <1>5 DEF vars
<1>6. CASE Next
  <2>1. CASE \E m \in Members, d \in Drafts, kind \in Kinds, source \in Versions \cup {None} :
                CreateDraft(m, d, kind, source)
    BY <1>4, <2>1 DEF CreateDraft
  <2>2. CASE \E m \in Members, d \in Drafts, revision \in Revisions :
                \/ \E s \in Structures \cup {None} : SaveDraft(m, d, revision, s)
                \/ DiscardDraft(m, d, revision)
                \/ RunPreflight(m, d, revision)
    BY <1>4, <2>2 DEF SaveDraft, DiscardDraft, RunPreflight
  <2>3. CASE \E m \in Members, r \in Request : BeginPublish(m, r)
    BY <1>4, <2>3 DEF BeginPublish
  <2>4. CASE \E m \in Members : ValidatePublish(m) \/ AbortPublish(m)
    BY <1>4, <2>4 DEF ValidatePublish, AbortPublish
  <2> QED BY <1>t, <1>1, <1>2, <1>3, <1>6, <2>1, <2>2, <2>3, <2>4, NextCases
<1> QED BY <1>5, <1>6

\* Rows that versions name are never removed, and a published draft stays published.
LEMMA ReferenceInvPreserved == Inductive /\ [Next]_vars => ReferenceInv'
<1> SUFFICES ASSUME Inductive, [Next]_vars, NEW w \in Published'
             PROVE  /\ versions'[w].recipe \in Published'
                    /\ versions'[w].lineage \in Published'
                    /\ drafts'[versions'[w].draft] # None
                    /\ drafts'[versions'[w].draft].author = versions'[w].author
                    /\ drafts'[versions'[w].draft].status = "published"
  BY DEF ReferenceInv
<1>1. CASE w \in Published
  <2>1. versions[w] \in Version
    BY <1>1, NoneAssumption DEF Published, Inductive, TypeOK
  <2>2. versions[w].draft \in Drafts
    BY <2>1 DEF Version
  <2> QED BY <1>1, <2>2, PublishedForever, DraftKept DEF Inductive, ReferenceInv
<1>2. CASE w \notin Published
  <2>1. PICK m \in Members, v \in Versions : CommitPublish(m, v)
    BY <1>2, OnlyCommitPublishes DEF Published, Inductive
  <2> DEFINE r == tx[m].request
             draft == drafts[r.draft]
             new == NewVersion(m, r, v)
  <2>2. v = w /\ versions'[w] = new
    BY <1>2, <2>1, CommitFacts DEF Inductive, TypeOK
  <2>3. draft.kind # "original" => draft.source \in Published
    BY <2>1, CommitFacts DEF Public
  <2>4. new.recipe \in Published' /\ new.lineage \in Published'
    <3>1. draft.kind # "original" =>
             /\ versions[draft.source].recipe \in Published'
             /\ versions[draft.source].lineage \in Published'
      BY <2>3, PublishedForever DEF Inductive, ReferenceInv
    <3> QED BY <2>2, <3>1 DEF NewVersion
  <2>5. new.draft = r.draft /\ new.author = m
    BY DEF NewVersion
  <2>6. drafts'[r.draft] = [draft EXCEPT !.status = "published"]
    <3>1. r.draft \in Drafts
      BY <2>1, CommitFacts
    <3> QED BY <2>1, <3>1 DEF CommitPublish, Inductive, TypeOK
  <2>7. draft \in Draft /\ draft.author = m
    BY <2>1, CommitFacts
  <2>8. drafts'[r.draft] \in Draft /\ drafts'[r.draft].author = m
        /\ drafts'[r.draft].status = "published"
    BY <2>6, <2>7 DEF Draft
  <2> QED BY <2>2, <2>4, <2>5, <2>8, NoneAssumption
<1> QED BY <1>1, <1>2

\* A member with a publication in flight starts no other, so its request is either
\* the one it had or one just begun about its own draft.
LEMMA TransactionInvPreserved == Inductive /\ [Next]_vars => TransactionInv'
<1> SUFFICES ASSUME Inductive, [Next]_vars, NEW n \in Members
             PROVE  /\ tx'[n] # None => /\ drafts'[tx'[n].request.draft] # None
                                        /\ drafts'[tx'[n].request.draft].author = n
                    /\ guard' = n <=> tx'[n] # None /\ tx'[n].phase = "validated"
  BY DEF TransactionInv, OwnedDraft, InPhase
<1> DEFINE OwnedAfter(d) == drafts'[d] # None /\ drafts'[d].author = n
           ValidatedAfter == tx'[n] # None /\ tx'[n].phase = "validated"
<1>t. TypeOK /\ TypeOK'
  BY TypePreserved DEF Inductive
<1>i. /\ tx[n] # None => OwnedDraft(n, tx[n].request.draft)
      /\ guard = n <=> InPhase(n, "validated")
  BY DEF Inductive, TransactionInv
<1>k. ASSUME tx[n] # None
      PROVE  OwnedAfter(tx[n].request.draft)
  <2>1. tx[n].request.draft \in Drafts
    BY <1>k, <1>t DEF TypeOK, Transaction, Request
  <2>2. OwnedDraft(n, tx[n].request.draft)
    BY <1>k, <1>i
  <2> QED BY <2>1, <2>2, DraftKept DEF OwnedDraft
<1>1. CASE UNCHANGED <<tx, guard>>
  <2>1. ValidatedAfter = InPhase(n, "validated")
    BY <1>1 DEF InPhase
  <2> QED BY <1>1, <1>i, <1>k, <2>1
<1>2. ASSUME NEW m \in Members, NEW r \in Request, BeginPublish(m, r)
      PROVE  /\ tx'[n] # None => OwnedAfter(tx'[n].request.draft)
             /\ guard' = n <=> ValidatedAfter
  <2>1. CASE m = n
    <3>1. tx'[n] = [phase |-> "waiting", request |-> r]
      BY <1>2, <1>t, <2>1 DEF BeginPublish, TypeOK
    <3>2. guard' # n
      BY <1>2, <1>i, <2>1 DEF BeginPublish, Idle, InPhase
    <3>3. OwnedAfter(r.draft)
      BY <1>2, <2>1 DEF BeginPublish, OwnedDraft
    <3> QED BY <3>1, <3>2, <3>3 DEF InPhase
  <2>2. CASE m # n
    <3>1. tx'[n] = tx[n] /\ guard' = guard
      BY <1>2, <1>t, <2>2 DEF BeginPublish, TypeOK
    <3> QED BY <1>i, <1>k, <3>1 DEF InPhase
  <2> QED BY <2>1, <2>2
<1>3. ASSUME NEW m \in Members, ValidatePublish(m)
      PROVE  /\ tx'[n] # None => OwnedAfter(tx'[n].request.draft)
             /\ guard' = n <=> ValidatedAfter
  <2>1. tx[m] \in Transaction
    BY <1>3, <1>t DEF ValidatePublish, InPhase, TypeOK
  <2>2. CASE m = n
    <3>1. tx'[n] = [tx[n] EXCEPT !.phase = "validated"] /\ guard' = n /\ tx[n] # None
      BY <1>3, <1>t, <2>2 DEF ValidatePublish, InPhase, TypeOK
    <3>2. tx'[n].phase = "validated" /\ tx'[n].request = tx[n].request /\ tx'[n] \in Transaction
      BY <2>1, <2>2, <3>1 DEF Transaction
    <3> QED BY <1>k, <3>1, <3>2, NoneAssumption DEF InPhase
  <2>3. CASE m # n
    <3>1. tx'[n] = tx[n] /\ guard' = m /\ guard = None
      BY <1>3, <1>t, <2>3 DEF ValidatePublish, TypeOK
    <3> QED BY <1>i, <1>k, <2>3, <3>1, NoneAssumption DEF InPhase
  <2> QED BY <2>2, <2>3
<1>4. ASSUME NEW m \in Members, tx' = [tx EXCEPT ![m] = None],
             guard' = None \/ guard' = guard, guard = m => guard' = None,
             guard # m => guard' = guard
      PROVE  /\ tx'[n] # None => OwnedAfter(tx'[n].request.draft)
             /\ guard' = n <=> ValidatedAfter
  <2>1. CASE m = n
    <3>1. tx'[n] = None /\ guard' # n
      BY <1>4, <1>t, <2>1, NoneAssumption DEF TypeOK
    <3> QED BY <3>1 DEF InPhase
  <2>2. CASE m # n
    <3>1. tx'[n] = tx[n] /\ (guard' = n <=> guard = n)
      BY <1>4, <1>t, <2>2, NoneAssumption DEF TypeOK
    <3> QED BY <1>i, <1>k, <3>1 DEF InPhase
  <2> QED BY <2>1, <2>2
<1>5. ASSUME NEW m \in Members, AbortPublish(m)
      PROVE  /\ tx'[n] # None => OwnedAfter(tx'[n].request.draft)
             /\ guard' = n <=> ValidatedAfter
  BY <1>4, <1>5 DEF AbortPublish
<1>6. ASSUME NEW m \in Members, NEW v \in Versions, CommitPublish(m, v)
      PROVE  /\ tx'[n] # None => OwnedAfter(tx'[n].request.draft)
             /\ guard' = n <=> ValidatedAfter
  <2>1. tx' = [tx EXCEPT ![m] = None] /\ guard' = None
    BY <1>6 DEF CommitPublish
  <2>2. guard = m
    BY <1>6, CommitFacts
  <2> QED BY <1>4, <2>1, <2>2
<1>7. CASE UNCHANGED vars
  BY <1>1, <1>7 DEF vars
<1>8. CASE Next
  <2>1. CASE \E m \in Members, d \in Drafts, kind \in Kinds, source \in Versions \cup {None} :
                CreateDraft(m, d, kind, source)
    BY <1>1, <2>1 DEF CreateDraft
  <2>2. CASE \E m \in Members, d \in Drafts, revision \in Revisions :
                \/ \E s \in Structures \cup {None} : SaveDraft(m, d, revision, s)
                \/ DiscardDraft(m, d, revision)
                \/ RunPreflight(m, d, revision)
    BY <1>1, <2>2 DEF SaveDraft, DiscardDraft, RunPreflight
  <2>3. CASE \E m \in Members, v \in Versions, withdrawn \in BOOLEAN :
                SetAuthoredVisibility(m, v, withdrawn)
    BY <1>1, <2>3 DEF SetAuthoredVisibility
  <2>4. CASE \E m \in Members, v \in Versions, hidden \in BOOLEAN :
                SetModerationVisibility(m, v, hidden)
    BY <1>1, <2>4 DEF SetModerationVisibility
  <2> QED BY <1>t, <1>2, <1>3, <1>5, <1>6, <1>8, <2>1, <2>2, <2>3, <2>4, NextCases
<1> QED BY <1>7, <1>8

-----------------------------------------------------------------------------
(* The checks made under the guard *)

\* Duplicate evidence depends on nothing but the versions and their visibility.
LEMMA EvidenceUnchanged ==
    ASSUME UNCHANGED <<versions, visibility>>, NEW s, NEW source
    PROVE  EvidenceNow(s, source)' = EvidenceNow(s, source)
BY DEF EvidenceNow, Shortlist, RanksBefore, Public, Published

\* The checks of a request, as they stand after a step that leaves alone its draft
\* and what is published, current, readable and forked.
LEMMA ChecksUnchanged ==
    ASSUME NEW m \in Members, NEW r,
           UNCHANGED <<versions, current, visibility, forks>>,
           drafts'[r.draft] = drafts[r.draft],
           ~Receipted(m, r), SourceReady(m, r), Prepared(m, r.draft, r.revision),
           EvidenceAccepted(r)
    PROVE  /\ ~Receipted(m, r)' /\ SourceReady(m, r)' /\ Prepared(m, r.draft, r.revision)'
           /\ EvidenceAccepted(r)'
<1>1. Published' = Published /\ Public' = Public
  BY DEF Public, Published
<1>2. ~Receipted(m, r)'
  BY <1>1 DEF Receipted
<1>3. SourceReady(m, r)'
  BY <1>1 DEF SourceReady, OwnedCurrent
<1>4. Prepared(m, r.draft, r.revision)'
  BY DEF Prepared, OwnedDraft
<1>5. EvidenceAccepted(r)'
  BY <1>1, EvidenceUnchanged DEF EvidenceAccepted
<1> QED BY <1>2, <1>3, <1>4, <1>5

\* While a member's publication is validated it holds the guard, so no other member
\* publishes, withdraws, restores or moderates; and the member itself, holding its
\* own user row, saves nothing.
LEMMA ChecksCarried ==
    ASSUME Inductive, [Next]_vars, NEW n \in Members, NEW r,
           InPhase(n, "validated")', r = tx'[n].request
    PROVE  /\ guard' = n /\ ~Receipted(n, r)' /\ SourceReady(n, r)'
           /\ Prepared(n, r.draft, r.revision)' /\ EvidenceAccepted(r)'
<1>t. TypeOK /\ TypeOK'
  BY TypePreserved DEF Inductive
<1>p. tx'[n] # None /\ tx'[n].phase = "validated" /\ tx'[n] \in Transaction /\ guard' = n
  BY <1>t, TransactionInvPreserved DEF InPhase, TypeOK, TransactionInv
<1>1. CASE tx[n] # None /\ tx[n].phase = "validated"
  <2>1. guard = n /\ InPhase(n, "validated")
    BY <1>1 DEF InPhase, Inductive, TransactionInv
  <2>2. \A m \in Members : InPhase(m, "validated") => m = n
    BY <2>1 DEF Inductive, TransactionInv
  <2>k. ASSUME tx'[n] = tx[n], drafts'[r.draft] = drafts[r.draft],
               UNCHANGED <<versions, current, visibility, forks>>
        PROVE  /\ guard' = n /\ ~Receipted(n, r)' /\ SourceReady(n, r)'
               /\ Prepared(n, r.draft, r.revision)' /\ EvidenceAccepted(r)'
    <3>1. ~Receipted(n, r) /\ SourceReady(n, r) /\ Prepared(n, r.draft, r.revision)
          /\ EvidenceAccepted(r)
      BY <2>1, <2>k DEF Inductive, ChecksStillHold
    <3> QED BY <1>p, <2>k, <3>1, ChecksUnchanged
  <2>r. tx[n].request.draft \in Drafts /\ OwnedDraft(n, tx[n].request.draft)
    BY <1>1, <1>t DEF Inductive, TransactionInv, TypeOK, Transaction, Request
  <2>3. ASSUME NEW m \in Members, NEW d \in Drafts, NEW kind \in Kinds,
               NEW source \in Versions \cup {None}, CreateDraft(m, d, kind, source)
        PROVE  drafts'[tx[n].request.draft] = drafts[tx[n].request.draft]
    BY <1>t, <2>3, <2>r DEF CreateDraft, OwnedDraft, TypeOK
  <2>4. ASSUME NEW m \in Members, NEW d \in Drafts, NEW revision \in Revisions,
               Editable(m, d, revision)
        PROVE  d # tx[n].request.draft
    BY <1>1, <2>4, <2>r DEF Editable, OwnedDraft, Idle
  <2>5. ASSUME NEW m \in Members, NEW d \in Drafts, NEW revision \in Revisions,
               NEW s \in Structures \cup {None}, SaveDraft(m, d, revision, s)
        PROVE  drafts'[tx[n].request.draft] = drafts[tx[n].request.draft]
    BY <1>t, <2>4, <2>5, <2>r DEF SaveDraft, TypeOK
  <2>6. ASSUME NEW m \in Members, NEW d \in Drafts, NEW revision \in Revisions,
               DiscardDraft(m, d, revision)
        PROVE  drafts'[tx[n].request.draft] = drafts[tx[n].request.draft]
    BY <1>t, <2>4, <2>6, <2>r DEF DiscardDraft, TypeOK
  <2>7. CASE \E m \in Members, d \in Drafts, kind \in Kinds, source \in Versions \cup {None} :
                CreateDraft(m, d, kind, source)
    <3>1. UNCHANGED <<tx, versions, current, visibility, forks>>
      BY <2>7 DEF CreateDraft
    <3> QED BY <2>k, <2>3, <2>7, <3>1
  <2>8. CASE \E m \in Members, d \in Drafts, revision \in Revisions, s \in Structures \cup {None} :
                SaveDraft(m, d, revision, s)
    <3>1. UNCHANGED <<tx, versions, current, visibility, forks>>
      BY <2>8 DEF SaveDraft
    <3> QED BY <2>k, <2>5, <2>8, <3>1
  <2>9. CASE \E m \in Members, d \in Drafts, revision \in Revisions : DiscardDraft(m, d, revision)
    <3>1. UNCHANGED <<tx, versions, current, visibility, forks>>
      BY <2>9 DEF DiscardDraft
    <3> QED BY <2>k, <2>6, <2>9, <3>1
  <2>10. CASE \E m \in Members, d \in Drafts, revision \in Revisions : RunPreflight(m, d, revision)
    BY <2>k, <2>10 DEF RunPreflight
  <2>11. CASE \E m \in Members, q \in Request : BeginPublish(m, q)
    <3>1. PICK m \in Members, q \in Request : BeginPublish(m, q)
      BY <2>11
    <3>2. m # n
      BY <1>1, <3>1 DEF BeginPublish, Idle
    <3> QED BY <1>t, <2>k, <3>1, <3>2 DEF BeginPublish, TypeOK
  <2>12. CASE \E m \in Members : ValidatePublish(m)
    BY <2>1, <2>12, NoneAssumption DEF ValidatePublish
  <2>13. CASE \E m \in Members : AbortPublish(m)
    <3>1. PICK m \in Members : AbortPublish(m)
      BY <2>13
    <3>2. m # n
      BY <1>t, <1>p, <3>1 DEF AbortPublish, TypeOK
    <3> QED BY <1>t, <2>k, <3>1, <3>2 DEF AbortPublish, TypeOK
  <2>14. CASE \E m \in Members, v \in Versions : CommitPublish(m, v)
    <3>1. PICK m \in Members, v \in Versions : CommitPublish(m, v)
      BY <2>14
    <3>2. guard' = None
      BY <3>1 DEF CommitPublish
    <3> QED BY <1>p, <3>2, NoneAssumption
  <2>15. CASE \E m \in Members, v \in Versions, withdrawn \in BOOLEAN :
                 SetAuthoredVisibility(m, v, withdrawn)
    BY <2>1, <2>15, NoneAssumption DEF SetAuthoredVisibility, GuardFree
  <2>16. CASE \E m \in Members, v \in Versions, hidden \in BOOLEAN :
                 SetModerationVisibility(m, v, hidden)
    BY <2>1, <2>16, NoneAssumption DEF SetModerationVisibility, GuardFree
  <2>17. CASE UNCHANGED vars
    BY <2>k, <2>17 DEF vars
  <2>18. CASE Next
    BY <1>t, <2>18, <2>7, <2>8, <2>9, <2>10, <2>11, <2>12, <2>13, <2>14, <2>15, <2>16, NextCases
  <2> QED BY <2>17, <2>18
<1>2. CASE ~(tx[n] # None /\ tx[n].phase = "validated")
  <2>1. ASSUME NEW m \in Members, ValidatePublish(m), m = n
        PROVE  /\ guard' = n /\ ~Receipted(n, r)' /\ SourceReady(n, r)'
               /\ Prepared(n, r.draft, r.revision)' /\ EvidenceAccepted(r)'
    <3>1. tx[n] \in Transaction /\ tx'[n] = [tx[n] EXCEPT !.phase = "validated"]
      BY <1>t, <2>1 DEF ValidatePublish, InPhase, TypeOK
    <3>2. r = tx[n].request
      BY <3>1 DEF Transaction
    <3>3. ~Receipted(n, r) /\ SourceReady(n, r) /\ Prepared(n, r.draft, r.revision)
          /\ EvidenceAccepted(r) /\ UNCHANGED <<drafts, versions, current, visibility, forks>>
      BY <2>1, <3>2 DEF ValidatePublish
    <3> QED BY <1>p, <3>3, ChecksUnchanged
  <2>2. tx'[n] # tx[n]
    BY <1>2, <1>p
  <2>3. CASE \E m \in Members : ValidatePublish(m)
    <3>1. PICK m \in Members : ValidatePublish(m)
      BY <2>3
    <3>2. m = n
      BY <1>t, <2>2, <3>1 DEF ValidatePublish, TypeOK
    <3> QED BY <2>1, <3>1, <3>2
  <2>4. CASE \E m \in Members, q \in Request : BeginPublish(m, q)
    <3>1. PICK m \in Members, q \in Request : BeginPublish(m, q)
      BY <2>4
    <3>2. tx'[n] = [phase |-> "waiting", request |-> q]
      BY <1>t, <2>2, <3>1 DEF BeginPublish, TypeOK
    <3> QED BY <1>p, <3>2
  <2>5. ASSUME NEW m \in Members, tx' = [tx EXCEPT ![m] = None]
        PROVE  FALSE
    BY <1>t, <1>p, <2>2, <2>5 DEF TypeOK
  <2>6. CASE \E m \in Members : AbortPublish(m)
    BY <2>5, <2>6 DEF AbortPublish
  <2>7. CASE \E m \in Members, v \in Versions : CommitPublish(m, v)
    BY <2>5, <2>7 DEF CommitPublish
  <2>8. CASE UNCHANGED tx
    BY <2>2, <2>8
  <2>9. CASE Next
    <3>1. CASE \E m \in Members, d \in Drafts, kind \in Kinds, source \in Versions \cup {None} :
                  CreateDraft(m, d, kind, source)
      BY <2>8, <3>1 DEF CreateDraft
    <3>2. CASE \E m \in Members, d \in Drafts, revision \in Revisions :
                  \/ \E s \in Structures \cup {None} : SaveDraft(m, d, revision, s)
                  \/ DiscardDraft(m, d, revision)
                  \/ RunPreflight(m, d, revision)
      BY <2>8, <3>2 DEF SaveDraft, DiscardDraft, RunPreflight
    <3>3. CASE \E m \in Members, v \in Versions, withdrawn \in BOOLEAN :
                  SetAuthoredVisibility(m, v, withdrawn)
      BY <2>8, <3>3 DEF SetAuthoredVisibility
    <3>4. CASE \E m \in Members, v \in Versions, hidden \in BOOLEAN :
                  SetModerationVisibility(m, v, hidden)
      BY <2>8, <3>4 DEF SetModerationVisibility
    <3> QED BY <1>t, <2>3, <2>4, <2>6, <2>7, <2>9, <3>1, <3>2, <3>3, <3>4, NextCases
  <2> QED BY <2>8, <2>9 DEF vars
<1> QED BY <1>1, <1>2

\* The checks of every validated publication survive every handler of every member.
LEMMA ChecksPreserved == Inductive /\ [Next]_vars => ChecksStillHold'
<1> SUFFICES ASSUME Inductive, [Next]_vars, NEW n \in Members, InPhase(n, "validated")'
             PROVE  (/\ guard = n
                     /\ ~Receipted(n, tx[n].request)
                     /\ SourceReady(n, tx[n].request)
                     /\ Prepared(n, tx[n].request.draft, tx[n].request.revision)
                     /\ EvidenceAccepted(tx[n].request))'
  BY DEF ChecksStillHold
<1>1. PICK r : r = tx'[n].request
  OBVIOUS
<1>2. /\ guard' = n /\ ~Receipted(n, r)' /\ SourceReady(n, r)'
      /\ Prepared(n, r.draft, r.revision)' /\ EvidenceAccepted(r)'
  BY <1>1, ChecksCarried
<1>3. Receipted(n, tx[n].request)' <=> Receipted(n, r)'
  BY <1>1 DEF Receipted
<1>4. SourceReady(n, tx[n].request)' <=> SourceReady(n, r)'
  BY <1>1 DEF SourceReady
<1>5. Prepared(n, tx[n].request.draft, tx[n].request.revision)'
      <=> Prepared(n, r.draft, r.revision)'
  BY <1>1 DEF Prepared, OwnedDraft
<1>6. EvidenceAccepted(tx[n].request)' <=> EvidenceAccepted(r)'
  BY <1>1 DEF EvidenceAccepted
<1> QED BY <1>2, <1>3, <1>4, <1>5, <1>6

-----------------------------------------------------------------------------
(* What is published *)

\* A commit finds neither its key nor its draft in an earlier receipt.
LEMMA PublishedOncePreserved == Inductive /\ [Next]_vars => PublishedOnce'
<1> SUFFICES ASSUME Inductive, [Next]_vars PROVE PublishedOnce'
  OBVIOUS
<1>t. TypeOK /\ PublishedOnce
  BY DEF Inductive
<1>1. CASE \E m \in Members, v \in Versions : CommitPublish(m, v)
  <2>1. PICK m \in Members, v \in Versions : CommitPublish(m, v)
    BY <1>1
  <2> DEFINE r == tx[m].request
             new == NewVersion(m, r, v)
  <2>2. /\ Published' = Published \cup {v} /\ v \notin Published /\ versions'[v] = new
        /\ r.draft \in Drafts /\ drafts[r.draft].author = m /\ ~Receipted(m, r)
    BY <1>t, <2>1, CommitFacts DEF TypeOK
  <2>3. new.author = m /\ new.draft = r.draft /\ new.action = r.action
    BY DEF NewVersion
  <2>4. \A w \in Published : versions'[w] = versions[w]
    BY PublishedForever
  <2>5. \A w \in Published : versions[w].draft # r.draft
                             /\ (versions[w].author # m \/ versions[w].action # r.action)
    BY <2>2 DEF Receipted, Inductive, ReferenceInv
  <2>6. \A x, w \in Published' :
           \/ x = w
           \/ /\ versions'[x].draft # versions'[w].draft
              /\ versions'[x].author # versions'[w].author \/ versions'[x].action # versions'[w].action
    BY <1>t, <2>2, <2>3, <2>4, <2>5 DEF PublishedOnce
  <2>7. ASSUME NEW d \in Drafts
        PROVE  (drafts'[d] # None /\ drafts'[d].status = "published")
                  <=> \E w \in Published' : versions'[w].draft = d
    <3>1. CASE d = r.draft
      <4>1. drafts'[versions'[v].draft] # None /\ drafts'[versions'[v].draft].status = "published"
        BY <2>2, ReferenceInvPreserved DEF ReferenceInv
      <4> QED BY <2>2, <2>3, <3>1, <4>1
    <3>2. CASE d # r.draft
      <4>1. drafts'[d] = drafts[d]
        BY <1>t, <2>1, <3>2 DEF CommitPublish, TypeOK
      <4> QED BY <1>t, <2>2, <2>3, <2>4, <3>2, <4>1 DEF PublishedOnce
    <3> QED BY <3>1, <3>2
  <2> QED BY <2>6, <2>7 DEF PublishedOnce
<1>2. CASE ~(\E m \in Members, v \in Versions : CommitPublish(m, v))
  <2>1. UNCHANGED versions /\ Published' = Published
    BY <1>2, <1>t, OnlyCommitPublishes DEF Published
  <2>2. ASSUME NEW d \in Drafts
        PROVE  (drafts'[d] # None /\ drafts'[d].status = "published")
                  <=> (drafts[d] # None /\ drafts[d].status = "published")
    <3>1. CASE drafts[d] # None
      BY <1>2, <3>1, DraftKept
    <3>2. CASE drafts[d] = None
      <4>1. ~ \E w \in Published : versions[w].draft = d
        BY <3>2 DEF Inductive, ReferenceInv
      <4>2. drafts'[d] = None \/ drafts'[d].status = "active"
        <5>1. CASE UNCHANGED vars
          BY <3>2, <5>1 DEF vars
        <5>2. CASE \E m \in Members, e \in Drafts, kind \in Kinds, source \in Versions \cup {None} :
                      CreateDraft(m, e, kind, source)
          BY <1>t, <3>2, <5>2 DEF CreateDraft, TypeOK
        <5>3. CASE \E m \in Members, e \in Drafts, revision \in Revisions,
                      s \in Structures \cup {None} : SaveDraft(m, e, revision, s)
          BY <1>t, <3>2, <5>3 DEF SaveDraft, Editable, OwnedDraft, TypeOK
        <5>4. CASE \E m \in Members, e \in Drafts, revision \in Revisions :
                      DiscardDraft(m, e, revision)
          BY <1>t, <3>2, <5>4 DEF DiscardDraft, Editable, OwnedDraft, TypeOK
        <5>5. CASE UNCHANGED drafts
          BY <3>2, <5>5
        <5>6. CASE Next
          <6>1. CASE \E m \in Members, e \in Drafts, revision \in Revisions :
                        RunPreflight(m, e, revision)
            BY <5>5, <6>1 DEF RunPreflight
          <6>2. CASE \E m \in Members, q \in Request : BeginPublish(m, q)
            BY <5>5, <6>2 DEF BeginPublish
          <6>3. CASE \E m \in Members : ValidatePublish(m) \/ AbortPublish(m)
            BY <5>5, <6>3 DEF ValidatePublish, AbortPublish
          <6>4. CASE \E m \in Members, v \in Versions, withdrawn \in BOOLEAN :
                        SetAuthoredVisibility(m, v, withdrawn)
            BY <5>5, <6>4 DEF SetAuthoredVisibility
          <6>5. CASE \E m \in Members, v \in Versions, hidden \in BOOLEAN :
                        SetModerationVisibility(m, v, hidden)
            BY <5>5, <6>5 DEF SetModerationVisibility
          <6> QED BY <1>t, <1>2, <5>2, <5>3, <5>4, <5>6, <6>1, <6>2, <6>3, <6>4, <6>5, NextCases
        <5> QED BY <5>1, <5>6
      <4> QED BY <3>2, <4>2
    <3> QED BY <3>1, <3>2
  <2> QED BY <1>t, <2>1, <2>2 DEF PublishedOnce
<1> QED BY <1>1, <1>2

\* A commit takes the number above the top of its lineage and becomes the top.
LEMMA NumberingInvPreserved == Inductive /\ [Next]_vars => NumberingInv'
<1> SUFFICES ASSUME Inductive, [Next]_vars, NEW l \in Versions
             PROVE  /\ Line(l)' # {} =>
                          \E top \in Line(l)' :
                             {versions'[w].number : w \in Line(l)'} = 1..versions'[top].number
                    /\ \A x, w \in Line(l)' : versions'[x].number = versions'[w].number => x = w
  BY DEF NumberingInv
<1>t. TypeOK /\ NumberingInv
  BY DEF Inductive
<1>1. CASE Line(l)' = Line(l) /\ \A w \in Line(l) : versions'[w] = versions[w]
  BY <1>1, <1>t DEF NumberingInv
<1>2. CASE ~(\E m \in Members, v \in Versions : CommitPublish(m, v))
  <2>1. UNCHANGED versions
    BY <1>2, <1>t, OnlyCommitPublishes
  <2> QED BY <1>1, <2>1 DEF Line, Published
<1>3. ASSUME NEW m \in Members, NEW v \in Versions, CommitPublish(m, v)
      PROVE  /\ Line(l)' # {} =>
                   \E top \in Line(l)' :
                      {versions'[w].number : w \in Line(l)'} = 1..versions'[top].number
             /\ \A x, w \in Line(l)' : versions'[x].number = versions'[w].number => x = w
  <2> DEFINE r == tx[m].request
             draft == drafts[r.draft]
             base == versions[draft.source]
             new == NewVersion(m, r, v)
  <2>1. /\ Published' = Published \cup {v} /\ v \notin Published /\ versions'[v] = new
        /\ new \in Version
    BY <1>t, <1>3, CommitFacts DEF TypeOK
  <2>2. \A w \in Published : versions'[w] = versions[w]
    BY PublishedForever
  <2>3. Line(l)' = IF new.lineage = l THEN Line(l) \cup {v} ELSE Line(l)
    BY <2>1, <2>2 DEF Line, Published
  <2>4. \A w \in Line(l) : w \in Published /\ versions'[w] = versions[w]
    BY <2>2 DEF Line
  <2>5. CASE new.lineage # l
    BY <1>1, <2>3, <2>4, <2>5
  <2>6. CASE new.lineage = l /\ draft.kind = "original"
    <3>1. l = v /\ new.number = 1
      BY <2>6 DEF NewVersion
    <3>2. Line(l) = {}
      BY <2>1, <3>1 DEF Line, Inductive, ReferenceInv
    <3>3. Line(l)' = {v}
      BY <2>3, <2>6, <3>2
    <3> QED BY <2>1, <3>1, <3>3
  <2>7. CASE new.lineage = l /\ draft.kind # "original"
    <3>1. l = base.lineage /\ new.number = NextNumber(l) /\ draft.source \in Public
      BY <1>3, <2>7, CommitFacts DEF NewVersion
    <3>2. draft.source \in Line(l)
      BY <3>1 DEF Line, Public
    <3>3. PICK top \in Line(l) : {versions[w].number : w \in Line(l)} = 1..versions[top].number
      BY <1>t, <3>2 DEF NumberingInv
    <3>4. new.number = versions[top].number + 1
      BY <1>t, <3>1, <3>3, NextNumberAboveTop
    <3>5. versions[top].number \in Nat
      BY <1>t DEF Line, Published, TypeOK, Version
    <3> DEFINE k == versions[top].number
    <3>6. Line(l)' = Line(l) \cup {v}
      BY <2>3, <2>7
    <3>7. {versions'[w].number : w \in Line(l)'} = {versions[w].number : w \in Line(l)} \cup {k + 1}
      BY <2>1, <2>4, <3>4, <3>6
    <3>8. {versions'[w].number : w \in Line(l)'} = 1..(k + 1)
      BY <3>3, <3>5, <3>7
    <3>9. \A w \in Line(l) : versions'[w].number \in 1..k
      BY <2>4, <3>3
    <3>10. versions'[v].number = k + 1 /\ v \in Line(l)'
      BY <2>1, <3>4, <3>6
    <3>11. \A x, w \in Line(l)' : versions'[x].number = versions'[w].number => x = w
      <4>1. \A x, w \in Line(l) : versions'[x].number = versions'[w].number => x = w
        BY <1>t, <2>4 DEF NumberingInv
      <4>2. \A w \in Line(l) : versions'[w].number # versions'[v].number
        BY <3>5, <3>9, <3>10
      <4> QED BY <3>6, <4>1, <4>2
    <3> QED BY <3>8, <3>10, <3>11
  <2> QED BY <2>5, <2>6, <2>7
<1> QED BY <1>2, <1>3

\* What the line of editions says of one version: who heads its recipe, that its
\* number is its own, and where it comes from.
LEMMA ChainHead ==
    ASSUME EditionChain, NEW w \in Published
    PROVE  /\ current[versions[w].recipe] \in Published
           /\ versions[current[versions[w].recipe]].recipe = versions[w].recipe
           /\ versions[w].edition <= versions[current[versions[w].recipe]].edition
BY DEF EditionChain

\* Two editions of one recipe with one number are the same.
LEMMA ChainUnique ==
    ASSUME EditionChain, NEW w \in Published, NEW x \in Published,
           versions[x].recipe = versions[w].recipe, versions[x].edition = versions[w].edition
    PROVE  x = w
BY DEF EditionChain

\* A version that revises none names its recipe.
LEMMA ChainRoot ==
    ASSUME EditionChain, NEW w \in Published, versions[w].kind # "revision"
    PROVE  versions[w].recipe = w /\ versions[w].edition = 1
BY DEF EditionChain

\* A revision continues its predecessor.
LEMMA ChainLink ==
    ASSUME EditionChain, NEW w \in Published, versions[w].kind = "revision"
    PROVE  /\ versions[w].previous \in Published
           /\ versions[w].edition = versions[versions[w].previous].edition + 1
           /\ versions[versions[w].previous].recipe = versions[w].recipe
           /\ versions[versions[w].previous].author = versions[w].author
           /\ versions[versions[w].previous].lineage = versions[w].lineage
BY DEF EditionChain

\* A commit extends the line of editions whose head its revision source was.
LEMMA EditionChainPreserved == Inductive /\ [Next]_vars => EditionChain'
<1> SUFFICES ASSUME Inductive, [Next]_vars PROVE EditionChain'
  OBVIOUS
<1>t. TypeOK /\ EditionChain /\ ReferenceInv
  BY DEF Inductive
<1>1. CASE ~(\E m \in Members, v \in Versions : CommitPublish(m, v))
  <2>1. UNCHANGED <<versions, current>>
    BY <1>1, <1>t, OnlyCommitPublishes
  <2> QED BY <1>t, <2>1 DEF EditionChain, Published
<1>2. ASSUME NEW m \in Members, NEW v \in Versions, CommitPublish(m, v)
      PROVE  EditionChain'
  <2> DEFINE r == tx[m].request
             draft == drafts[r.draft]
             source == draft.source
             base == versions[source]
             new == NewVersion(m, r, v)
  <2>1. /\ Published' = Published \cup {v} /\ v \notin Published /\ versions'[v] = new
        /\ new \in Version /\ draft.kind \in Kinds
    BY <1>t, <1>2, CommitFacts DEF TypeOK, Draft
  <2>2. \A w \in Published : versions'[w] = versions[w] /\ versions[w] \in Version
    BY <1>t, PublishedForever, NoneAssumption DEF TypeOK, Published
  <2>3. /\ new.recipe \in Versions
        /\ current' = [current EXCEPT ![new.recipe] = v]
    BY <1>2, <2>1 DEF CommitPublish, Version
  <2>4. /\ current'[new.recipe] = v
        /\ \A x \in Versions \ {new.recipe} : current'[x] = current[x]
    BY <1>t, <2>3 DEF TypeOK
  <2>5. CASE draft.kind # "revision"
    <3>1. new.recipe = v /\ new.edition = 1 /\ new.kind # "revision"
      BY <2>5 DEF NewVersion
    <3>2. \A w \in Published : versions[w].recipe \in Versions \ {v}
      BY <1>t, <2>1 DEF ReferenceInv, Published
    <3>3. \A w \in Published : current'[versions[w].recipe] = current[versions[w].recipe]
      BY <2>4, <3>1, <3>2
    <3>4. ASSUME NEW w \in Published
          PROVE  LET e == versions'[w]
                     head == current'[e.recipe]
                 IN  /\ head \in Published'
                     /\ versions'[head].recipe = e.recipe
                     /\ e.edition <= versions'[head].edition
                     /\ \A x \in Published' :
                           versions'[x].recipe = e.recipe /\ versions'[x].edition = e.edition => x = w
                     /\ e.kind # "revision" => e.recipe = w /\ e.edition = 1
                     /\ e.kind = "revision" =>
                           /\ e.previous \in Published'
                           /\ e.edition = versions'[e.previous].edition + 1
                           /\ versions'[e.previous].recipe = e.recipe
                           /\ versions'[e.previous].author = e.author
                           /\ versions'[e.previous].lineage = e.lineage
      <4> HIDE DEF new, base, source, draft, r
      <4>1. versions'[w] = versions[w] /\ current'[versions[w].recipe] = current[versions[w].recipe]
        BY <2>2, <3>3
      <4>2. /\ current[versions[w].recipe] \in Published
            /\ versions'[current[versions[w].recipe]] = versions[current[versions[w].recipe]]
        BY <1>t, <2>1, <2>2, ChainHead
      <4>3. ASSUME NEW x \in Published', versions'[x].recipe = versions[w].recipe,
                   versions'[x].edition = versions[w].edition
            PROVE  x = w
        <5>1. x # v
          BY <2>1, <3>1, <3>2, <4>3
        <5>2. x \in Published /\ versions'[x] = versions[x]
          BY <2>1, <2>2, <5>1
        <5> QED BY <1>t, <4>3, <5>2, ChainUnique
      <4>4. versions[w].kind = "revision" =>
              /\ versions[w].previous \in Published'
              /\ versions'[versions[w].previous] = versions[versions[w].previous]
        BY <1>t, <2>1, <2>2, ChainLink
      <4> QED BY <1>t, <2>1, <4>1, <4>2, <4>3, <4>4, ChainHead, ChainRoot, ChainLink
    <3>5. new.edition <= new.edition
      BY <2>1 DEF Version
    <3>6. \A x \in Published' : versions'[x].recipe = v => x = v
      BY <2>1, <2>2, <3>2
    <3> QED BY <2>1, <2>4, <3>1, <3>4, <3>5, <3>6 DEF EditionChain
  <2>6. CASE draft.kind = "revision"
    <3>1. source \in Published /\ current[base.recipe] = source /\ base.author = m
      BY <1>2, <2>6, CommitFacts DEF SourceReady, OwnedCurrent, Public
    <3>2. /\ new.recipe = base.recipe /\ new.edition = base.edition + 1 /\ new.kind = "revision"
          /\ new.previous = source /\ new.author = m /\ new.lineage = base.lineage
      BY <2>6 DEF NewVersion
    <3>3. base \in Version /\ base.edition \in Nat
      BY <2>2, <3>1 DEF Version
    <3>4. \A w \in Published : versions[w].recipe = base.recipe => versions[w].edition <= base.edition
      BY <1>t, <3>1, ChainHead
    <3>5. \A w \in Published : versions[w].edition \in Nat /\ versions[w].recipe \in Versions
      BY <2>2 DEF Version
    <3>6. ASSUME NEW w \in Published, versions[w].recipe = new.recipe
          PROVE  versions[w].edition < new.edition
      <4>1. versions[w].edition <= base.edition /\ versions[w].edition \in Nat
        BY <3>2, <3>4, <3>5, <3>6
      <4> HIDE DEF new, base
      <4> QED BY <3>2, <3>3, <4>1
    <3>7. ASSUME NEW w \in Published
          PROVE  LET e == versions'[w]
                     head == current'[e.recipe]
                 IN  /\ head \in Published'
                     /\ versions'[head].recipe = e.recipe
                     /\ e.edition <= versions'[head].edition
                     /\ \A x \in Published' :
                           versions'[x].recipe = e.recipe /\ versions'[x].edition = e.edition => x = w
                     /\ e.kind # "revision" => e.recipe = w /\ e.edition = 1
                     /\ e.kind = "revision" =>
                           /\ e.previous \in Published'
                           /\ e.edition = versions'[e.previous].edition + 1
                           /\ versions'[e.previous].recipe = e.recipe
                           /\ versions'[e.previous].author = e.author
                           /\ versions'[e.previous].lineage = e.lineage
      <4> DEFINE e == versions'[w]
                 head == current'[e.recipe]
      <4>1. e = versions[w] /\ e.recipe \in Versions /\ e.edition \in Nat
        BY <2>2, <3>5
      <4>2. /\ head \in Published' /\ versions'[head].recipe = e.recipe
            /\ e.edition <= versions'[head].edition
        <5>1. CASE e.recipe = new.recipe
          <6>1. head = v /\ versions'[head] = new
            BY <2>1, <2>4, <5>1
          <6>2. e.edition < new.edition /\ new.edition \in Nat
            BY <2>1, <3>6, <4>1, <5>1 DEF Version
          <6> QED BY <2>1, <4>1, <5>1, <6>1, <6>2
        <5>2. CASE e.recipe # new.recipe
          <6>1. head = current[versions[w].recipe]
            BY <2>4, <4>1, <5>2
          <6>2. /\ head \in Published /\ versions[head].recipe = versions[w].recipe
                /\ versions[w].edition <= versions[head].edition
            BY <1>t, <6>1, ChainHead
          <6> QED BY <2>1, <2>2, <4>1, <6>2
        <5> QED BY <5>1, <5>2
      <4>3. ASSUME NEW x \in Published', versions'[x].recipe = e.recipe, versions'[x].edition = e.edition
            PROVE  x = w
        <5>1. CASE x = v
          <6>1. versions[w].recipe = new.recipe /\ versions[w].edition = new.edition
            BY <2>1, <4>1, <4>3, <5>1
          <6>2. versions[w].edition < new.edition
            BY <3>6, <6>1
          <6> HIDE DEF new, base
          <6> QED BY <4>1, <6>1, <6>2
        <5>2. CASE x \in Published
          <6>1. versions[x].recipe = versions[w].recipe /\ versions[x].edition = versions[w].edition
            BY <2>2, <4>1, <4>3, <5>2
          <6> QED BY <1>t, <5>2, <6>1, ChainUnique
        <5> QED BY <2>1, <5>1, <5>2
      <4>4. e.kind # "revision" => e.recipe = w /\ e.edition = 1
        BY <1>t, <4>1, ChainRoot
      <4>5. e.kind = "revision" =>
              /\ e.previous \in Published'
              /\ e.edition = versions'[e.previous].edition + 1
              /\ versions'[e.previous].recipe = e.recipe
              /\ versions'[e.previous].author = e.author
              /\ versions'[e.previous].lineage = e.lineage
        <5>1. e.kind = "revision" =>
                /\ e.previous \in Published
                /\ e.edition = versions[e.previous].edition + 1
                /\ versions[e.previous].recipe = e.recipe
                /\ versions[e.previous].author = e.author
                /\ versions[e.previous].lineage = e.lineage
          BY <1>t, <4>1, ChainLink
        <5> QED BY <2>1, <2>2, <5>1
      <4> QED BY <4>2, <4>3, <4>4, <4>5
    <3>8. /\ current'[new.recipe] = v /\ versions'[v] = new /\ new.edition \in Nat
          /\ versions'[source] = base
      BY <2>1, <2>2, <2>4, <3>1 DEF Version
    <3>9. \A x \in Published' :
             versions'[x].recipe = new.recipe /\ versions'[x].edition = new.edition => x = v
      BY <2>1, <2>2, <3>5, <3>6, <3>8
    <3>10. new.edition <= new.edition
      BY <3>8
    <3>11. LET e == versions'[v]
               head == current'[e.recipe]
           IN  /\ head \in Published'
               /\ versions'[head].recipe = e.recipe
               /\ e.edition <= versions'[head].edition
               /\ \A x \in Published' :
                     versions'[x].recipe = e.recipe /\ versions'[x].edition = e.edition => x = v
               /\ e.kind # "revision" => e.recipe = v /\ e.edition = 1
               /\ e.kind = "revision" =>
                     /\ e.previous \in Published'
                     /\ e.edition = versions'[e.previous].edition + 1
                     /\ versions'[e.previous].recipe = e.recipe
                     /\ versions'[e.previous].author = e.author
                     /\ versions'[e.previous].lineage = e.lineage
      <4> HIDE DEF new, base
      <4> QED BY <2>1, <3>1, <3>2, <3>8, <3>9, <3>10
    <3> QED BY <2>1, <3>7, <3>11 DEF EditionChain
  <2> QED BY <2>5, <2>6
<1> QED BY <1>1, <1>2

\* Every write of a publication row resolves the state from both axes.
LEMMA AxesInvPreserved == Inductive /\ [Next]_vars => AxesInv'
<1> SUFFICES ASSUME Inductive, [Next]_vars, NEW w \in Published'
             PROVE  visibility'[w].state = Resolve(visibility'[w].withdrawn, visibility'[w].hidden)
  BY DEF AxesInv, Resolve
<1>t. TypeOK
  BY DEF Inductive
<1> DEFINE Resolved(row) == row.state = Resolve(row.withdrawn, row.hidden)
<1>1. ASSUME NEW row \in Visibility, NEW withdrawn \in BOOLEAN, NEW hidden \in BOOLEAN
      PROVE  Resolved(SetAxes(row, withdrawn, hidden))
  BY <1>1 DEF SetAxes, Visibility
<1>2. \A x \in Published : Resolved(visibility[x]) /\ visibility[x] \in Visibility
  BY <1>t DEF Inductive, AxesInv, VisibilityInv, Published, TypeOK
<1>3. CASE UNCHANGED <<versions, visibility>>
  BY <1>2, <1>3 DEF Published
<1>4. ASSUME NEW m \in Members, NEW v \in Versions, CommitPublish(m, v)
      PROVE  Resolved(visibility'[w])
  <2> DEFINE source == drafts[tx[m].request.draft].source
             shown == [state |-> "published", withdrawn |-> FALSE, hidden |-> FALSE]
  <2>1. Published' = Published \cup {v} /\ w \in Versions
    BY <1>4, CommitFacts DEF Published
  <2>2. CASE w = v
    <3>1. visibility'[w] = shown
      BY <1>4, <2>2 DEF CommitPublish
    <3>2. Resolved(shown)
      BY DEF Resolve
    <3> QED BY <3>1, <3>2
  <2>3. CASE w # v
    <3>1. w \in Published
      BY <2>1, <2>3
    <3>2. Resolved(SetAxes(visibility[w], TRUE, visibility[w].hidden))
      BY <1>1, <1>2, <3>1 DEF Visibility
    <3>3. visibility'[w] \in {visibility[w], SetAxes(visibility[w], TRUE, visibility[w].hidden)}
      BY <1>4, <2>1, <2>3 DEF CommitPublish
    <3> QED BY <1>2, <3>1, <3>2, <3>3
  <2> QED BY <2>2, <2>3
<1>5. ASSUME NEW m \in Members, NEW v \in Versions, NEW withdrawn \in BOOLEAN,
             SetAuthoredVisibility(m, v, withdrawn)
      PROVE  Resolved(visibility'[w])
  <2>1. v \in Published /\ w \in Published
        /\ visibility' = [visibility EXCEPT ![v] = SetAxes(@, withdrawn, @.hidden)]
    BY <1>5 DEF SetAuthoredVisibility, Published
  <2>2. Resolved(SetAxes(visibility[v], withdrawn, visibility[v].hidden))
    BY <1>1, <1>2, <2>1 DEF Visibility
  <2> QED BY <1>t, <1>2, <2>1, <2>2 DEF TypeOK, Published
<1>6. ASSUME NEW m \in Members, NEW v \in Versions, NEW hidden \in BOOLEAN,
             SetModerationVisibility(m, v, hidden)
      PROVE  Resolved(visibility'[w])
  <2>1. v \in Published /\ w \in Published
        /\ visibility' = [visibility EXCEPT ![v] = SetAxes(@, @.withdrawn, hidden)]
    BY <1>6 DEF SetModerationVisibility, Published
  <2>2. Resolved(SetAxes(visibility[v], visibility[v].withdrawn, hidden))
    BY <1>1, <1>2, <2>1 DEF Visibility
  <2> QED BY <1>t, <1>2, <2>1, <2>2 DEF TypeOK, Published
<1>7. CASE Next
  <2>1. CASE \E m \in Members, d \in Drafts, kind \in Kinds, source \in Versions \cup {None} :
                CreateDraft(m, d, kind, source)
    BY <1>3, <2>1 DEF CreateDraft
  <2>2. CASE \E m \in Members, d \in Drafts, revision \in Revisions :
                \/ \E s \in Structures \cup {None} : SaveDraft(m, d, revision, s)
                \/ DiscardDraft(m, d, revision)
                \/ RunPreflight(m, d, revision)
    BY <1>3, <2>2 DEF SaveDraft, DiscardDraft, RunPreflight
  <2>3. CASE \E m \in Members, r \in Request : BeginPublish(m, r)
    BY <1>3, <2>3 DEF BeginPublish
  <2>4. CASE \E m \in Members : ValidatePublish(m) \/ AbortPublish(m)
    BY <1>3, <2>4 DEF ValidatePublish, AbortPublish
  <2> QED BY <1>t, <1>4, <1>5, <1>6, <1>7, <2>1, <2>2, <2>3, <2>4, NextCases
<1> QED BY <1>3, <1>7 DEF vars

-----------------------------------------------------------------------------
(* The theorems *)

\* The empty database satisfies the inductive invariant.
LEMMA InductiveInit == Init => Inductive
<1> SUFFICES ASSUME Init PROVE Inductive
  OBVIOUS
<1>1. Published = {}
  BY DEF Init, Published
<1>2. TypeOK
  BY DEF Init, TypeOK
<1>3. DraftInv /\ VisibilityInv
  BY DEF Init, DraftInv, VisibilityInv
<1>4. TransactionInv /\ ChecksStillHold
  BY NoneAssumption DEF Init, TransactionInv, ChecksStillHold, InPhase
<1>5. ReferenceInv /\ NumberingInv /\ AxesInv /\ EditionChain
  BY <1>1 DEF ReferenceInv, NumberingInv, Line, AxesInv, EditionChain
<1>6. PublishedOnce
  BY <1>1 DEF Init, PublishedOnce
<1> QED BY <1>2, <1>3, <1>4, <1>5, <1>6 DEF Inductive

\* Every handler preserves the inductive invariant.
LEMMA InductiveStep == Inductive /\ [Next]_vars => Inductive'
BY TypePreserved, DraftInvPreserved, TransactionInvPreserved, ChecksPreserved,
   VisibilityInvPreserved, AxesInvPreserved, ReferenceInvPreserved, NumberingInvPreserved,
   EditionChainPreserved, PublishedOncePreserved DEF Inductive

\* Every reachable state of every instance satisfies the inductive invariant.
THEOREM Invariance == Spec => []Inductive
BY InductiveInit, InductiveStep, PTL DEF Spec

\* Every table keeps the types of its columns, through every handler.
THEOREM TypeCorrect == Spec => []TypeOK
<1>1. Inductive => TypeOK
  BY DEF Inductive
<1> QED BY Invariance, <1>1, PTL

\* What the checks under the publication guard established holds until the commit.
THEOREM ChecksHoldUntilCommit == Spec => []ChecksStillHold
<1>1. Inductive => ChecksStillHold
  BY DEF Inductive
<1> QED BY Invariance, <1>1, PTL

\* Every recipe is one author's unforked line of editions with its pointer at the end.
THEOREM EditionsFormChains == Spec => []EditionChain
<1>1. Inductive => EditionChain
  BY DEF Inductive
<1> QED BY Invariance, <1>1, PTL

\* A draft and a key each yield at most one version, however publishing is retried.
THEOREM DraftsPublishOnce == Spec => []PublishedOnce
<1>1. Inductive => PublishedOnce
  BY DEF Inductive
<1> QED BY Invariance, <1>1, PTL

\* Nothing withdrawn by its author or hidden by a moderator is publicly readable.
THEOREM PublicRespectsBothAxes == Spec => []PublicMeansNeitherAxis
<1>1. Inductive => PublicMeansNeitherAxis
  <2> SUFFICES ASSUME Inductive, NEW v \in Public
               PROVE  ~visibility[v].withdrawn /\ ~visibility[v].hidden
    BY DEF PublicMeansNeitherAxis
  <2>1. v \in Published /\ visibility[v].state = "published"
    BY DEF Public
  <2> QED BY <2>1 DEF Inductive, AxesInv, Resolve
<1> QED BY Invariance, <1>1, PTL

\* The numbers of every lineage are 1, 2, ..., as many as it has versions.
THEOREM LineagesAreNumbered == Spec => []LineageNumbering
<1>1. Inductive => LineageNumbering
  <2> SUFFICES ASSUME Inductive, NEW l \in {versions[v].lineage : v \in Published}
               PROVE  {versions[v].number : v \in Line(l)} = 1..Cardinality(Line(l))
    BY DEF LineageNumbering, Line
  <2>1. l \in Versions /\ Line(l) # {}
    BY NoneAssumption DEF Line, Inductive, TypeOK, Published, Version
  <2>2. PICK top \in Line(l) : {versions[v].number : v \in Line(l)} = 1..versions[top].number
    BY <2>1 DEF Inductive, NumberingInv
  <2> DEFINE k == versions[top].number
             f == [v \in Line(l) |-> versions[v].number]
  <2>3. k \in Nat
    BY DEF Line, Published, Inductive, TypeOK, Version
  <2>4. f \in Surjection(Line(l), 1..k)
    BY <2>2 DEF Surjection
  <2>5. f \in Injection(Line(l), 1..k)
    BY <2>1, <2>2 DEF Injection, IsInjective, Inductive, NumberingInv
  <2>6. IsFiniteSet(1..k) /\ Cardinality(1..k) = k
    <3> HIDE DEF k
    <3>1. 1 \in Int /\ k \in Int
      BY <2>3
    <3>2. IsFiniteSet(1..k) /\ Cardinality(1..k) = IF 1 > k THEN 0 ELSE k - 1 + 1
      BY <3>1, FS_Interval
    <3> QED BY <2>3, <3>2
  <2>7. Cardinality(Line(l)) = k
    <3> HIDE DEF f, k
    <3> QED BY <2>4, <2>5, <2>6, FS_Injection
  <2> QED BY <2>2, <2>7
<1> QED BY Invariance, <1>1, PTL

\* No version is published on duplicate evidence that the commit finds outdated.
THEOREM EvidenceIsCurrentAtCommit == Spec => PublishedOnCurrentEvidence
<1>1. Inductive /\ [Next]_vars =>
        [\A v \in Versions : NewlyPublished(v) =>
            LET p == versions'[v].preflight IN
            p.evidence = EvidenceNow(p.structure, p.source)]_vars
  <2> SUFFICES ASSUME Inductive, [Next]_vars, NEW w \in Versions, NewlyPublished(w)
               PROVE  versions'[w].preflight.evidence =
                         EvidenceNow(versions'[w].preflight.structure, versions'[w].preflight.source)
    OBVIOUS
  <2>1. PICK m \in Members, v \in Versions : CommitPublish(m, v)
    BY OnlyCommitPublishes DEF NewlyPublished, Inductive
  <2> DEFINE r == tx[m].request
  <2>2. versions'[w] = NewVersion(m, r, v)
    BY <2>1 DEF CommitPublish, NewlyPublished, Inductive, TypeOK
  <2>3. versions'[w].preflight = r.preflight
    <3>1. NewVersion(m, r, v).preflight = r.preflight
      BY DEF NewVersion
    <3> QED BY <2>2, <3>1
  <2>4. InPhase(m, "validated")
    BY <2>1 DEF CommitPublish
  <2>5. EvidenceAccepted(r)
    <3>1. ChecksStillHold
      BY DEF Inductive
    <3> QED BY <2>4, <3>1 DEF ChecksStillHold
  <2> QED BY <2>3, <2>5 DEF EvidenceAccepted
<1> QED BY Invariance, <1>1, PTL DEF Spec, PublishedOnCurrentEvidence

-----------------------------------------------------------------------------
(* What the tables record of a publication *)

\* Preflights are never deleted, whatever step runs.
LEMMA PreflightsGrow ==
    ASSUME TypeOK, [Next]_vars
    PROVE  preflights \subseteq preflights'
<1>1. CASE UNCHANGED vars
  BY <1>1 DEF vars
<1>2. CASE Next
  BY <1>2, NextCases DEF CreateDraft, SaveDraft, DiscardDraft, RunPreflight, BeginPublish,
        ValidatePublish, AbortPublish, CommitPublish, SetAuthoredVisibility,
        SetModerationVisibility
<1> QED BY <1>1, <1>2

\* A draft that was published is never saved, discarded or published again.
LEMMA TerminalStays ==
    ASSUME Inductive, [Next]_vars, NEW d \in Drafts,
           drafts[d] # None, drafts[d].status = "published"
    PROVE  drafts'[d] = drafts[d]
<1>t. TypeOK
  BY DEF Inductive
<1>1. ASSUME NEW m \in Members, NEW v \in Versions, CommitPublish(m, v)
      PROVE  drafts'[d] = drafts[d]
  <2>1. drafts[tx[m].request.draft].status = "active"
    BY <1>1, CommitFacts
  <2> QED BY <1>1, <1>t, <2>1 DEF CommitPublish, TypeOK
<1>2. ASSUME ~(\E m \in Members, v \in Versions : CommitPublish(m, v)), Next
      PROVE  drafts'[d] = drafts[d]
  BY <1>2, <1>t, NextCases DEF TypeOK, CreateDraft, SaveDraft, DiscardDraft, Editable,
        RunPreflight, BeginPublish, ValidatePublish, AbortPublish, SetAuthoredVisibility,
        SetModerationVisibility
<1> QED BY <1>1, <1>2 DEF vars

\* A transaction keeps its request from Begin to its end.
LEMMA RequestKept ==
    ASSUME Inductive, [Next]_vars, NEW n \in Members, tx'[n] # None
    PROVE  \/ tx[n] # None /\ tx'[n].request = tx[n].request
           \/ /\ tx'[n].request.preflight \in preflights
              /\ OwnedDraft(n, tx'[n].request.draft)
              /\ IntentValid(tx'[n].request)
<1>t. TypeOK
  BY DEF Inductive
<1>1. ASSUME NEW m \in Members, NEW r \in Request, r.preflight \in preflights, BeginPublish(m, r)
      PROVE  \/ tx'[n] = tx[n]
             \/ n = m /\ OwnedDraft(n, r.draft) /\ IntentValid(r) /\ tx'[n].request = r
  <2>1. tx' = [tx EXCEPT ![m] = [phase |-> "waiting", request |-> r]]
    BY <1>1 DEF BeginPublish
  <2>2. OwnedDraft(m, r.draft) /\ IntentValid(r)
    BY <1>1 DEF BeginPublish
  <2> QED BY <1>t, <2>1, <2>2 DEF TypeOK
<1>2. ASSUME NEW m \in Members, ValidatePublish(m)
      PROVE  tx[n] # None /\ tx'[n].request = tx[n].request
  <2>1. tx[m] \in Transaction /\ tx' = [tx EXCEPT ![m] = [tx[m] EXCEPT !.phase = "validated"]]
    BY <1>2, <1>t DEF ValidatePublish, InPhase, TypeOK
  <2>2. CASE n = m
    BY <1>t, <2>1, <2>2, NoneAssumption DEF TypeOK, Transaction
  <2>3. CASE n # m
    BY <1>t, <2>1, <2>3 DEF TypeOK
  <2> QED BY <2>2, <2>3
<1>3. ASSUME NEW m \in Members, AbortPublish(m) \/ \E v \in Versions : CommitPublish(m, v)
      PROVE  tx'[n] = tx[n]
  BY <1>3, <1>t DEF AbortPublish, CommitPublish, TypeOK
<1>4. ASSUME ~(\E m \in Members : ValidatePublish(m) \/ AbortPublish(m)),
             ~(\E m \in Members, v \in Versions : CommitPublish(m, v)),
             ~(\E m \in Members, r \in Request : r.preflight \in preflights /\ BeginPublish(m, r))
      PROVE  tx' = tx
  BY <1>4, <1>t, NextCases DEF vars, CreateDraft, SaveDraft, DiscardDraft, RunPreflight,
        SetAuthoredVisibility, SetModerationVisibility
<1>5. CASE \E m \in Members, r \in Request : r.preflight \in preflights /\ BeginPublish(m, r)
  BY <1>1, <1>5
<1> QED BY <1>2, <1>3, <1>4, <1>5

\* A request in flight keeps its stored preflight and its admissible intent.
LEMMA RequestInvPreserved == Inductive /\ RequestInv /\ [Next]_vars => RequestInv'
<1> SUFFICES ASSUME Inductive, RequestInv, [Next]_vars, NEW n \in Members, tx'[n] # None
             PROVE  (tx[n].request.preflight \in preflights /\ IntentValid(tx[n].request))'
  BY DEF RequestInv
<1> DEFINE r == tx'[n].request
<1>1. preflights \subseteq preflights'
  BY PreflightsGrow DEF Inductive
<1>2. r.preflight \in preflights /\ OwnedDraft(n, r.draft) /\ IntentValid(r) /\ r \in Request
  <2>1. r \in Request
    BY TypePreserved DEF Inductive, TypeOK, Transaction
  <2>2. CASE tx[n] # None /\ r = tx[n].request
    BY <2>1, <2>2 DEF RequestInv, Inductive, TransactionInv
  <2> QED BY <2>1, <2>2, RequestKept
<1>3. r.draft \in Drafts /\ drafts[r.draft] # None
  BY <1>2 DEF OwnedDraft, Request
<1>4. drafts'[r.draft].kind = drafts[r.draft].kind
  BY <1>3, DraftKept
<1> QED BY <1>1, <1>2, <1>4 DEF IntentValid

\* What a commit copies into the version row.
LEMMA NewVersionFields ==
    ASSUME NEW m, NEW r, NEW v
    PROVE  LET e == NewVersion(m, r, v)
               draft == drafts[r.draft]
           IN  /\ e.author = m /\ e.kind = draft.kind /\ e.structure = draft.structure
               /\ e.parent = IF draft.kind = "adaptation" THEN draft.source ELSE None
               /\ e.previous = IF draft.kind = "revision" THEN draft.source ELSE None
               /\ e.recipe = IF draft.kind = "revision" THEN versions[draft.source].recipe ELSE v
               /\ e.edition = IF draft.kind = "revision"
                              THEN versions[draft.source].edition + 1 ELSE 1
               /\ e.reason = r.reason /\ e.draft = r.draft /\ e.revision = draft.revision
               /\ e.action = r.action /\ e.preflight = r.preflight /\ e.decision = r.decision
BY DEF NewVersion

\* A version row keeps agreeing with its draft and its preflight: both are final.
LEMMA SnapshotPreserved ==
    Inductive /\ RequestInv /\ SnapshotIsReviewedDraft /\ [Next]_vars => SnapshotIsReviewedDraft'
<1> SUFFICES ASSUME Inductive, RequestInv, SnapshotIsReviewedDraft, [Next]_vars,
                    NEW w \in Published'
             PROVE  LET e == versions'[w] IN
                    /\ drafts'[e.draft].structure = e.structure
                    /\ drafts'[e.draft].revision = e.revision
                    /\ e.preflight \in preflights'
                    /\ e.preflight.draft = e.draft /\ e.preflight.revision = e.revision
                    /\ e.preflight.structure = e.structure
                    /\ e.decision = IF Distinct(e.preflight.evidence) THEN None ELSE "continue"
  BY DEF SnapshotIsReviewedDraft, Distinct
<1>t. TypeOK
  BY DEF Inductive
<1>g. preflights \subseteq preflights'
  BY <1>t, PreflightsGrow
<1>1. CASE w \in Published
  <2>1. versions'[w] = versions[w]
    BY <1>1, PublishedForever
  <2>2. versions[w].draft \in Drafts
    BY <1>1, <1>t DEF TypeOK, Published, Version
  <2>3. drafts'[versions[w].draft] = drafts[versions[w].draft]
    BY <1>1, <2>2, TerminalStays DEF Inductive, ReferenceInv
  <2> QED BY <1>1, <1>g, <2>1, <2>3 DEF SnapshotIsReviewedDraft
<1>2. CASE w \notin Published
  <2>1. PICK m \in Members, v \in Versions : CommitPublish(m, v)
    BY <1>2, <1>t, OnlyCommitPublishes DEF Published
  <2> DEFINE r == tx[m].request
             draft == drafts[r.draft]
             e == NewVersion(m, r, v)
  <2>2. /\ r \in Request /\ r.draft \in Drafts /\ draft \in Draft
        /\ Published' = Published \cup {v} /\ versions' = [versions EXCEPT ![v] = e]
    BY <2>1, CommitFacts
  <2>3. versions'[w] = e
    BY <1>2, <1>t, <2>2 DEF TypeOK
  <2>4. tx[m] # None /\ r.preflight \in preflights /\ EvidenceAccepted(r)
    BY <2>1 DEF CommitPublish, InPhase, RequestInv, Inductive, ChecksStillHold
  <2>5. drafts'[r.draft] = [draft EXCEPT !.status = "published"]
    BY <1>t, <2>1, <2>2 DEF CommitPublish, TypeOK
  <2>6. drafts'[r.draft].structure = draft.structure /\ drafts'[r.draft].revision = draft.revision
    BY <2>2, <2>5 DEF Draft
  <2>7. /\ e.draft = r.draft /\ e.structure = draft.structure /\ e.revision = draft.revision
        /\ e.preflight = r.preflight /\ e.decision = r.decision
    BY NewVersionFields
  <2> HIDE DEF e
  <2> QED BY <1>g, <2>3, <2>4, <2>6, <2>7 DEF EvidenceAccepted
<1> QED BY <1>1, <1>2

\* The fork event of an adaptation as its version row determines it.
ForkOf(table, v) == [user |-> table[v].author, action |-> table[v].action,
                     source |-> table[v].parent, version |-> v]

\* A commit writes the fork event of the version it inserts, when that is an adaptation.
LEMMA ForksPreserved ==
    Inductive /\ ForkEventsMatchAdaptations /\ [Next]_vars => ForkEventsMatchAdaptations'
<1> SUFFICES ASSUME Inductive, ForkEventsMatchAdaptations, [Next]_vars
             PROVE  ForkEventsMatchAdaptations'
  OBVIOUS
<1>t. TypeOK
  BY DEF Inductive
<1> DEFINE Adapted == {v \in Published : versions[v].kind = "adaptation"}
<1>0. forks = {ForkOf(versions, v) : v \in Adapted}
  BY DEF ForkEventsMatchAdaptations, ForkOf
<1>1. CASE \E m \in Members, v \in Versions : CommitPublish(m, v)
  <2>1. PICK m \in Members, v \in Versions : CommitPublish(m, v)
    BY <1>1
  <2> DEFINE r == tx[m].request
             draft == drafts[r.draft]
             e == NewVersion(m, r, v)
  <2>2. /\ Published' = Published \cup {v} /\ versions' = [versions EXCEPT ![v] = e]
        /\ v \notin Published
    BY <2>1, CommitFacts
  <2>3. versions'[v] = e /\ \A w \in Published : versions'[w] = versions[w] /\ ForkOf(versions', w) = ForkOf(versions, w)
    BY <1>t, <2>2 DEF TypeOK, ForkOf, Published
  <2>4. e.kind = draft.kind /\ e.author = m /\ e.action = r.action
        /\ (draft.kind = "adaptation" => e.parent = draft.source)
    BY NewVersionFields
  <2>5. forks' = forks \cup ForkEvents(m, r, v)
    BY <2>1 DEF CommitPublish
  <2>6. CASE draft.kind = "adaptation"
    <3> HIDE DEF e
    <3>1. ForkOf(versions', v) = [user |-> m, action |-> r.action, source |-> draft.source, version |-> v]
      BY <2>3, <2>4, <2>6 DEF ForkOf
    <3>2. forks' = {ForkOf(versions, w) : w \in Adapted} \cup {ForkOf(versions', v)}
      BY <1>0, <2>5, <2>6, <3>1 DEF ForkEvents
    <3>3. Adapted' = Adapted \cup {v}
      BY <2>2, <2>3, <2>4, <2>6
    <3>4. {ForkOf(versions', w) : w \in Adapted'} = {ForkOf(versions, w) : w \in Adapted} \cup {ForkOf(versions', v)}
      BY <2>3, <3>3
    <3> QED BY <3>2, <3>4 DEF ForkEventsMatchAdaptations, ForkOf
  <2>7. CASE draft.kind # "adaptation"
    <3> HIDE DEF e
    <3>1. forks' = forks
      BY <2>5, <2>7 DEF ForkEvents
    <3>2. Adapted' = Adapted
      BY <2>2, <2>3, <2>4, <2>7
    <3>3. {ForkOf(versions', w) : w \in Adapted'} = {ForkOf(versions, w) : w \in Adapted}
      BY <2>3, <3>2
    <3> QED BY <1>0, <3>1, <3>3 DEF ForkEventsMatchAdaptations, ForkOf
  <2> QED BY <2>6, <2>7
<1>2. CASE ~(\E m \in Members, v \in Versions : CommitPublish(m, v))
  <2>1. UNCHANGED <<versions, current, forks>>
    BY <1>2, <1>t, OnlyCommitPublishes
  <2> QED BY <2>1 DEF ForkEventsMatchAdaptations, Published
<1> QED BY <1>1, <1>2

\* Where a commit puts the version it inserts: into a recipe of its own, or after
\* the current edition of the recipe revised.
LEMMA CommitRows ==
    ASSUME Inductive, NEW m \in Members, NEW v \in Versions, CommitPublish(m, v)
    PROVE  LET r == tx[m].request
               draft == drafts[r.draft]
               source == draft.source
               new == NewVersion(m, r, v)
           IN  /\ new.recipe \in Versions
               /\ versions'[v] = new /\ \A w \in Published : versions'[w] = versions[w]
               /\ current' = [current EXCEPT ![new.recipe] = v]
               /\ \A x \in Versions : v \notin EditionRows(x) /\ EditionRows(x) \subseteq Published
               /\ \A x \in Versions : x = new.recipe => EditionRows(x)' = EditionRows(x) \cup {v}
               /\ \A x \in Versions : x # new.recipe => EditionRows(x)' = EditionRows(x)
               /\ draft.kind # "revision" =>
                     new.recipe = v /\ new.edition = 1 /\ EditionRows(v) = {}
               /\ draft.kind = "revision" =>
                     /\ source \in Public /\ source \in EditionRows(new.recipe)
                     /\ current[new.recipe] = source /\ versions[source].author = m
                     /\ new.edition = versions[source].edition + 1
<1> DEFINE r == tx[m].request
           draft == drafts[r.draft]
           source == draft.source
           new == NewVersion(m, r, v)
<1>t. TypeOK
  BY DEF Inductive
<1>1. /\ Published' = Published \cup {v} /\ v \notin Published
      /\ versions' = [versions EXCEPT ![v] = new] /\ new \in Version /\ SourceReady(m, r)
  BY CommitFacts
<1>2. new.recipe \in Versions
  BY <1>1 DEF Version
<1>3. versions'[v] = new /\ \A w \in Published : versions'[w] = versions[w]
  BY <1>t, <1>1 DEF TypeOK, Published
<1>4. current' = [current EXCEPT ![new.recipe] = v]
  BY DEF CommitPublish
<1>5. \A x \in Versions : v \notin EditionRows(x) /\ EditionRows(x) \subseteq Published
  BY <1>1 DEF EditionRows
<1>6. ASSUME NEW x \in Versions, x = new.recipe
      PROVE  EditionRows(x)' = EditionRows(x) \cup {v}
  <2> HIDE DEF new
  <2> QED BY <1>1, <1>3, <1>6 DEF EditionRows
<1>7. ASSUME NEW x \in Versions, x # new.recipe
      PROVE  EditionRows(x)' = EditionRows(x)
  <2> HIDE DEF new
  <2> QED BY <1>1, <1>3, <1>7 DEF EditionRows
<1>8. new.recipe = (IF draft.kind = "revision" THEN versions[source].recipe ELSE v)
      /\ new.edition = IF draft.kind = "revision" THEN versions[source].edition + 1 ELSE 1
  BY NewVersionFields
<1>9. draft.kind # "revision" => new.recipe = v /\ new.edition = 1 /\ EditionRows(v) = {}
  <2>1. EditionRows(v) = {}
    BY <1>1 DEF EditionRows, Inductive, ReferenceInv
  <2> HIDE DEF new
  <2> QED BY <1>8, <2>1
<1>10. draft.kind = "revision" =>
          /\ source \in Public /\ source \in EditionRows(new.recipe)
          /\ current[new.recipe] = source /\ versions[source].author = m
          /\ new.edition = versions[source].edition + 1
  <2>1. draft.kind = "revision" => source \in Public /\ versions[source].author = m
                                   /\ current[versions[source].recipe] = source
    BY <1>1 DEF SourceReady, OwnedCurrent
  <2> HIDE DEF new
  <2> QED BY <1>8, <2>1 DEF Public, EditionRows
<1> HIDE DEF new
<1> QED BY <1>2, <1>3, <1>4, <1>5, <1>6, <1>7, <1>9, <1>10 DEF new

\* The head of a recipe is one of its editions, and they carry edition numbers.
LEMMA RowsHead ==
    ASSUME TypeOK, EditionChain, NEW r \in Versions, EditionRows(r) # {}
    PROVE  /\ current[r] \in EditionRows(r)
           /\ \A w \in EditionRows(r) : versions[w].edition \in Nat
<1>1. PICK w \in Published : versions[w].recipe = r
  BY DEF EditionRows
<1>2. current[r] \in Published /\ versions[current[r]].recipe = r
  BY <1>1, ChainHead
<1> QED BY <1>2 DEF EditionRows, Published, TypeOK, Version

\* A commit adds the one edition after the current one.
LEMMA EditionsPreserved == Inductive /\ EditionsInv /\ [Next]_vars => EditionsInv'
<1> SUFFICES ASSUME Inductive, EditionsInv, [Next]_vars, NEW x \in Versions, EditionRows(x)' # {}
             PROVE  {versions'[w].edition : w \in EditionRows(x)'} = 1..versions'[current'[x]].edition
  BY DEF EditionsInv
<1>t. TypeOK /\ EditionChain
  BY DEF Inductive
<1>1. CASE \E m \in Members, v \in Versions : CommitPublish(m, v)
  <2>1. PICK m \in Members, v \in Versions : CommitPublish(m, v)
    BY <1>1
  <2> DEFINE r == tx[m].request
             draft == drafts[r.draft]
             source == draft.source
             new == NewVersion(m, r, v)
             Rows == EditionRows(x)
  <2>f. /\ new.recipe \in Versions
        /\ versions'[v] = new /\ \A w \in Published : versions'[w] = versions[w]
        /\ current' = [current EXCEPT ![new.recipe] = v]
        /\ \A y \in Versions : v \notin EditionRows(y) /\ EditionRows(y) \subseteq Published
        /\ \A y \in Versions : y = new.recipe => EditionRows(y)' = EditionRows(y) \cup {v}
        /\ \A y \in Versions : y # new.recipe => EditionRows(y)' = EditionRows(y)
        /\ draft.kind # "revision" =>
              new.recipe = v /\ new.edition = 1 /\ EditionRows(v) = {}
        /\ draft.kind = "revision" =>
              /\ source \in Public /\ source \in EditionRows(new.recipe)
              /\ current[new.recipe] = source /\ versions[source].author = m
              /\ new.edition = versions[source].edition + 1
    BY <2>1, CommitRows
  <2> HIDE DEF new, draft, source
  <2>2. CASE x # new.recipe
    <3>1. EditionRows(x)' = Rows /\ current'[x] = current[x] /\ Rows # {}
      BY <1>t, <2>f, <2>2 DEF TypeOK
    <3>2. current[x] \in Rows
      BY <1>t, <3>1, RowsHead
    <3>3. \A w \in Rows : versions'[w] = versions[w]
      BY <2>f
    <3>4. {versions'[w].edition : w \in Rows} = {versions[w].edition : w \in Rows}
      BY <3>3
    <3> QED BY <3>1, <3>2, <3>3, <3>4 DEF EditionsInv
  <2>3. CASE x = new.recipe /\ draft.kind # "revision"
    <3>1. EditionRows(x)' = {v} /\ versions'[v].edition = 1 /\ current'[x] = v
      BY <1>t, <2>f, <2>3 DEF TypeOK
    <3> QED BY <3>1
  <2>4. CASE x = new.recipe /\ draft.kind = "revision"
    <3>1. EditionRows(x)' = Rows \cup {v} /\ current'[x] = v /\ source \in Rows /\ current[x] = source
      BY <1>t, <2>f, <2>4 DEF TypeOK
    <3>2. versions[source].edition \in Nat /\ versions'[v].edition = versions[source].edition + 1
      BY <1>t, <2>f, <2>4, <3>1, RowsHead
    <3>3. {versions[w].edition : w \in Rows} = 1..versions[source].edition
      BY <3>1 DEF EditionsInv
    <3>4. {versions'[w].edition : w \in Rows \cup {v}}
             = {versions[w].edition : w \in Rows} \cup {versions'[v].edition}
      BY <2>f
    <3>5. 1..(versions[source].edition + 1)
             = (1..versions[source].edition) \cup {versions[source].edition + 1}
      BY <3>2
    <3> QED BY <3>1, <3>2, <3>3, <3>4, <3>5
  <2> QED BY <2>2, <2>3, <2>4
<1>2. CASE ~(\E m \in Members, v \in Versions : CommitPublish(m, v))
  <2>1. UNCHANGED <<versions, current, forks>>
    BY <1>2, <1>t, OnlyCommitPublishes
  <2>2. EditionRows(x)' = EditionRows(x)
    BY <2>1 DEF EditionRows, Published
  <2> QED BY <2>1, <2>2 DEF EditionsInv
<1> QED BY <1>1, <1>2

\* What the tables record of publications holds in every reachable state.
THEOREM RecordsHold == Spec => []RecordInv
<1>1. Init => RecordInv
  <2> SUFFICES ASSUME Init PROVE RecordInv
    OBVIOUS
  <2>1. Published = {}
    BY DEF Init, Published
  <2>2. RequestInv
    BY DEF Init, RequestInv
  <2>3. SnapshotIsReviewedDraft /\ EditionsInv
    BY <2>1 DEF SnapshotIsReviewedDraft, EditionsInv, EditionRows
  <2>4. ForkEventsMatchAdaptations
    BY <2>1 DEF Init, ForkEventsMatchAdaptations
  <2> QED BY <2>2, <2>3, <2>4 DEF RecordInv
<1>2. Inductive /\ RecordInv /\ [Next]_vars => RecordInv'
  BY RequestInvPreserved, SnapshotPreserved, ForksPreserved, EditionsPreserved DEF RecordInv
<1> QED BY Invariance, <1>1, <1>2, PTL DEF Spec

\* What becomes public is the draft as last saved and as the preflight examined it.
THEOREM SnapshotsAreReviewed == Spec => []SnapshotIsReviewedDraft
<1>1. RecordInv => SnapshotIsReviewedDraft
  BY DEF RecordInv
<1> QED BY RecordsHold, <1>1, PTL

\* Fork events and adaptations correspond, one to one.
THEOREM ForksAreAdaptations == Spec => []ForkEventsMatchAdaptations
<1>1. RecordInv => ForkEventsMatchAdaptations
  BY DEF RecordInv
<1> QED BY RecordsHold, <1>1, PTL

\* A correction withdraws only the edition it succeeds, and takes its place at once.
THEOREM CorrectionsHandOver == Spec => CorrectionHandsOver
<1>1. Inductive /\ RecordInv /\ [Next]_vars =>
        [\A v \in Versions, w \in Published :
            NewlyPublished(v) /\ w \in Public /\ w \notin Public' =>
               /\ versions'[v].previous = w
               /\ versions'[v].reason = "correction"
               /\ v \in Public'
               /\ current'[versions[w].recipe] = v]_vars
  <2> SUFFICES ASSUME Inductive, RecordInv, [Next]_vars, NEW x \in Versions, NEW w \in Published,
                      NewlyPublished(x), w \in Public, w \notin Public'
               PROVE  /\ versions'[x].previous = w
                      /\ versions'[x].reason = "correction"
                      /\ x \in Public'
                      /\ current'[versions[w].recipe] = x
    OBVIOUS
  <2>t. TypeOK
    BY DEF Inductive
  <2>1. PICK m \in Members, v \in Versions : CommitPublish(m, v)
    BY <2>t, OnlyCommitPublishes DEF NewlyPublished
  <2> DEFINE r == tx[m].request
             draft == drafts[r.draft]
             source == draft.source
             new == NewVersion(m, r, v)
  <2>2. Published' = Published \cup {v} /\ v \notin Published
        /\ versions' = [versions EXCEPT ![v] = new]
    BY <2>1, CommitFacts
  <2>3. x = v
    BY <2>t, <2>2 DEF NewlyPublished, TypeOK
  <2>4. w # v /\ w \in Published' /\ visibility'[w].state # "published"
        /\ visibility[w].state = "published"
    BY <2>2 DEF Public
  <2>5. r.withdraw /\ w = source
    BY <2>1, <2>4 DEF CommitPublish, Published
  <2>6. draft.kind = "revision" /\ r.reason = "correction"
    <3>1. IntentValid(r)
      BY <2>1 DEF CommitPublish, InPhase, RecordInv, RequestInv
    <3> QED BY <2>5, <3>1 DEF IntentValid
  <2>7. /\ new.previous = source /\ new.reason = "correction"
        /\ new.recipe = versions[source].recipe
    BY <2>6, NewVersionFields
  <2>8. new.recipe \in Versions /\ versions'[v] = new /\ current' = [current EXCEPT ![new.recipe] = v]
    BY <2>1, CommitRows
  <2>9. visibility'[v].state = "published"
    BY <2>1 DEF CommitPublish
  <2> HIDE DEF new
  <2>10. v \in Public' /\ current'[new.recipe] = v
    BY <2>t, <2>2, <2>8, <2>9 DEF Public, TypeOK
  <2> QED BY <2>3, <2>5, <2>7, <2>8, <2>10
<1> QED BY Invariance, RecordsHold, <1>1, PTL DEF Spec, CorrectionHandsOver

-----------------------------------------------------------------------------
(* The tables read as histories *)

\* A line of versions has each row of a recipe in the place of its edition.
InOrder(line, rows, table) ==
    /\ line \in Seq(Versions)
    /\ \A w \in rows : table[w].edition \in 1..Len(line) /\ line[table[w].edition] = w
    /\ \A n \in 1..Len(line) : line[n] \in rows /\ table[line[n]].edition = n

LinesHold ==
    \A r \in Versions :
        /\ InOrder(EditionLine(r), EditionRows(r), versions)
        /\ EditionRows(r) # {} => Len(EditionLine(r)) = versions[current[r]].edition

\* Distinct editions numbered without a gap make a sequence of all of them.
LEMMA LinesAreRows == TypeOK /\ EditionChain /\ EditionsInv => LinesHold
<1> SUFFICES ASSUME TypeOK, EditionChain, EditionsInv, NEW r \in Versions
             PROVE  /\ InOrder(EditionLine(r), EditionRows(r), versions)
                    /\ EditionRows(r) # {} => Len(EditionLine(r)) = versions[current[r]].edition
  BY DEF LinesHold
<1> DEFINE rows == EditionRows(r)
           line == EditionLine(r)
           k == IF rows = {} THEN 0 ELSE versions[current[r]].edition
           ed(w) == versions[w].edition
<1>1. k \in Nat
  BY RowsHead
<1>2. {ed(w) : w \in rows} = 1..k
  BY DEF EditionsInv
<1>3. \A w, x \in rows : ed(w) = ed(x) => w = x
  BY ChainUnique DEF EditionRows
<1>4. IsFiniteSet(1..k) /\ Cardinality(1..k) = k
  <2> HIDE DEF k
  <2>1. 1 \in Int /\ k \in Int
    BY <1>1
  <2>2. IsFiniteSet(1..k) /\ Cardinality(1..k) = IF 1 > k THEN 0 ELSE k - 1 + 1
    BY <2>1, FS_Interval
  <2> QED BY <1>1, <2>2
<1>5. Cardinality(rows) = k
  <2> DEFINE f == [w \in rows |-> ed(w)]
  <2>1. f \in Surjection(rows, 1..k)
    BY <1>2 DEF Surjection
  <2>2. f \in Injection(rows, 1..k)
    <3> HIDE DEF rows, k
    <3> QED BY <1>2, <1>3 DEF Injection, IsInjective
  <2> HIDE DEF f, k, rows
  <2> QED BY <1>4, <2>1, <2>2, FS_Injection
<1>6. line = [n \in 1..k |-> CHOOSE w \in rows : versions[w].edition = n]
  BY <1>5 DEF EditionLine
<1>7. \A n \in 1..k : line[n] \in rows /\ ed(line[n]) = n
  <2> TAKE n \in 1..k
  <2> HIDE DEF rows, k
  <2>1. \E w \in rows : ed(w) = n
    BY <1>2
  <2>2. line[n] = CHOOSE w \in rows : versions[w].edition = n
    BY <1>6
  <2> HIDE DEF line
  <2> QED BY <2>1, <2>2
<1>8. line \in [1..k -> Versions]
  <2>1. rows \subseteq Versions
    BY DEF EditionRows, Published
  <2> HIDE DEF rows, k
  <2>2. DOMAIN line = 1..k /\ line = [n \in 1..k |-> line[n]]
    BY <1>6
  <2> HIDE DEF line
  <2> QED BY <1>7, <2>1, <2>2
<1> HIDE DEF line, k
<1>9. line \in Seq(Versions)
  BY <1>1, <1>8, SeqDef
<1>10. Len(line) = k
  <2>1. DOMAIN line = 1..Len(line) /\ Len(line) \in Nat
    BY <1>9, LenProperties
  <2> QED BY <1>1, <1>8, <2>1
<1>11. \A w \in rows : ed(w) \in 1..k
  BY <1>2
<1>12. \A w \in rows : line[ed(w)] = w
  BY <1>3, <1>7, <1>11
<1>13. InOrder(line, rows, versions)
  <2> HIDE DEF rows
  <2> QED BY <1>7, <1>9, <1>10, <1>11, <1>12 DEF InOrder
<1> QED BY <1>10, <1>13 DEF k, line

\* Rows and their order determine the line.
LEMMA LineStays ==
    ASSUME NEW line, NEW next, NEW rows, NEW table, NEW table2,
           InOrder(line, rows, table), InOrder(next, rows, table2),
           \A w \in rows : table2[w] = table[w]
    PROVE  next = line
<1>1. Len(line) \in Nat /\ Len(next) \in Nat
  BY LenProperties DEF InOrder
<1>2. \A n \in 1..Len(line) : n \in 1..Len(next) /\ next[n] = line[n]
  BY DEF InOrder
<1>3. \A n \in 1..Len(next) : n \in 1..Len(line)
  BY DEF InOrder
<1>4. Len(line) = Len(next)
  BY <1>1, <1>2, <1>3
<1> QED BY <1>2, <1>4, SeqEqual DEF InOrder

\* The edition of v is the one after the last of a line.
Follows(v, line, table) == table[v].edition = Len(line) + 1

\* A recipe that gains the edition after its last gains it at the end of its line.
LEMMA LineGrows ==
    ASSUME NEW line, NEW next, NEW rows, NEW more, NEW table, NEW table2, NEW v \in Versions,
           InOrder(line, rows, table), InOrder(next, more, table2), more = rows \cup {v},
           \A w \in rows : table2[w] = table[w],
           Follows(v, line, table2)
    PROVE  next = Append(line, v)
<1> DEFINE longer == Append(line, v)
<1>1. Len(line) \in Nat /\ Len(next) \in Nat
  BY LenProperties DEF InOrder
<1>2. /\ longer \in Seq(Versions) /\ Len(longer) = Len(line) + 1
      /\ \A n \in 1..Len(line) : longer[n] = line[n]
      /\ longer[Len(line) + 1] = v
  BY AppendProperties DEF InOrder
<1> HIDE DEF longer
<1>3. \A n \in 1..Len(line) : n \in 1..Len(next) /\ next[n] = line[n]
  BY DEF InOrder
<1>4. Len(line) + 1 \in 1..Len(next) /\ next[Len(line) + 1] = v
  BY DEF InOrder, Follows
<1>5. \A n \in 1..Len(next) : n <= Len(line) + 1
  <2> SUFFICES ASSUME NEW n \in 1..Len(next) PROVE n <= Len(line) + 1
    OBVIOUS
  <2>1. next[n] \in rows \cup {v} /\ table2[next[n]].edition = n
    BY DEF InOrder
  <2>2. CASE next[n] = v
    BY <1>1, <2>1, <2>2 DEF Follows
  <2>3. CASE next[n] \in rows
    BY <1>1, <2>1, <2>3 DEF InOrder
  <2> QED BY <2>1, <2>2, <2>3
<1>6. Len(next) = Len(line) + 1
  BY <1>1, <1>4, <1>5
<1>7. \A n \in 1..Len(longer) : longer[n] = next[n]
  BY <1>1, <1>2, <1>3, <1>4
<1>8. longer = next
  BY <1>2, <1>6, <1>7, SeqEqual DEF InOrder
<1> QED BY <1>8 DEF longer

\* The versions that appear in the lines are the published ones.
LEMMA EditionIsPublished ==
    ASSUME Inductive, LinesHold, NEW v \in Versions
    PROVE  History!Edition(v) <=> v \in Published
<1> DEFINE lines == [r \in Versions |-> EditionLine(r)]
<1>1. ASSUME NEW r \in Versions, NEW i \in 1..Len(lines[r]), lines[r][i] = v
      PROVE  v \in Published
  <2>1. lines[r] = EditionLine(r)
    OBVIOUS
  <2> HIDE DEF lines
  <2>2. i \in 1..Len(EditionLine(r)) /\ EditionLine(r)[i] = v
    BY <1>1, <2>1
  <2>3. EditionLine(r)[i] \in EditionRows(r)
    BY <2>2 DEF LinesHold, InOrder
  <2> QED BY <2>2, <2>3 DEF EditionRows
<1>2. ASSUME v \in Published
      PROVE  \E r \in Versions : \E i \in 1..Len(lines[r]) : lines[r][i] = v
  <2> DEFINE r == versions[v].recipe
             n == versions[v].edition
  <2>1. r \in Versions /\ v \in EditionRows(r)
    BY <1>2 DEF Inductive, ReferenceInv, Published, EditionRows
  <2>2. lines[r] = EditionLine(r)
    BY <2>1
  <2> HIDE DEF lines, r
  <2>3. n \in 1..Len(EditionLine(r)) /\ EditionLine(r)[n] = v
    BY <2>1 DEF LinesHold, InOrder
  <2> QED BY <2>1, <2>2, <2>3
<1> HIDE DEF lines
<1> QED BY <1>1, <1>2 DEF History!Edition, lines

\* What a commit makes readable, and what it withdraws in the same step.
LEMMA CommitShows ==
    ASSUME Inductive, NEW m \in Members, NEW v \in Versions, CommitPublish(m, v)
    PROVE  LET r == tx[m].request
               source == drafts[r.draft].source
           IN  Public' = (Public \ (IF r.withdraw THEN {source} ELSE {})) \cup {v}
<1> DEFINE r == tx[m].request
           source == drafts[r.draft].source
           gone == IF r.withdraw THEN {source} ELSE {}
<1>1. Published' = Published \cup {v} /\ v \notin Published
  BY CommitFacts
<1>2. visibility'[v].state = "published"
  BY DEF CommitPublish
<1>3. ASSUME NEW w \in Published, w \notin gone
      PROVE  visibility'[w] = visibility[w]
  BY <1>1, <1>3 DEF CommitPublish, Published
<1>4. ASSUME NEW w \in Published, w \in gone
      PROVE  visibility'[w].state # "published"
  <2>1. visibility'[w] = SetAxes(visibility[w], TRUE, visibility[w].hidden)
    BY <1>1, <1>4 DEF CommitPublish, Published
  <2>2. visibility[w] \in Visibility
    BY DEF Inductive, VisibilityInv, TypeOK, Published
  <2> QED BY <2>1, <2>2 DEF SetAxes, Resolve, Visibility
<1> HIDE DEF gone
<1>5. Public' = (Public \ gone) \cup {v}
  BY <1>1, <1>2, <1>3, <1>4 DEF Public
<1> QED BY <1>5 DEF gone

\* A commit is a start or a revision of a recipe, seen whole.
LEMMA CommitIsHistory ==
    ASSUME Inductive, LinesHold, LinesHold', RequestInv,
           NEW m \in Members, NEW v \in Versions, CommitPublish(m, v)
    PROVE  History!Next
<1> DEFINE r == tx[m].request
           draft == drafts[r.draft]
           source == draft.source
           new == NewVersion(m, r, v)
           recipe == new.recipe
           lines == [x \in Versions |-> EditionLine(x)]
           owners == [x \in Versions |-> Owner(x)]
           origins == [x \in Versions |-> Origin(x)]
<1>t. TypeOK
  BY DEF Inductive
<1>1. /\ Published' = Published \cup {v} /\ v \notin Published
      /\ (draft.kind # "original" => source \in Public)
  BY CommitFacts
<1>2. /\ recipe \in Versions
      /\ versions'[v] = new /\ \A w \in Published : versions'[w] = versions[w]
      /\ \A x \in Versions : v \notin EditionRows(x) /\ EditionRows(x) \subseteq Published
      /\ \A x \in Versions : x = recipe => EditionRows(x)' = EditionRows(x) \cup {v}
      /\ \A x \in Versions : x # recipe => EditionRows(x)' = EditionRows(x)
      /\ draft.kind # "revision" =>
            recipe = v /\ new.edition = 1 /\ EditionRows(v) = {}
      /\ draft.kind = "revision" =>
            /\ source \in Public /\ source \in EditionRows(recipe)
            /\ current[recipe] = source /\ versions[source].author = m
            /\ new.edition = versions[source].edition + 1
  BY CommitRows
<1>3. new.author = m /\ new.parent = IF draft.kind = "adaptation" THEN source ELSE None
  BY NewVersionFields
<1>4. IntentValid(r)
  BY DEF CommitPublish, InPhase, RequestInv
<1>5. Public' = (Public \ (IF r.withdraw THEN {source} ELSE {})) \cup {v}
  BY CommitShows
<1>6. ~History!Edition(v)
  BY <1>1, EditionIsPublished
<1>7. lines' = [x \in Versions |-> EditionLine(x)']
  OBVIOUS
<1>8. owners' = [owners EXCEPT ![v] = m]
  <2>1. \A x \in Versions : Owner(x)' = IF x = v THEN m ELSE Owner(x)
    <3> HIDE DEF new
    <3> QED BY <1>1, <1>2, <1>3 DEF Owner
  <2> QED BY <2>1
<1>9. origins' = [origins EXCEPT ![v] = IF draft.kind = "adaptation" THEN source ELSE None]
  <2>1. \A x \in Versions :
           Origin(x)' = IF x = v THEN IF draft.kind = "adaptation" THEN source ELSE None
                                 ELSE Origin(x)
    <3> HIDE DEF new
    <3> QED BY <1>1, <1>2, <1>3 DEF Origin
  <2> QED BY <2>1
<1> HIDE DEF new, recipe
<1>10. ASSUME NEW x \in Versions, x # recipe
       PROVE  EditionLine(x)' = EditionLine(x)
  <2>1. InOrder(EditionLine(x), EditionRows(x), versions)
        /\ InOrder(EditionLine(x)', EditionRows(x)', versions')
    BY DEF LinesHold
  <2>2. EditionRows(x)' = EditionRows(x) /\ \A w \in EditionRows(x) : versions'[w] = versions[w]
    BY <1>2, <1>10
  <2> QED BY <2>1, <2>2, LineStays
<1>11. ASSUME NEW x \in Versions, x = recipe, versions'[v].edition = Len(EditionLine(x)) + 1
       PROVE  EditionLine(x)' = Append(EditionLine(x), v)
  <2>1. InOrder(EditionLine(x), EditionRows(x), versions)
        /\ InOrder(EditionLine(x)', EditionRows(x)', versions')
    BY DEF LinesHold
  <2>2. EditionRows(x)' = EditionRows(x) \cup {v} /\ \A w \in EditionRows(x) : versions'[w] = versions[w]
    BY <1>2, <1>11
  <2>3. Follows(v, EditionLine(x), versions')
    BY <1>11 DEF Follows
  <2> QED BY <2>1, <2>2, <2>3, LineGrows
<1>12. CASE draft.kind # "revision"
  <2> DEFINE from == IF draft.kind = "adaptation" THEN source ELSE None
  <2>1. recipe = v /\ new.edition = 1 /\ EditionRows(v) = {}
    BY <1>2, <1>12
  <2>2. EditionLine(v) = <<>>
    <3>1. EditionLine(v) \in Seq(Versions) /\ \A n \in 1..Len(EditionLine(v)) : FALSE
      BY <2>1 DEF LinesHold, InOrder
    <3>2. Len(EditionLine(v)) \in Nat
      BY <3>1, LenProperties
    <3>3. Len(EditionLine(v)) = 0
      BY <3>1, <3>2
    <3> QED BY <3>1, <3>3, EmptySeq
  <2>3. EditionLine(v)' = <<v>>
    <3>1. versions'[v].edition = Len(EditionLine(v)) + 1
      BY <1>2, <2>1, <2>2, EmptySeq
    <3>2. EditionLine(v)' = Append(<<>>, v)
      BY <1>11, <2>1, <2>2, <3>1
    <3> QED BY <3>2
  <2>4. lines' = [lines EXCEPT ![v] = <<v>>]
    BY <1>7, <1>10, <2>1, <2>3
  <2>5. from \in Public \cup {None}
    BY <1>1
  <2>6. Public' = Public \cup {v}
    BY <1>4, <1>5, <1>12 DEF IntentValid
  <2>7. from \in Versions \cup {None}
    BY <2>5 DEF Public, Published
  <2> HIDE DEF lines, owners, origins, from
  <2>8. origins' = [origins EXCEPT ![v] = from]
    BY <1>9 DEF from
  <2>9. History!Start(m, v, from)
    BY <1>6, <1>8, <2>4, <2>5, <2>6, <2>8 DEF History!Start, lines, owners, origins
  <2> QED BY <2>7, <2>9 DEF History!Next
<1>13. CASE draft.kind = "revision"
  <2>1. /\ source \in Public /\ source \in EditionRows(recipe)
        /\ current[recipe] = source /\ versions[source].author = m
        /\ new.edition = versions[source].edition + 1
    BY <1>2, <1>13
  <2> DEFINE line == lines[recipe]
  <2>2. line = EditionLine(recipe)
    BY <1>2
  <2>3. /\ line \in Seq(Versions) /\ Len(line) = versions[source].edition
        /\ Len(line) \in 1..Len(line) /\ line[Len(line)] = source
    <3> HIDE DEF line
    <3>1. InOrder(line, EditionRows(recipe), versions) /\ Len(line) = versions[source].edition
      BY <1>2, <2>1, <2>2 DEF LinesHold
    <3> QED BY <2>1, <3>1 DEF InOrder
  <2>4. line # <<>>
    BY <2>3, EmptySeq
  <2>5. versions'[v].edition = Len(line) + 1
    BY <1>2, <2>1, <2>3
  <2>6. ASSUME NEW x \in Versions, x = recipe
        PROVE  EditionLine(x)' = Append(line, v)
    BY <1>11, <2>2, <2>5, <2>6
  <2>7. lines' = [lines EXCEPT ![recipe] = Append(line, v)]
    <3> HIDE DEF line
    <3> QED BY <1>2, <1>7, <1>10, <2>6
  <2>8. origins' = origins
    <3>1. origins[v] = None
      BY <1>1 DEF Origin
    <3> QED BY <1>9, <1>13, <3>1
  <2>9. owners[source] = m
    BY <2>1 DEF Owner, Public, Published
  <2>10. r.withdraw \in BOOLEAN
    BY CommitFacts DEF Request
  <2> HIDE DEF lines, owners, origins
  <2>11. History!Revise(m, recipe, v, r.withdraw)
    BY <1>5, <1>6, <1>8, <2>1, <2>3, <2>4, <2>7, <2>8, <2>9
       DEF History!Revise, lines, owners, origins
  <2> QED BY <1>2, <2>10, <2>11 DEF History!Next
<1> QED BY <1>12, <1>13

\* Moving an axis of one row shows or hides one version and nothing else.
LEMMA AxisIsHistory ==
    ASSUME Inductive, LinesHold, UNCHANGED versions, NEW v \in Published,
           NEW row \in Visibility, visibility' = [visibility EXCEPT ![v] = row]
    PROVE  History!Next
<1> DEFINE lines == [x \in Versions |-> EditionLine(x)]
           owners == [x \in Versions |-> Owner(x)]
           origins == [x \in Versions |-> Origin(x)]
<1>1. Published' = Published /\ v \in Versions
  BY DEF Published
<1>2. lines' = lines /\ owners' = owners /\ origins' = origins
  BY <1>1 DEF EditionLine, EditionRows, Owner, Origin
<1>3. \A w \in Published : visibility'[w] = IF w = v THEN row ELSE visibility[w]
  BY DEF Inductive, TypeOK, Published
<1>4. History!Edition(v)
  BY <1>1, EditionIsPublished
<1> HIDE DEF lines, owners, origins
<1>5. CASE row.state = "published"
  <2>1. Public' = Public \cup {v}
    BY <1>1, <1>3, <1>5 DEF Public
  <2>2. History!Show(v)
    BY <1>2, <1>4, <2>1 DEF History!Show, lines, owners, origins
  <2> QED BY <1>1, <2>2 DEF History!Next
<1>6. CASE row.state # "published"
  <2>1. Public' = Public \ {v}
    BY <1>1, <1>3, <1>6 DEF Public
  <2>2. History!Hide(v)
    BY <1>2, <2>1 DEF History!Hide, lines, owners, origins
  <2> QED BY <1>1, <2>2 DEF History!Next
<1> QED BY <1>5, <1>6

\* A step that publishes nothing and moves no axis is no step of the history.
LEMMA QuietIsHistory ==
    ASSUME UNCHANGED <<versions, visibility>>
    PROVE  UNCHANGED History!vars
<1>1. Published' = Published
  BY DEF Published
<1>2. Public' = Public
  BY <1>1 DEF Public
<1>3. [x \in Versions |-> EditionLine(x)]' = [x \in Versions |-> EditionLine(x)]
  BY <1>1 DEF EditionLine, EditionRows
<1>4. /\ [x \in Versions |-> Owner(x)]' = [x \in Versions |-> Owner(x)]
      /\ [x \in Versions |-> Origin(x)]' = [x \in Versions |-> Origin(x)]
  BY <1>1 DEF Owner, Origin
<1> QED BY <1>2, <1>3, <1>4 DEF History!vars

\* Every step of Publication is a step of the history, or none.
LEMMA HistoryStep ==
    Inductive /\ RequestInv /\ LinesHold /\ LinesHold' /\ [Next]_vars
        => [History!Next]_(History!vars)
<1> SUFFICES ASSUME Inductive, RequestInv, LinesHold, LinesHold', [Next]_vars
             PROVE  History!Next \/ UNCHANGED History!vars
  OBVIOUS
<1>t. TypeOK
  BY DEF Inductive
<1>1. CASE \E m \in Members, v \in Versions : CommitPublish(m, v)
  BY <1>1, CommitIsHistory
<1>2. ASSUME NEW m \in Members, NEW v \in Versions, NEW withdrawn \in BOOLEAN,
             SetAuthoredVisibility(m, v, withdrawn)
      PROVE  History!Next
  <2>1. v \in Published /\ UNCHANGED versions
        /\ visibility' = [visibility EXCEPT ![v] = SetAxes(visibility[v], withdrawn, visibility[v].hidden)]
    BY <1>2 DEF SetAuthoredVisibility
  <2>2. visibility[v] \in Visibility /\ visibility[v].hidden \in BOOLEAN
    BY <1>t, <2>1 DEF Inductive, VisibilityInv, TypeOK, Published, Visibility
  <2>3. SetAxes(visibility[v], withdrawn, visibility[v].hidden) \in Visibility
    BY <2>2, AxesType
  <2> QED BY <2>1, <2>3, AxisIsHistory
<1>3. ASSUME NEW m \in Members, NEW v \in Versions, NEW hidden \in BOOLEAN,
             SetModerationVisibility(m, v, hidden)
      PROVE  History!Next
  <2>1. v \in Published /\ UNCHANGED versions
        /\ visibility' = [visibility EXCEPT ![v] = SetAxes(visibility[v], visibility[v].withdrawn, hidden)]
    BY <1>3 DEF SetModerationVisibility
  <2>2. visibility[v] \in Visibility /\ visibility[v].withdrawn \in BOOLEAN
    BY <1>t, <2>1 DEF Inductive, VisibilityInv, TypeOK, Published, Visibility
  <2>3. SetAxes(visibility[v], visibility[v].withdrawn, hidden) \in Visibility
    BY <2>2, AxesType
  <2> QED BY <2>1, <2>3, AxisIsHistory
<1>4. ASSUME UNCHANGED <<versions, visibility>>
      PROVE  UNCHANGED History!vars
  BY <1>4, QuietIsHistory
<1>5. CASE UNCHANGED vars
  BY <1>4, <1>5 DEF vars
<1>6. CASE Next
  <2>1. CASE \E m \in Members, d \in Drafts, kind \in Kinds, source \in Versions \cup {None} :
                CreateDraft(m, d, kind, source)
    BY <1>4, <2>1 DEF CreateDraft
  <2>2. CASE \E m \in Members, d \in Drafts, revision \in Revisions :
                \/ \E s \in Structures \cup {None} : SaveDraft(m, d, revision, s)
                \/ DiscardDraft(m, d, revision)
                \/ RunPreflight(m, d, revision)
    BY <1>4, <2>2 DEF SaveDraft, DiscardDraft, RunPreflight
  <2>3. CASE \E m \in Members, r \in Request : r.preflight \in preflights /\ BeginPublish(m, r)
    BY <1>4, <2>3 DEF BeginPublish
  <2>4. CASE \E m \in Members : ValidatePublish(m) \/ AbortPublish(m)
    BY <1>4, <2>4 DEF ValidatePublish, AbortPublish
  <2> QED BY <1>t, <1>1, <1>2, <1>3, <1>6, <2>1, <2>2, <2>3, <2>4, NextCases
<1> QED BY <1>5, <1>6

\* The publication tables implement the recipe histories that readers are promised.
THEOREM ImplementsHistory == Spec => RefinesHistory
<1>1. Init => History!Init
  <2> SUFFICES ASSUME Init PROVE History!Init
    OBVIOUS
  <2>1. Published = {} /\ Public = {}
    BY DEF Init, Published, Public
  <2>2. \A r \in Versions : EditionLine(r) = <<>>
    <3> TAKE r \in Versions
    <3>1. EditionRows(r) = {}
      BY <2>1 DEF EditionRows
    <3>2. Cardinality(EditionRows(r)) = 0
      BY <3>1, FS_EmptySet
    <3> QED BY <3>2 DEF EditionLine
  <2>3. \A v \in Versions : Owner(v) = None /\ Origin(v) = None
    BY <2>1 DEF Owner, Origin
  <2> QED BY <2>1, <2>2, <2>3 DEF History!Init
<1>2. Inductive /\ RecordInv => RequestInv /\ LinesHold
  BY LinesAreRows DEF Inductive, RecordInv
<1>3. Inductive /\ RequestInv /\ LinesHold /\ LinesHold' /\ [Next]_vars
         => [History!Next]_(History!vars)
  BY HistoryStep
<1> QED BY Invariance, RecordsHold, <1>1, <1>2, <1>3, PTL DEF Spec, RefinesHistory, History!Spec

=============================================================================
