------------------------------ MODULE Publication ------------------------------
(***************************************************************************)
(* Private drafts, duplicate preflights, publication of immutable recipe   *)
(* versions, and the two visibility axes of a published version.           *)
(*                                                                         *)
(* One action is one handler's database transaction.  Publishing is the    *)
(* exception: its transaction is cut where another member's transaction    *)
(* can still commit, i.e. before the advisory publication guard is granted *)
(* and between the checks made under the guard and the final commit.       *)
(*                                                                         *)
(* A handler locks the member's user row before anything else, so a member *)
(* with a publication in flight (tx[m] # None) has no other request that   *)
(* writes; requests of other members interleave freely.  A request that is *)
(* refused, or answered from what an earlier request with its              *)
(* Idempotency-Key stored, changes no table: it is a stuttering step and   *)
(* has no action here.  Creating a draft and running a preflight therefore *)
(* appear once per fresh key and their keys are not kept; the key of a     *)
(* publication is, because a receipt binds it to one draft.                *)
(*                                                                         *)
(* An operator named Slip... is no part of the specification: it is the    *)
(* operator after it with one plausible mistake, and some property below   *)
(* fails when it takes that operator's place.                              *)
(***************************************************************************)
EXTENDS Integers, FiniteSets, FiniteSetsExt

CONSTANTS Members,        \* member accounts
          Authors,        \* the members who write recipes in this instance
          Moderators,     \* the members with the moderation capability
          Drafts,         \* draft identifiers a member may be given
          Versions,       \* recipe version identifiers, ordered like their text
          Actions,        \* Idempotency-Key values of publication requests
          Structures,     \* canonical structural fingerprints
          Probable,       \* pairs of structures scored as probable duplicates
          MaxCandidates,  \* MAX_PUBLIC_DUPLICATE_CANDIDATES
          MaxRevision,    \* bound on the number of saves of one draft
          DraftKinds,     \* the draft kinds members use in this instance
          Intents,        \* the <<declared reason, withdraw>> pairs they send
          None            \* SQL NULL, and a row that does not exist

Revisions == 1..MaxRevision
Kinds  == {"original", "adaptation", "revision"}
States == {"published", "author_withdrawn", "moderation_hidden"}

Draft == [author : Members, kind : Kinds,
          source : Versions \cup {None}, status : {"active", "published", "discarded"},
          revision : Revisions, structure : Structures \cup {None}]

Evidence == [candidates : SUBSET Versions, noChange : BOOLEAN]

\* A preflight is told apart by what it holds: its draft (whose author ran it),
\* the revision and structure examined, and the evidence found.
Preflight == [draft : Drafts, revision : Revisions, source : Versions \cup {None},
              structure : Structures, evidence : Evidence]

Reasons == {"correction", "update", None}

Request == [draft : Drafts, action : Actions, revision : Revisions, preflight : Preflight,
            decision : {"continue", None}, reason : Reasons, withdraw : BOOLEAN]

\* A version with its edition row and its publication receipt.  A recipe and a
\* lineage are named by the first version published in them.
Version == [author : Members, kind : Kinds, structure : Structures,
            lineage : Versions, number : Nat, parent : Versions \cup {None},
            recipe : Versions, edition : Nat, previous : Versions \cup {None},
            reason : Reasons, draft : Drafts, revision : Revisions, action : Actions,
            preflight : Preflight, decision : {"continue", None}]

Visibility == [state : States, withdrawn : BOOLEAN, hidden : BOOLEAN]

ForkEvent == [user : Members, action : Actions, source : Versions, version : Versions]

Transaction == [phase : {"waiting", "validated"}, request : Request]

ASSUME VersionsAssumption == Versions \subseteq Nat
ASSUME MembersAssumption == Authors \subseteq Members /\ Moderators \subseteq Members
ASSUME BoundsAssumption == /\ MaxCandidates \in Nat /\ MaxRevision \in Nat \ {0}
                           /\ DraftKinds \subseteq Kinds /\ Intents \subseteq Reasons \X BOOLEAN
ASSUME NoneAssumption == /\ None \notin Versions \cup Members \cup Structures
                         /\ None \notin Draft \cup Version \cup Visibility \cup Transaction
                         /\ None \notin {"continue", "correction", "update"}

VARIABLES drafts,      \* recipe_drafts
          preflights,  \* recipe_duplicate_preflights with their candidates
          versions,    \* recipe_versions, recipe_editions and publication receipts
          current,     \* recipes.current_recipe_version_id
          visibility,  \* the mutable columns of recipe_version_publications
          forks,       \* preference events of type fork
          tx,          \* the publication transaction each member has open
          guard        \* holder of the advisory publication guard

vars == <<drafts, preflights, versions, current, visibility, forks, tx, guard>>

Init == /\ drafts = [d \in Drafts |-> None]
        /\ preflights = {}
        /\ versions = [v \in Versions |-> None]
        /\ current = [v \in Versions |-> None]
        /\ visibility = [v \in Versions |-> None]
        /\ forks = {}
        /\ tx = [m \in Members |-> None]
        /\ guard = None

-----------------------------------------------------------------------------
(* Reading the tables *)

Published == {v \in Versions : versions[v] # None}

Public == {v \in Published : visibility[v].state = "published"}

OwnedDraft(m, d) == drafts[d] # None /\ drafts[d].author = m

SlipAnyEdition(m, v) == v \in Public /\ versions[v].author = m

SlipAnyAuthor(m, v) == v \in Public /\ current[versions[v].recipe] = v

\* get_owned_current_revision_source_for_update
OwnedCurrent(m, v) == /\ v \in Public
                      /\ versions[v].author = m
                      /\ current[versions[v].recipe] = v

\* The member's user row lock, taken first by every handler that writes.
Idle(m) == tx[m] = None

\* Exact matches first, then identifier order; probable matches share one score.
RanksBefore(s, v, w) ==
    LET exact(x) == versions[x].structure = s
    IN  \/ exact(v) /\ ~exact(w)
        \/ exact(v) = exact(w) /\ v < w

Shortlist(s, matches) ==
    {v \in matches : Cardinality({w \in matches : RanksBefore(s, w, v)}) < MaxCandidates}

\* The duplicate evidence for a structure against what is public now.
EvidenceNow(s, source) ==
    [candidates |->
        Shortlist(s, {v \in Public \ {source} :
                         \/ versions[v].structure = s
                         \/ <<s, versions[v].structure>> \in Probable}),
     noChange |-> source # None /\ versions[source].structure = s]

Distinct(evidence) == evidence.candidates = {} /\ ~evidence.noChange

-----------------------------------------------------------------------------
(* Private drafts *)

\* get_public_recipe_snapshot_for_draft, and the shape check before it
SourceAdmits(m, kind, source) ==
    CASE kind = "original"   -> source = None
      [] kind = "adaptation" -> source \in Public
      [] kind = "revision"   -> source # None /\ OwnedCurrent(m, source)

CreateDraft(m, d, kind, source) ==
    /\ Idle(m)
    /\ drafts[d] = None
    /\ SourceAdmits(m, kind, source)
    /\ drafts' = [drafts EXCEPT ![d] =
           [author |-> m, kind |-> kind, source |-> source,
            status |-> "active", revision |-> 1,
            structure |-> IF source = None THEN None ELSE versions[source].structure]]
    /\ UNCHANGED <<preflights, versions, current, visibility, forks, tx, guard>>

SlipUnlocked(m, d, revision) == /\ OwnedDraft(m, d)
                                /\ drafts[d].status = "active"
                                /\ drafts[d].revision = revision

Editable(m, d, revision) == /\ Idle(m)
                            /\ OwnedDraft(m, d)
                            /\ drafts[d].status = "active"
                            /\ drafts[d].revision = revision

\* structure = None is a saved draft that is not complete enough to publish.
SaveDraft(m, d, revision, structure) ==
    /\ Editable(m, d, revision)
    /\ revision < MaxRevision
    /\ drafts' = [drafts EXCEPT ![d].revision = revision + 1,
                                ![d].structure = structure]
    /\ UNCHANGED <<preflights, versions, current, visibility, forks, tx, guard>>

DiscardDraft(m, d, revision) ==
    /\ Editable(m, d, revision)
    /\ drafts' = [drafts EXCEPT ![d].status = "discarded", ![d].structure = None]
    /\ UNCHANGED <<preflights, versions, current, visibility, forks, tx, guard>>

-----------------------------------------------------------------------------
(* Duplicate preflight: ranks without the guard, so it is stale at once *)

Prepared(m, d, revision) == /\ OwnedDraft(m, d)
                            /\ drafts[d].status = "active"
                            /\ drafts[d].revision = revision
                            /\ drafts[d].structure # None

RunPreflight(m, d, revision) ==
    LET draft == drafts[d] IN
    /\ Idle(m)
    /\ Prepared(m, d, revision)
    /\ draft.source # None => draft.source \in Public
    /\ preflights' = preflights \cup
           {[draft |-> d, revision |-> revision,
             source |-> draft.source, structure |-> draft.structure,
             evidence |-> EvidenceNow(draft.structure, draft.source)]}
    /\ UNCHANGED <<drafts, versions, current, visibility, forks, tx, guard>>

-----------------------------------------------------------------------------
(* Publication *)

SlipAnyWithdrawal(r) == drafts[r.draft].kind # "revision" => r.reason = None /\ ~r.withdraw

IntentValid(r) ==
    /\ drafts[r.draft].kind # "revision" => r.reason = None /\ ~r.withdraw
    /\ r.withdraw => r.reason = "correction"

SlipDraftOnly(m, r) == \E v \in Published : versions[v].author = m /\ versions[v].draft = r.draft

\* The action or the draft is already bound to a receipt of this member: the
\* request is answered from it, or refused because it is a different request.
Receipted(m, r) ==
    \E v \in Published : /\ versions[v].author = m
                         /\ versions[v].action = r.action \/ versions[v].draft = r.draft

SourceReady(m, r) ==
    LET draft == drafts[r.draft] IN
    /\ draft.kind = "revision" => OwnedCurrent(m, draft.source)
    /\ draft.kind = "adaptation" =>
          /\ draft.source \in Public
          /\ \A f \in forks : ~(f.user = m /\ f.action = r.action)

\* revalidate_recipe_duplicate_publication_evidence: the preflight was made from
\* this draft as it stands, what it found is still what would be found, and
\* anything it found was acknowledged.
EvidenceAccepted(r) ==
    LET draft == drafts[r.draft]
        p     == r.preflight
    IN  /\ p.draft = r.draft /\ p.revision = draft.revision
        /\ p.source = draft.source /\ p.structure = draft.structure
        /\ draft.source # None => draft.source \in Public
        /\ p.evidence = EvidenceNow(draft.structure, draft.source)
        /\ r.decision = IF Distinct(p.evidence) THEN None ELSE "continue"

BeginPublish(m, r) ==
    /\ Idle(m)
    /\ OwnedDraft(m, r.draft)
    /\ drafts[r.draft].status \in {"active", "published"}
    /\ IntentValid(r)
    /\ ~Receipted(m, r)
    /\ tx' = [tx EXCEPT ![m] = [phase |-> "waiting", request |-> r]]
    /\ UNCHANGED <<drafts, preflights, versions, current, visibility, forks, guard>>

InPhase(m, phase) == tx[m] # None /\ tx[m].phase = phase

ValidatePublish(m) ==
    LET r == tx[m].request IN
    /\ InPhase(m, "waiting")
    /\ guard = None
    /\ ~Receipted(m, r)
    /\ SourceReady(m, r)
    /\ Prepared(m, r.draft, r.revision)
    /\ EvidenceAccepted(r)
    /\ guard' = m
    /\ tx' = [tx EXCEPT ![m].phase = "validated"]
    /\ UNCHANGED <<drafts, preflights, versions, current, visibility, forks>>

NextNumber(lineage) ==
    1 + Max({versions[w].number : w \in {w \in Published : versions[w].lineage = lineage}})

SlipNumberAnew(m, r, v) ==
    LET draft  == drafts[r.draft]
        source == draft.source
        base   == versions[source]
        sourced  == draft.kind # "original"
        revision == draft.kind = "revision"
    IN  [author |-> m, kind |-> draft.kind, structure |-> draft.structure,
         lineage |-> IF sourced THEN base.lineage ELSE v,
         number |-> IF revision THEN NextNumber(base.lineage) ELSE 1,
         parent |-> IF draft.kind = "adaptation" THEN source ELSE None,
         recipe |-> IF revision THEN base.recipe ELSE v,
         edition |-> IF revision THEN base.edition + 1 ELSE 1,
         previous |-> IF revision THEN source ELSE None,
         reason |-> r.reason, draft |-> r.draft, revision |-> draft.revision,
         action |-> r.action, preflight |-> r.preflight, decision |-> r.decision]

\* create_recipe_version_identity
NewVersion(m, r, v) ==
    LET draft  == drafts[r.draft]
        source == draft.source
        base   == versions[source]
        sourced  == draft.kind # "original"
        revision == draft.kind = "revision"
    IN  [author |-> m, kind |-> draft.kind, structure |-> draft.structure,
         lineage |-> IF sourced THEN base.lineage ELSE v,
         number |-> IF sourced THEN NextNumber(base.lineage) ELSE 1,
         parent |-> IF draft.kind = "adaptation" THEN source ELSE None,
         recipe |-> IF revision THEN base.recipe ELSE v,
         edition |-> IF revision THEN base.edition + 1 ELSE 1,
         previous |-> IF revision THEN source ELSE None,
         reason |-> r.reason, draft |-> r.draft, revision |-> draft.revision,
         action |-> r.action, preflight |-> r.preflight, decision |-> r.decision]

Resolve(withdrawn, hidden) ==
    IF hidden THEN "moderation_hidden"
    ELSE IF withdrawn THEN "author_withdrawn" ELSE "published"

SlipLastAxis(row, withdrawn, hidden) ==
    [row EXCEPT !.withdrawn = withdrawn, !.hidden = hidden,
                !.state = IF hidden # row.hidden THEN Resolve(FALSE, hidden)
                                                 ELSE Resolve(withdrawn, FALSE)]

SetAxes(row, withdrawn, hidden) ==
    [row EXCEPT !.withdrawn = withdrawn, !.hidden = hidden,
                !.state = Resolve(withdrawn, hidden)]

SlipForkAnySource(m, r, v) ==
    IF drafts[r.draft].source # None
    THEN {[user |-> m, action |-> r.action, source |-> drafts[r.draft].source, version |-> v]}
    ELSE {}

\* The fork preference event, written for an adaptation only.
ForkEvents(m, r, v) ==
    IF drafts[r.draft].kind = "adaptation"
    THEN {[user |-> m, action |-> r.action, source |-> drafts[r.draft].source, version |-> v]}
    ELSE {}

CommitPublish(m, v) ==
    LET r     == tx[m].request
        draft == drafts[r.draft]
        new   == NewVersion(m, r, v)
        shown == [state |-> "published", withdrawn |-> FALSE, hidden |-> FALSE]
    IN
    /\ InPhase(m, "validated")
    /\ versions[v] = None
    /\ draft.kind # "original" => draft.source \in Public
    /\ versions' = [versions EXCEPT ![v] = new]
    /\ current' = [current EXCEPT ![new.recipe] = v]
    /\ visibility' =
           [w \in Versions |->
               IF w = v THEN shown
               ELSE IF r.withdraw /\ w = draft.source
                    THEN SetAxes(visibility[w], TRUE, visibility[w].hidden)
                    ELSE visibility[w]]
    /\ forks' = forks \cup ForkEvents(m, r, v)
    /\ drafts' = [drafts EXCEPT ![r.draft].status = "published"]
    /\ tx' = [tx EXCEPT ![m] = None]
    /\ guard' = None
    /\ UNCHANGED preflights

\* A refusal, an exception or a lost connection rolls everything back.
AbortPublish(m) ==
    /\ ~Idle(m)
    /\ tx' = [tx EXCEPT ![m] = None]
    /\ guard' = IF guard = m THEN None ELSE guard
    /\ UNCHANGED <<drafts, preflights, versions, current, visibility, forks>>

-----------------------------------------------------------------------------
(* Visibility of a published version *)

SlipNoGuard == TRUE

\* Every transaction that changes what is public takes the guard first.
GuardFree == guard = None

\* set_authored_recipe_visibility: an author moves only the author's axis, and
\* cannot restore what moderation hides.
SetAuthoredVisibility(m, v, withdrawn) ==
    /\ Idle(m)
    /\ GuardFree
    /\ v \in Published
    /\ versions[v].author = m
    /\ withdrawn \/ ~visibility[v].hidden
    /\ withdrawn # visibility[v].withdrawn
    /\ visibility' = [visibility EXCEPT ![v] = SetAxes(@, withdrawn, @.hidden)]
    /\ UNCHANGED <<drafts, preflights, versions, current, forks, tx, guard>>

SlipHideAgain(m, v, hidden) ==
    /\ Idle(m)
    /\ GuardFree
    /\ v \in Published
    /\ visibility' = [visibility EXCEPT ![v] = SetAxes(@, @.withdrawn, hidden)]
    /\ UNCHANGED <<drafts, preflights, versions, current, forks, tx, guard>>

\* What the hide and restore actions of moderate_recipe_case do to the publication
\* row; the case and the audit log they also write are in Moderation.
SetModerationVisibility(m, v, hidden) ==
    /\ Idle(m)
    /\ GuardFree
    /\ v \in Published
    /\ hidden # visibility[v].hidden
    /\ visibility' = [visibility EXCEPT ![v] = SetAxes(@, @.withdrawn, hidden)]
    /\ UNCHANGED <<drafts, preflights, versions, current, forks, tx, guard>>

-----------------------------------------------------------------------------

DraftStep(m) ==
    \E d \in Drafts :
        \/ \E kind \in DraftKinds, source \in Versions \cup {None} :
              CreateDraft(m, d, kind, source)
        \/ \E revision \in Revisions :
              \/ \E s \in Structures \cup {None} : SaveDraft(m, d, revision, s)
              \/ DiscardDraft(m, d, revision)
              \/ RunPreflight(m, d, revision)

PublishStep(m) ==
    \/ \E d \in Drafts, a \in Actions, revision \in Revisions, p \in preflights,
          decision \in {"continue", None}, intent \in Intents :
          BeginPublish(m, [draft |-> d, action |-> a, revision |-> revision, preflight |-> p,
                           decision |-> decision, reason |-> intent[1], withdraw |-> intent[2]])
    \/ ValidatePublish(m)
    \/ \E v \in Versions : CommitPublish(m, v)
    \/ AbortPublish(m)

AuthorStep(m) == \/ DraftStep(m)
                 \/ PublishStep(m)
                 \/ \E v \in Versions, withdrawn \in BOOLEAN :
                       SetAuthoredVisibility(m, v, withdrawn)

Next == \/ \E m \in Authors : AuthorStep(m)
        \/ \E m \in Moderators, v \in Versions, hidden \in BOOLEAN :
              SetModerationVisibility(m, v, hidden)

Spec == Init /\ [][Next]_vars

-----------------------------------------------------------------------------
(* Properties *)

TypeOK ==
    /\ drafts \in [Drafts -> Draft \cup {None}]
    /\ preflights \subseteq Preflight
    /\ versions \in [Versions -> Version \cup {None}]
    /\ current \in [Versions -> Versions \cup {None}]
    /\ visibility \in [Versions -> Visibility \cup {None}]
    /\ forks \subseteq ForkEvent
    /\ tx \in [Members -> Transaction \cup {None}]
    /\ guard \in Members \cup {None}

\* Every check a publication makes under the guard is still true when it commits:
\* the draft is the one examined, its source current and readable, the duplicate
\* evidence what a search would find now, and no receipt answers the request yet,
\* although other members saved, published, withdrew and moderated in between.
ChecksStillHold ==
    \A m \in Members : InPhase(m, "validated") =>
        LET r == tx[m].request IN
        /\ guard = m
        /\ ~Receipted(m, r)
        /\ SourceReady(m, r)
        /\ Prepared(m, r.draft, r.revision)
        /\ EvidenceAccepted(r)

\* The editions of one recipe are one line of succession by one author: numbered
\* without a fork, each revision replacing the edition just before it, with the
\* recipe's current pointer at the end of the line.  Two revision drafts of one
\* edition, or a withdrawal between the checks and the commit, are what threatens
\* it; the triggers of migration 0032 would turn a violation into a failed commit.
EditionChain ==
    \A v \in Published :
        LET e    == versions[v]
            head == current[e.recipe]
        IN  /\ head \in Published
            /\ versions[head].recipe = e.recipe
            /\ e.edition <= versions[head].edition
            /\ \A w \in Published :
                  versions[w].recipe = e.recipe /\ versions[w].edition = e.edition => w = v
            /\ e.kind # "revision" => e.recipe = v /\ e.edition = 1
            /\ e.kind = "revision" =>
                  /\ e.previous \in Published
                  /\ e.edition = versions[e.previous].edition + 1
                  /\ versions[e.previous].recipe = e.recipe
                  /\ versions[e.previous].author = e.author
                  /\ versions[e.previous].lineage = e.lineage

\* The versions of one lineage, published by any number of authors from any
\* number of sources, are numbered 1, 2, 3, ... without a gap or a repetition.
LineageNumbering ==
    \A l \in {versions[v].lineage : v \in Published} :
        LET line == {v \in Published : versions[v].lineage = l} IN
        {versions[v].number : v \in line} = 1..Cardinality(line)

\* However a publish request is retried, with the same Idempotency-Key or another,
\* a draft yields at most one version and a key of a member names at most one; and
\* a draft is terminal exactly when its version exists, whatever step failed.
PublishedOnce ==
    /\ \A v, w \in Published :
          \/ v = w
          \/ /\ versions[v].draft # versions[w].draft
             /\ versions[v].author # versions[w].author \/ versions[v].action # versions[w].action
    /\ \A d \in Drafts :
          (drafts[d] # None /\ drafts[d].status = "published")
             <=> \E v \in Published : versions[v].draft = d

\* What became public is what the author last saved and what the acknowledged
\* preflight examined: no save slips between the duplicate check and the snapshot.
SnapshotIsReviewedDraft ==
    \A v \in Published :
        LET e == versions[v] IN
        /\ drafts[e.draft].structure = e.structure
        /\ drafts[e.draft].revision = e.revision
        /\ e.preflight \in preflights
        /\ e.preflight.draft = e.draft /\ e.preflight.revision = e.revision
        /\ e.preflight.structure = e.structure
        /\ e.decision = IF Distinct(e.preflight.evidence) THEN None ELSE "continue"

\* Neither axis can be overridden by the other: a version is publicly readable
\* only while its author has not withdrawn it and no moderator hides it, in
\* whatever order authors, moderators and corrections moved the axes.
PublicMeansNeitherAxis ==
    \A v \in Public : ~visibility[v].withdrawn /\ ~visibility[v].hidden

\* A fork event exists exactly for the adaptations, naming source and child, so a
\* replayed adaptation always finds the event it requires.
ForkEventsMatchAdaptations ==
    forks = {[user |-> versions[v].author, action |-> versions[v].action,
              source |-> versions[v].parent, version |-> v] :
                v \in {v \in Published : versions[v].kind = "adaptation"}}

NewlyPublished(v) == versions[v] = None /\ versions'[v] # None

\* At the very step that makes a version public, the duplicate evidence it was
\* published on is what the tables then show: no other member's publication,
\* withdrawal, restore or moderation lies between the recheck and the commit.
PublishedOnCurrentEvidence ==
    [][\A v \in Versions : NewlyPublished(v) =>
          LET p == versions'[v].preflight IN
          p.evidence = EvidenceNow(p.structure, p.source)]_vars

\* A recipe loses its readable current edition to a correction only in the step
\* that makes the corrected successor readable and current in its place.
CorrectionHandsOver ==
    [][\A v \in Versions, w \in Published :
          NewlyPublished(v) /\ w \in Public /\ w \notin Public' =>
             /\ versions'[v].previous = w
             /\ versions'[v].reason = "correction"
             /\ v \in Public'
             /\ current'[versions[w].recipe] = v]_vars
=============================================================================
