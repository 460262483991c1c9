--------------------------- MODULE Moderation_proofs ---------------------------
(***************************************************************************)
(* Proofs about Moderation and ModerationWorkspace.  Each step of          *)
(* Moderation is a step of Publication or leaves the publication tables    *)
(* alone, so what was proved of Publication holds here; the invariants of  *)
(* the cases and the audit log are proved on top of it, and on top of      *)
(* those what holds of the moderators' pages.                              *)
(***************************************************************************)
EXTENDS ModerationWorkspace, Publication_proofs

Report == [reporter : Members, version : Versions, key : Keys]

Event == [version : Versions, actor : Members, verb : Verbs, key : Keys,
          previous : Statuses, status : Statuses, state : States]

CaseTypeOK == /\ grants \subseteq Members
              /\ reports \subseteq Report
              /\ IsFiniteSet(reports)
              /\ cases \in [Versions -> Case \cup {None}]
              /\ audit \in Seq(Event)

\* Only a published version is reported, and every event belongs to a case.
CaseInv == /\ \A v \in Versions : cases[v] # None => v \in Published
           /\ \A i \in DOMAIN audit : cases[audit[i].version] # None

\* The last event of a version tells what its case and its moderation axis are now,
\* except that a report may have reopened the case of a version left readable.
LastEventInv ==
    \A i \in DOMAIN audit :
        LET v == audit[i].version IN
        (\A k \in DOMAIN audit : k > i => audit[k].version # v) =>
            /\ visibility[v].hidden <=> audit[i].state = "moderation_hidden"
            /\ \/ cases[v].status = audit[i].status
               \/ /\ audit[i].status = "resolved" /\ cases[v].status = "open"
                  /\ audit[i].state # "moderation_hidden"

CaseInductive == /\ CaseTypeOK
                 /\ CaseInv
                 /\ CasesCountReporters
                 /\ AuditExplainsHiding
                 /\ LastEventInv
                 /\ CaseHistoryConnects

-----------------------------------------------------------------------------
(* Moderation over Publication *)

\* Every step of moderation is one that Publication allows.
LEMMA StepRefines == [ModerationNext]_<<vars, caseVars>> => [Next]_vars
<1> SUFFICES ASSUME [ModerationNext]_<<vars, caseVars>> PROVE Next \/ UNCHANGED vars
  OBVIOUS
<1>1. CASE UNCHANGED <<vars, caseVars>>
  BY <1>1
<1>2. CASE \E m \in Authors : AuthorStep(m) /\ UNCHANGED caseVars
  BY <1>2 DEF Next
<1>3. ASSUME NEW m \in Moderators, NEW v \in Versions, NEW key \in Keys,
             HideRecipe(m, v, key) \/ RestoreRecipe(m, v, key)
      PROVE  Next
  BY <1>3 DEF HideRecipe, RestoreRecipe, Next
<1>4. ASSUME NEW m \in Members, NEW v \in Versions, NEW key \in Keys,
             SubmitReport(m, v, key) \/ ResolveCase(m, v, key)
      PROVE  UNCHANGED vars
  BY <1>4 DEF SubmitReport, ResolveCase
<1>5. CASE \E m \in Moderators : GrantModerator(m) \/ RevokeModerator(m)
  BY <1>5 DEF GrantModerator, RevokeModerator
<1> QED BY <1>1, <1>2, <1>3, <1>4, <1>5, MembersAssumption, ModerationAssumption
        DEF ModerationNext

\* Moderation does to the publication tables only what Publication allows.
LEMMA ModeratesPublications == ModerationSpec => Spec
<1>1. ModerationInit => Init
  BY DEF ModerationInit
<1> QED BY <1>1, StepRefines, PTL DEF ModerationSpec, Spec

\* What was proved of Publication holds of it under moderation.
LEMMA ModeratedInductive == ModerationSpec => []Inductive
BY ModeratesPublications, Invariance, PTL

-----------------------------------------------------------------------------
(* What a step does to the moderation axis and to the log *)

\* A publication row shows as hidden by moderation exactly when its axis says so.
LEMMA HiddenState ==
    ASSUME Inductive, NEW v \in Published
    PROVE  /\ visibility[v] \in Visibility
           /\ visibility[v].hidden <=> visibility[v].state = "moderation_hidden"
<1>1. visibility[v] \in Visibility
  BY DEF Inductive, TypeOK, VisibilityInv, Published
<1>2. visibility[v].state = Resolve(visibility[v].withdrawn, visibility[v].hidden)
  BY DEF Inductive, AxesInv
<1> QED BY <1>1, <1>2 DEF Resolve, Visibility

\* The same after a step.
LEMMA HiddenStateNext ==
    Inductive' =>
        \A v \in Published' : visibility'[v].hidden <=> visibility'[v].state = "moderation_hidden"
<1> DEFINE Agree == \A v \in Published : visibility[v].hidden <=> visibility[v].state = "moderation_hidden"
<1>1. Inductive => Agree
  BY HiddenState
<1>2. Inductive' => Agree'
  BY <1>1, PTL
<1> QED BY <1>2

AxesKept ==
    /\ \A v \in Published : v \in Published' /\ visibility'[v].hidden = visibility[v].hidden
    /\ \A v \in Published' \ Published : visibility'[v].hidden = FALSE

\* Nothing an author does, a correction included, moves the moderation axis.
LEMMA AuthorsKeepAxes ==
    ASSUME Inductive, NEW m \in Authors, AuthorStep(m)
    PROVE  AxesKept
<1>t. TypeOK /\ m \in Members
  BY MembersAssumption DEF Inductive
<1>1. CASE UNCHANGED <<versions, visibility>>
  BY <1>1 DEF AxesKept, Published
<1>2. CASE DraftStep(m)
  BY <1>1, <1>2 DEF DraftStep, CreateDraft, SaveDraft, DiscardDraft, RunPreflight
<1>3. ASSUME NEW v \in Versions, CommitPublish(m, v)
      PROVE  AxesKept
  <2> DEFINE r == tx[m].request
             source == drafts[r.draft].source
             shown == [state |-> "published", withdrawn |-> FALSE, hidden |-> FALSE]
  <2>1. Published' = Published \cup {v} /\ v \notin Published
    BY <1>3, <1>t, CommitFacts
  <2>2. visibility'[v] = shown
    BY <1>3 DEF CommitPublish
  <2>3. ASSUME NEW w \in Published
        PROVE  visibility'[w].hidden = visibility[w].hidden
    <3>1. visibility'[w] = visibility[w]
          \/ visibility'[w] = SetAxes(visibility[w], TRUE, visibility[w].hidden)
      BY <1>3, <2>1 DEF CommitPublish, Published
    <3>2. visibility[w] \in Visibility
      BY HiddenState
    <3> QED BY <3>1, <3>2 DEF SetAxes, Visibility
  <2> QED BY <2>1, <2>2, <2>3 DEF AxesKept
<1>4. CASE PublishStep(m)
  <2>1. CASE ValidatePublish(m) \/ AbortPublish(m)
    BY <1>1, <2>1 DEF ValidatePublish, AbortPublish
  <2>2. CASE \E v \in Versions : CommitPublish(m, v)
    BY <1>3, <2>2
  <2>3. ASSUME NEW r, BeginPublish(m, r)
        PROVE  AxesKept
    BY <1>1, <2>3 DEF BeginPublish
  <2> QED BY <1>4, <2>1, <2>2, <2>3 DEF PublishStep
<1>5. ASSUME NEW v \in Versions, NEW withdrawn \in BOOLEAN, SetAuthoredVisibility(m, v, withdrawn)
      PROVE  AxesKept
  <2>1. /\ v \in Published /\ Published' = Published
        /\ visibility' = [visibility EXCEPT ![v] = SetAxes(visibility[v], withdrawn, visibility[v].hidden)]
    BY <1>5 DEF SetAuthoredVisibility, Published
  <2>2. visibility[v] \in Visibility
    BY <2>1, HiddenState
  <2>3. SetAxes(visibility[v], withdrawn, visibility[v].hidden).hidden = visibility[v].hidden
    BY <2>2 DEF SetAxes, Visibility
  <2>4. \A w \in Published : w # v => visibility'[w] = visibility[w]
    BY <1>t, <2>1 DEF TypeOK, Published
  <2>5. visibility'[v] = SetAxes(visibility[v], withdrawn, visibility[v].hidden)
    BY <1>t, <2>1 DEF TypeOK
  <2> QED BY <2>1, <2>3, <2>4, <2>5 DEF AxesKept
<1> QED BY <1>2, <1>4, <1>5 DEF AuthorStep

\* An audited action: the case and the log change, and the moderation axis of the
\* one recipe moves as the verb says.
Audited(m, v, key, verb, status) ==
    /\ MayModerate(m, v, key)
    /\ Recorded(m, v, key, verb, status)
    /\ Published' = Published
    /\ \A w \in Published : w # v => visibility'[w].hidden = visibility[w].hidden
    /\ verb = "resolve" => visibility'[v].hidden = visibility[v].hidden
    /\ verb = "hide" => visibility[v].hidden = FALSE /\ visibility'[v].hidden = TRUE
    /\ verb = "restore" => visibility[v].hidden = TRUE /\ visibility'[v].hidden = FALSE

\* The three shapes of a step: cases and log stay and no axis moves, a report, or an
\* audited action.
LEMMA StepShapes ==
    ASSUME Inductive, CaseTypeOK, [ModerationNext]_<<vars, caseVars>>
    PROVE  \/ UNCHANGED <<reports, cases, audit>> /\ grants' \subseteq Members /\ AxesKept
           \/ \E m \in Members, v \in Versions, key \in Keys : SubmitReport(m, v, key)
           \/ \E m \in Members, v \in Versions, key \in Keys, verb \in Verbs, status \in Statuses :
                 Audited(m, v, key, verb, status)
<1> USE MembersAssumption, ModerationAssumption
<1>k. UNCHANGED <<versions, visibility>> => AxesKept
  BY DEF AxesKept, Published
<1>1. CASE UNCHANGED <<vars, caseVars>>
  BY <1>1, <1>k DEF vars, caseVars, CaseTypeOK
<1>2. CASE \E m \in Authors : AuthorStep(m) /\ UNCHANGED caseVars
  BY <1>2, AuthorsKeepAxes DEF caseVars, CaseTypeOK
<1>3. CASE \E m \in Moderators : GrantModerator(m) \/ RevokeModerator(m)
  <2>1. UNCHANGED <<reports, cases, audit, versions, visibility>> /\ grants' \subseteq Members
    BY <1>3 DEF GrantModerator, RevokeModerator, CaseTypeOK, vars
  <2> QED BY <1>k, <2>1
<1>4. CASE \E m \in Reporters, v \in Versions, key \in Keys : SubmitReport(m, v, key)
  BY <1>4
<1>5. ASSUME NEW m \in Members, NEW v \in Versions, NEW key \in Keys,
             MayModerate(m, v, key), cases[v] \in Case
      PROVE  /\ HideRecipe(m, v, key) => Audited(m, v, key, "hide", cases[v].status)
             /\ RestoreRecipe(m, v, key) => Audited(m, v, key, "restore", cases[v].status)
             /\ ResolveCase(m, v, key) => Audited(m, v, key, "resolve", "resolved")
  <2>1. ASSUME NEW hidden \in BOOLEAN, SetModerationVisibility(m, v, hidden)
        PROVE  /\ Published' = Published
               /\ \A w \in Published : w # v => visibility'[w].hidden = visibility[w].hidden
               /\ visibility'[v].hidden = hidden
               /\ visibility[v].hidden \in BOOLEAN \ {hidden}
    <3>1. /\ v \in Published /\ UNCHANGED versions /\ hidden # visibility[v].hidden
          /\ visibility' = [visibility EXCEPT ![v] = SetAxes(visibility[v], visibility[v].withdrawn, hidden)]
      BY <2>1 DEF SetModerationVisibility
    <3>2. visibility[v] \in Visibility
      BY <3>1, HiddenState
    <3>3. SetAxes(visibility[v], visibility[v].withdrawn, hidden).hidden = hidden
      BY <3>2 DEF SetAxes, Visibility
    <3>4. visibility'[v] = SetAxes(visibility[v], visibility[v].withdrawn, hidden)
      BY <3>1 DEF Inductive, TypeOK
    <3>5. \A w \in Published : w # v => visibility'[w] = visibility[w]
      BY <3>1 DEF Inductive, TypeOK, Published
    <3>6. visibility[v].hidden \in BOOLEAN
      BY <3>2 DEF Visibility
    <3> QED BY <3>1, <3>3, <3>4, <3>5, <3>6 DEF Published
  <2>2. HideRecipe(m, v, key) => Audited(m, v, key, "hide", cases[v].status)
    <3> SUFFICES ASSUME HideRecipe(m, v, key) PROVE Audited(m, v, key, "hide", cases[v].status)
      OBVIOUS
    <3>1. SetModerationVisibility(m, v, TRUE) /\ Recorded(m, v, key, "hide", cases[v].status)
      BY DEF HideRecipe
    <3>2. TRUE \in BOOLEAN
      OBVIOUS
    <3> QED BY <1>5, <2>1, <3>1, <3>2 DEF Audited
  <2>3. RestoreRecipe(m, v, key) => Audited(m, v, key, "restore", cases[v].status)
    <3> SUFFICES ASSUME RestoreRecipe(m, v, key) PROVE Audited(m, v, key, "restore", cases[v].status)
      OBVIOUS
    <3>1. SetModerationVisibility(m, v, FALSE) /\ Recorded(m, v, key, "restore", cases[v].status)
      BY DEF RestoreRecipe
    <3> QED BY <1>5, <2>1, <3>1 DEF Audited
  <2>4. ResolveCase(m, v, key) => Audited(m, v, key, "resolve", "resolved")
    BY <1>5 DEF ResolveCase, Audited, vars, Published
  <2> QED BY <2>2, <2>3, <2>4
<1>6. CASE \E m \in Moderators, v \in Versions, key \in Keys :
              HideRecipe(m, v, key) \/ RestoreRecipe(m, v, key) \/ ResolveCase(m, v, key)
  <2>1. PICK m \in Members, v \in Versions, key \in Keys :
             HideRecipe(m, v, key) \/ RestoreRecipe(m, v, key) \/ ResolveCase(m, v, key)
    BY <1>6
  <2>2. MayModerate(m, v, key)
    BY <2>1 DEF HideRecipe, RestoreRecipe, ResolveCase
  <2>3. cases[v] \in Case
    BY <2>2 DEF MayModerate, CaseTypeOK
  <2>4. cases[v].status \in Statuses /\ "resolved" \in Statuses
    BY <2>3 DEF Case, Statuses
  <2>5. "hide" \in Verbs /\ "restore" \in Verbs /\ "resolve" \in Verbs
    BY DEF Verbs
  <2>6. \/ Audited(m, v, key, "hide", cases[v].status)
        \/ Audited(m, v, key, "restore", cases[v].status)
        \/ Audited(m, v, key, "resolve", "resolved")
    BY <1>5, <2>1, <2>2, <2>3
  <2> QED BY <2>4, <2>5, <2>6
<1> QED BY <1>1, <1>2, <1>3, <1>4, <1>6 DEF ModerationNext

-----------------------------------------------------------------------------
(* The parts of CaseInductive *)

\* The events of the log have the types of its columns.
LEMMA EventTypes ==
    ASSUME CaseTypeOK
    PROVE  \A i \in DOMAIN audit : audit[i] \in Event
BY LenProperties, ElementOfSeq DEF CaseTypeOK

\* An audited action writes one event, after all others, and the status of one case.
LEMMA AuditedFacts ==
    ASSUME Inductive, Inductive', CaseTypeOK, CaseInv,
           NEW m \in Members, NEW v \in Versions, NEW key \in Keys, NEW verb \in Verbs,
           NEW status \in Statuses, Audited(m, v, key, verb, status)
    PROVE  LET n == Len(audit)
               e == audit'[Len(audit) + 1]
           IN  /\ n \in Nat /\ DOMAIN audit = 1..n /\ DOMAIN audit' = 1..(n + 1)
               /\ audit' \in Seq(Event)
               /\ \A i \in DOMAIN audit : audit'[i] = audit[i] /\ audit[i] \in Event
               /\ e.version = v /\ e.actor = m /\ e.verb = verb /\ e.key = key
               /\ e.previous = cases[v].status /\ e.status = status
               /\ e.state = visibility'[v].state
               /\ v \in Published /\ cases[v] \in Case /\ cases'[v] \in Case
               /\ cases'[v].status = status /\ cases'[v].reporterCount = cases[v].reporterCount
               /\ \A w \in Versions : w # v => cases'[w] = cases[w]
               /\ cases' \in [Versions -> Case \cup {None}]
               /\ grants' = grants /\ reports' = reports
<1> DEFINE e == [version |-> v, actor |-> m, verb |-> verb, key |-> key,
                 previous |-> cases[v].status, status |-> status,
                 state |-> visibility'[v].state]
           c == [cases[v] EXCEPT !.status = status]
<1>1. v \in Published /\ cases[v] \in Case
  BY DEF Audited, MayModerate, CaseTypeOK
<1>2. c \in Case /\ c.status = status /\ c.reporterCount = cases[v].reporterCount
  BY <1>1 DEF Case
<1>3. cases' = [cases EXCEPT ![v] = c] /\ audit' = Append(audit, e)
      /\ grants' = grants /\ reports' = reports
  BY DEF Audited, Recorded
<1>4. visibility'[v].state \in States
  <2>1. v \in Published'
    BY <1>1 DEF Audited
  <2>2. visibility'[v] \in Visibility
    BY <1>1, <2>1 DEF Inductive, TypeOK, VisibilityInv, Published
  <2> QED BY <2>2 DEF Visibility
<1>5. e \in Event /\ e.version = v /\ e.actor = m /\ e.verb = verb /\ e.key = key
      /\ e.previous = cases[v].status /\ e.status = status /\ e.state = visibility'[v].state
  <2>1. cases[v].status \in Statuses
    BY <1>1 DEF Case
  <2> QED BY <1>4, <2>1 DEF Event
<1> HIDE DEF e, c
<1>6. cases'[v] = c /\ (\A w \in Versions : w # v => cases'[w] = cases[w])
      /\ cases' \in [Versions -> Case \cup {None}]
  BY <1>2, <1>3 DEF CaseTypeOK
<1>7. /\ Len(audit) \in Nat /\ DOMAIN audit = 1..Len(audit)
      /\ \A i \in 1..Len(audit) : audit[i] \in Event
  BY LenProperties, ElementOfSeq DEF CaseTypeOK
<1>8. /\ audit' \in Seq(Event) /\ Len(audit') = Len(audit) + 1
      /\ \A i \in 1..Len(audit) : audit'[i] = audit[i]
      /\ audit'[Len(audit) + 1] = e
  BY <1>3, <1>5, AppendProperties DEF CaseTypeOK
<1>9. DOMAIN audit' = 1..(Len(audit) + 1)
  BY <1>8, LenProperties
<1> QED BY <1>1, <1>2, <1>3, <1>5, <1>6, <1>7, <1>8, <1>9

\* A report opens the case of a readable version and counts one more reporter.
LEMMA ReportFacts ==
    ASSUME Inductive, CaseTypeOK, NEW m \in Members, NEW v \in Versions, NEW key \in Keys,
           SubmitReport(m, v, key)
    PROVE  /\ v \in Published /\ visibility[v].state = "published"
           /\ cases'[v] \in Case /\ cases'[v].status = "open"
           /\ cases'[v].reporterCount = IF cases[v] = None THEN 1 ELSE cases[v].reporterCount + 1
           /\ \A w \in Versions : w # v => cases'[w] = cases[w]
           /\ cases' \in [Versions -> Case \cup {None}]
           /\ reports' = reports \cup {[reporter |-> m, version |-> v, key |-> key]}
           /\ reports' \subseteq Report /\ IsFiniteSet(reports')
           /\ \A r \in reports : r.reporter = m => r.version # v
           /\ UNCHANGED <<vars, grants, audit>>
<1> DEFINE count == IF cases[v] = None THEN 1 ELSE cases[v].reporterCount + 1
           c == [status |-> "open", reporterCount |-> count]
           r == [reporter |-> m, version |-> v, key |-> key]
<1>1. v \in Published /\ visibility[v].state = "published"
  BY DEF SubmitReport, Reportable, Public
<1>2. count \in Nat
  BY DEF CaseTypeOK, Case
<1> HIDE DEF count
<1>3. c \in Case
  BY <1>2 DEF Case, Statuses
<1>4. cases' = [cases EXCEPT ![v] = c] /\ reports' = reports \cup {r}
      /\ UNCHANGED <<vars, grants, audit>>
  BY DEF SubmitReport, count
<1>5. cases'[v] = c /\ cases' \in [Versions -> Case \cup {None}]
      /\ \A w \in Versions : w # v => cases'[w] = cases[w]
  BY <1>3, <1>4 DEF CaseTypeOK
<1>6. r \in Report
  BY DEF Report
<1>7. IsFiniteSet(reports \cup {r})
  BY FS_AddElement DEF CaseTypeOK
<1>8. \A q \in reports : q.reporter = m => q.version # v
  BY DEF SubmitReport, Reported
<1> QED BY <1>1, <1>3, <1>4, <1>5, <1>6, <1>7, <1>8 DEF CaseTypeOK, count

\* Cases, reports and the log keep the types of their columns.
LEMMA CaseTypePreserved ==
    Inductive /\ Inductive' /\ CaseTypeOK /\ CaseInv /\ [ModerationNext]_<<vars, caseVars>>
        => CaseTypeOK'
<1> SUFFICES ASSUME Inductive, Inductive', CaseTypeOK, CaseInv,
                    [ModerationNext]_<<vars, caseVars>>
             PROVE  CaseTypeOK'
  OBVIOUS
<1>1. CASE UNCHANGED <<reports, cases, audit>> /\ grants' \subseteq Members /\ AxesKept
  BY <1>1 DEF CaseTypeOK
<1>2. ASSUME NEW m \in Members, NEW v \in Versions, NEW key \in Keys, SubmitReport(m, v, key)
      PROVE  CaseTypeOK'
  BY <1>2, ReportFacts DEF CaseTypeOK
<1>3. ASSUME NEW m \in Members, NEW v \in Versions, NEW key \in Keys, NEW verb \in Verbs,
             NEW status \in Statuses, Audited(m, v, key, verb, status)
      PROVE  CaseTypeOK'
  BY <1>3, AuditedFacts DEF CaseTypeOK
<1> QED BY <1>1, <1>2, <1>3, StepShapes

\* No case is ever removed.
LEMMA CaseInvPreserved ==
    Inductive /\ Inductive' /\ CaseTypeOK /\ CaseInv /\ [ModerationNext]_<<vars, caseVars>>
        => CaseInv'
<1> SUFFICES ASSUME Inductive, Inductive', CaseTypeOK, CaseInv,
                    [ModerationNext]_<<vars, caseVars>>
             PROVE  CaseInv'
  OBVIOUS
<1>1. CASE UNCHANGED <<reports, cases, audit>> /\ grants' \subseteq Members /\ AxesKept
  BY <1>1 DEF CaseInv, AxesKept
<1>2. ASSUME NEW m \in Members, NEW v \in Versions, NEW key \in Keys, SubmitReport(m, v, key)
      PROVE  CaseInv'
  <2>1. Published' = Published /\ audit' = audit
    BY <1>2 DEF SubmitReport, vars, Published
  <2>2. v \in Published /\ cases'[v] # None /\ \A w \in Versions : w # v => cases'[w] = cases[w]
    BY <1>2, ReportFacts, ModerationAssumption
  <2>3. \A i \in DOMAIN audit : audit[i].version \in Versions
    BY EventTypes DEF Event
  <2> QED BY <2>1, <2>2, <2>3 DEF CaseInv
<1>3. ASSUME NEW m \in Members, NEW v \in Versions, NEW key \in Keys, NEW verb \in Verbs,
             NEW status \in Statuses, Audited(m, v, key, verb, status)
      PROVE  CaseInv'
  <2> DEFINE n == Len(audit)
  <2>1. /\ n \in Nat /\ DOMAIN audit = 1..n /\ DOMAIN audit' = 1..(n + 1)
        /\ \A i \in DOMAIN audit : audit'[i] = audit[i] /\ audit[i] \in Event
        /\ audit'[n + 1].version = v
        /\ v \in Published /\ cases'[v] \in Case
        /\ \A w \in Versions : w # v => cases'[w] = cases[w]
    BY <1>3, AuditedFacts
  <2>2. Published' = Published /\ cases'[v] # None
    BY <1>3, <2>1, ModerationAssumption DEF Audited
  <2>3. \A i \in 1..(n + 1) : i \in 1..n \/ i = n + 1
    BY <2>1
  <2> HIDE DEF n
  <2> QED BY <2>1, <2>2, <2>3 DEF CaseInv, Event
<1> QED BY <1>1, <1>2, <1>3, StepShapes

ReportersOf(table, v) == {r.reporter : r \in {r \in table : r.version = v}}

\* A report adds one member to those who reported, and nothing else changes the count.
LEMMA CountsPreserved ==
    /\ Inductive /\ Inductive' /\ CaseTypeOK /\ CaseInv /\ CasesCountReporters
    /\ [ModerationNext]_<<vars, caseVars>>
    => CasesCountReporters'
<1> SUFFICES ASSUME Inductive, Inductive', CaseTypeOK, CaseInv, CasesCountReporters,
                    [ModerationNext]_<<vars, caseVars>>, NEW w \in Versions
             PROVE  LET reporters == ReportersOf(reports', w) IN
                    /\ cases'[w] = None <=> reporters = {}
                    /\ cases'[w] # None => cases'[w].reporterCount = Cardinality(reporters)
                    /\ w \in Published' /\ visibility'[w].hidden => cases'[w] # None
  BY DEF CasesCountReporters, ReportersOf
<1> DEFINE Old == ReportersOf(reports, w)
<1>0. /\ cases[w] = None <=> Old = {}
      /\ cases[w] # None => cases[w].reporterCount = Cardinality(Old)
      /\ w \in Published /\ visibility[w].hidden => cases[w] # None
  BY DEF CasesCountReporters, ReportersOf
<1>1. CASE UNCHANGED <<reports, cases, audit>> /\ grants' \subseteq Members /\ AxesKept
  <2>1. w \in Published' /\ visibility'[w].hidden => cases[w] # None
    BY <1>0, <1>1 DEF AxesKept
  <2> QED BY <1>0, <1>1, <2>1
<1>2. ASSUME NEW m \in Members, NEW v \in Versions, NEW key \in Keys, SubmitReport(m, v, key)
      PROVE  LET reporters == ReportersOf(reports', w) IN
             /\ cases'[w] = None <=> reporters = {}
             /\ cases'[w] # None => cases'[w].reporterCount = Cardinality(reporters)
             /\ w \in Published' /\ visibility'[w].hidden => cases'[w] # None
  <2> DEFINE r == [reporter |-> m, version |-> v, key |-> key]
             New == ReportersOf(reports', w)
  <2>1. /\ reports' = reports \cup {r}
        /\ cases'[v] \in Case
        /\ cases'[v].reporterCount = IF cases[v] = None THEN 1 ELSE cases[v].reporterCount + 1
        /\ \A x \in Versions : x # v => cases'[x] = cases[x]
        /\ \A q \in reports : q.reporter = m => q.version # v
        /\ UNCHANGED vars
    BY <1>2, ReportFacts
  <2>2. r.reporter = m /\ r.version = v
    OBVIOUS
  <2>3. UNCHANGED <<versions, visibility>> /\ Published' = Published
    BY <2>1 DEF vars, Published
  <2> HIDE DEF r
  <2>4. CASE w # v
    <3>1. New = Old
      BY <2>1, <2>2, <2>4 DEF ReportersOf
    <3> HIDE DEF New, Old
    <3>2. cases'[w] = cases[w]
      BY <2>1, <2>4
    <3> QED BY <1>0, <2>3, <3>1, <3>2 DEF New
  <2>5. CASE w = v
    <3>1. New = Old \cup {m} /\ m \notin Old
      BY <2>1, <2>2, <2>5 DEF ReportersOf
    <3>2. IsFiniteSet(Old)
      <4> DEFINE Mine == {q \in reports : q.version = w}
      <4>1. IsFiniteSet(Mine)
        BY FS_Subset DEF CaseTypeOK
      <4>2. Old = {q.reporter : q \in Mine}
        BY DEF ReportersOf
      <4> HIDE DEF Mine
      <4>3. IsFiniteSet({q.reporter : q \in Mine})
        <5> DEFINE g == [q \in Mine |-> q.reporter]
                   Names == {q.reporter : q \in Mine}
        <5>1. g \in Surjection(Mine, Names)
          BY DEF Surjection
        <5> HIDE DEF g, Names
        <5>2. IsFiniteSet(Names)
          BY <4>1, <5>1, FS_Surjection
        <5> QED BY <5>2 DEF Names
      <4> QED BY <4>2, <4>3
    <3>3. Cardinality(Old \cup {m}) = Cardinality(Old) + 1
      BY <3>1, <3>2, FS_AddElement
    <3>4. cases'[w] # None
      BY <2>1, <2>5, ModerationAssumption
    <3>5. cases[w] = None => Cardinality(Old) = 0
      BY <1>0, FS_EmptySet
    <3>6. Cardinality(Old) \in Nat
      BY <3>2, FS_CardinalityType
    <3>7. cases'[w].reporterCount = Cardinality(New)
      <4> HIDE DEF New, Old
      <4>1. CASE cases[w] = None
        BY <2>1, <2>5, <3>1, <3>3, <3>5, <4>1
      <4>2. CASE cases[w] # None
        BY <1>0, <2>1, <2>5, <3>1, <3>3, <4>2
      <4> QED BY <4>1, <4>2
    <3> QED BY <3>1, <3>4, <3>7
  <2> QED BY <2>4, <2>5
<1>3. ASSUME NEW m \in Members, NEW v \in Versions, NEW key \in Keys, NEW verb \in Verbs,
             NEW status \in Statuses, Audited(m, v, key, verb, status)
      PROVE  LET reporters == ReportersOf(reports', w) IN
             /\ cases'[w] = None <=> reporters = {}
             /\ cases'[w] # None => cases'[w].reporterCount = Cardinality(reporters)
             /\ w \in Published' /\ visibility'[w].hidden => cases'[w] # None
  <2>1. /\ cases[v] \in Case /\ cases'[v] \in Case
        /\ cases'[v].reporterCount = cases[v].reporterCount
        /\ \A x \in Versions : x # v => cases'[x] = cases[x]
        /\ reports' = reports
    BY <1>3, AuditedFacts
  <2>2. /\ Published' = Published
        /\ \A x \in Published : x # v => visibility'[x].hidden = visibility[x].hidden
    BY <1>3 DEF Audited
  <2>3. cases[v] # None /\ cases'[v] # None
    BY <2>1, ModerationAssumption
  <2>4. CASE w = v
    BY <1>0, <2>1, <2>3, <2>4
  <2>5. CASE w # v
    BY <1>0, <2>1, <2>2, <2>5
  <2> QED BY <2>4, <2>5
<1> QED BY <1>1, <1>2, <1>3, StepShapes

\* A hide or a restore changes what the events before it left; nothing else moves
\* the axis.
LEMMA HidingPreserved ==
    /\ Inductive /\ Inductive' /\ CaseTypeOK /\ CaseInv /\ AuditExplainsHiding
    /\ [ModerationNext]_<<vars, caseVars>>
    => AuditExplainsHiding'
<1> SUFFICES ASSUME Inductive, Inductive', CaseTypeOK, CaseInv, AuditExplainsHiding,
                    [ModerationNext]_<<vars, caseVars>>, NEW w \in Published'
             PROVE  /\ \A i \in MovesOf(w)' :
                          audit'[i].verb = IF LeftHidden({j \in MovesOf(w) : j < i})'
                                           THEN "restore" ELSE "hide"
                    /\ visibility'[w].hidden = LeftHidden(MovesOf(w))'
  BY DEF AuditExplainsHiding
<1>0. w \in Published =>
        /\ \A i \in MovesOf(w) :
              audit[i].verb = IF LeftHidden({j \in MovesOf(w) : j < i}) THEN "restore" ELSE "hide"
        /\ visibility[w].hidden = LeftHidden(MovesOf(w))
  BY DEF AuditExplainsHiding
<1> DEFINE Explained ==
             /\ \A i \in MovesOf(w)' :
                   audit'[i].verb = IF LeftHidden({j \in MovesOf(w) : j < i})'
                                    THEN "restore" ELSE "hide"
             /\ visibility'[w].hidden = LeftHidden(MovesOf(w))'
<1>1. ASSUME audit' = audit, w \in Published, visibility'[w].hidden = visibility[w].hidden
      PROVE  Explained
  BY <1>0, <1>1 DEF MovesOf, LeftHidden
<1>2. ASSUME audit' = audit, w \notin Published, visibility'[w].hidden = FALSE
      PROVE  Explained
  <2>1. \A i \in DOMAIN audit : audit[i].version \in Published
    BY EventTypes DEF CaseInv, Event
  <2>2. MovesOf(w)' = {}
    BY <1>2, <2>1 DEF MovesOf
  <2> QED BY <1>2, <2>2 DEF LeftHidden
<1>3. ASSUME NEW m \in Members, NEW v \in Versions, NEW key \in Keys, NEW verb \in Verbs,
             NEW status \in Statuses, Audited(m, v, key, verb, status)
      PROVE  Explained
  <2> DEFINE n == Len(audit)
  <2>1. /\ n \in Nat /\ DOMAIN audit = 1..n /\ DOMAIN audit' = 1..(n + 1)
        /\ \A i \in DOMAIN audit : audit'[i] = audit[i] /\ audit[i] \in Event
        /\ audit'[n + 1].version = v /\ audit'[n + 1].verb = verb
    BY <1>3, AuditedFacts
  <2>2. \A i \in 1..(n + 1) : i \in 1..n \/ i = n + 1
    BY <2>1
  <2>3. w \in Published
    BY <1>3 DEF Audited
  <2>4. CASE w # v \/ verb = "resolve"
    <3>1. MovesOf(w)' = MovesOf(w)
      <4> HIDE DEF n
      <4> QED BY <2>1, <2>2, <2>4 DEF MovesOf
    <3>2. visibility'[w].hidden = visibility[w].hidden
      BY <1>3, <2>3, <2>4 DEF Audited
    <3>3. MovesOf(w) \subseteq DOMAIN audit
      BY DEF MovesOf
    <3>4. \A i \in MovesOf(w) : audit'[i] = audit[i]
      BY <2>1, <3>3
    <3>5. LeftHidden(MovesOf(w))' <=> LeftHidden(MovesOf(w))
      BY <3>1, <3>4 DEF LeftHidden
    <3>6. \A i \in MovesOf(w) :
             LeftHidden({j \in MovesOf(w) : j < i})' <=> LeftHidden({j \in MovesOf(w) : j < i})
      BY <3>1, <3>4 DEF LeftHidden
    <3> HIDE DEF n
    <3>7. LeftHidden(MovesOf(w)) \in BOOLEAN /\ LeftHidden(MovesOf(w))' \in BOOLEAN
      BY DEF LeftHidden
    <3>8. visibility'[w].hidden = LeftHidden(MovesOf(w))'
      BY <1>0, <2>3, <3>2, <3>5, <3>7
    <3>9. ASSUME NEW i \in MovesOf(w)'
           PROVE  audit'[i].verb = IF LeftHidden({j \in MovesOf(w) : j < i})'
                                   THEN "restore" ELSE "hide"
      <4>1. i \in MovesOf(w)
        BY <3>1
      <4> QED BY <1>0, <2>3, <3>4, <3>6, <4>1
    <3> QED BY <3>8, <3>9
  <2>5. CASE w = v /\ verb # "resolve"
    <3>1. MovesOf(w)' = MovesOf(w) \cup {n + 1}
      <4> HIDE DEF n
      <4> QED BY <2>1, <2>2, <2>5 DEF MovesOf
    <3>2. /\ MovesOf(w) \subseteq 1..n
          /\ \A i \in MovesOf(w) : i \in Int /\ i < n + 1 /\ audit'[i] = audit[i]
      BY <2>1 DEF MovesOf
    <3> HIDE DEF n
    <3>3. ASSUME NEW i \in MovesOf(w)
          PROVE  LeftHidden({j \in MovesOf(w) : j < i})' <=> LeftHidden({j \in MovesOf(w) : j < i})
      <4>1. {j \in MovesOf(w)' : j < i} = {j \in MovesOf(w) : j < i}
        BY <2>1, <3>1, <3>2
      <4>2. LeftHidden({j \in MovesOf(w) : j < i})'
               <=> \E k \in {j \in MovesOf(w)' : j < i} :
                      audit'[k].verb = "hide" /\ \A l \in {j \in MovesOf(w)' : j < i} : l <= k
        BY DEF LeftHidden
      <4> QED BY <3>2, <4>1, <4>2 DEF LeftHidden
    <3>4. {j \in MovesOf(w)' : j < n + 1} = MovesOf(w)
      BY <2>1, <3>1, <3>2
    <3>5. (\E k \in MovesOf(w) : audit'[k].verb = "hide" /\ \A l \in MovesOf(w) : l <= k)
             <=> LeftHidden(MovesOf(w))
      BY <3>2 DEF LeftHidden
    <3>6. ASSUME NEW i, i = n + 1
          PROVE  LeftHidden({j \in MovesOf(w) : j < i})' <=> LeftHidden(MovesOf(w))
      <4>1. LeftHidden({j \in MovesOf(w) : j < i})'
               <=> \E k \in {j \in MovesOf(w)' : j < i} :
                      audit'[k].verb = "hide" /\ \A l \in {j \in MovesOf(w)' : j < i} : l <= k
        BY DEF LeftHidden
      <4> QED BY <3>4, <3>5, <3>6, <4>1
    <3>7. LeftHidden(MovesOf(w))' <=> verb = "hide"
      <4>1. LeftHidden(MovesOf(w))'
               <=> \E k \in MovesOf(w)' : audit'[k].verb = "hide" /\ \A l \in MovesOf(w)' : l <= k
        BY DEF LeftHidden
      <4>2. \A l \in MovesOf(w)' : l <= n + 1
        BY <2>1, <3>1, <3>2
      <4>3. \A k \in MovesOf(w) : ~(n + 1 <= k)
        BY <2>1, <3>2
      <4> QED BY <2>1, <3>1, <4>1, <4>2, <4>3
    <3>8. /\ verb \in {"hide", "restore"}
          /\ verb = "hide" => visibility[w].hidden = FALSE /\ visibility'[w].hidden = TRUE
          /\ verb = "restore" => visibility[w].hidden = TRUE /\ visibility'[w].hidden = FALSE
      BY <1>3, <2>5 DEF Audited, Verbs
    <3>9. LeftHidden(MovesOf(w)) \in BOOLEAN /\ LeftHidden(MovesOf(w))' \in BOOLEAN
      BY DEF LeftHidden
    <3>10. visibility'[w].hidden = LeftHidden(MovesOf(w))'
      BY <3>7, <3>8, <3>9
    <3>11. ASSUME NEW i \in MovesOf(w)'
           PROVE  audit'[i].verb = IF LeftHidden({j \in MovesOf(w) : j < i})'
                                   THEN "restore" ELSE "hide"
      <4>1. CASE i \in MovesOf(w)
        BY <1>0, <2>3, <3>2, <3>3, <4>1
      <4>2. CASE i = n + 1
        <5>1. audit'[i].verb = verb
          BY <2>1, <4>2
        <5>2. LeftHidden({j \in MovesOf(w) : j < i})' <=> visibility[w].hidden = TRUE
          BY <1>0, <2>3, <3>6, <3>9, <4>2
        <5> QED BY <3>8, <5>1, <5>2
      <4> QED BY <3>1, <4>1, <4>2
    <3> QED BY <3>10, <3>11
  <2> QED BY <2>4, <2>5
<1>4. CASE UNCHANGED <<reports, cases, audit>> /\ grants' \subseteq Members /\ AxesKept
  BY <1>1, <1>2, <1>4 DEF AxesKept
<1>5. CASE \E m \in Members, v \in Versions, key \in Keys : SubmitReport(m, v, key)
  <2>1. audit' = audit /\ UNCHANGED vars
    BY <1>5 DEF SubmitReport
  <2>2. w \in Published /\ visibility'[w].hidden = visibility[w].hidden
    BY <2>1 DEF vars, Published
  <2> QED BY <1>1, <2>1, <2>2
<1> QED BY <1>3, <1>4, <1>5, StepShapes

\* A report reopens a case only while the recipe is readable, and whoever moves the
\* axis or the status otherwise writes the event that says so.
LEMMA LastEventPreserved ==
    /\ Inductive /\ Inductive' /\ CaseTypeOK /\ CaseInv /\ LastEventInv
    /\ [ModerationNext]_<<vars, caseVars>>
    => LastEventInv'
<1> DEFINE Told(i) ==
        LET v == audit[i].version IN
        /\ visibility[v].hidden <=> audit[i].state = "moderation_hidden"
        /\ \/ cases[v].status = audit[i].status
           \/ /\ audit[i].status = "resolved" /\ cases[v].status = "open"
              /\ audit[i].state # "moderation_hidden"
<1> SUFFICES ASSUME Inductive, Inductive', CaseTypeOK, CaseInv, LastEventInv,
                    [ModerationNext]_<<vars, caseVars>>, NEW i \in DOMAIN audit',
                    \A k \in DOMAIN audit' : k > i => audit'[k].version # audit'[i].version
             PROVE  Told(i)'
  BY DEF LastEventInv
<1>0. ASSUME i \in DOMAIN audit,
             \A k \in DOMAIN audit : k > i => audit[k].version # audit[i].version
      PROVE  Told(i)
  BY <1>0 DEF LastEventInv
<1>p. \A k \in DOMAIN audit : audit[k].version \in Published /\ audit[k].version \in Versions
  BY EventTypes DEF CaseInv, Event
<1>1. CASE UNCHANGED <<reports, cases, audit>> /\ grants' \subseteq Members /\ AxesKept
  <2>1. Told(i) /\ visibility'[audit[i].version].hidden = visibility[audit[i].version].hidden
    BY <1>0, <1>1, <1>p DEF AxesKept
  <2> QED BY <1>1, <2>1
<1>2. ASSUME NEW m \in Members, NEW v \in Versions, NEW key \in Keys, SubmitReport(m, v, key)
      PROVE  Told(i)'
  <2>1. /\ audit' = audit /\ visibility' = visibility
        /\ v \in Published /\ visibility[v].state = "published"
        /\ cases'[v].status = "open"
        /\ \A w \in Versions : w # v => cases'[w] = cases[w]
    BY <1>2, ReportFacts DEF vars
  <2>2. Told(i)
    BY <1>0, <2>1
  <2>3. CASE audit[i].version # v
    BY <1>p, <2>1, <2>2, <2>3
  <2>4. CASE audit[i].version = v
    <3>1. audit[i].state # "moderation_hidden"
      BY <2>1, <2>2, <2>4, HiddenState
    <3>2. audit[i].status \in {"open", "resolved"}
      BY <2>1, EventTypes DEF Event, Statuses
    <3> QED BY <2>1, <2>2, <2>4, <3>1, <3>2
  <2> QED BY <2>3, <2>4
<1>3. ASSUME NEW m \in Members, NEW v \in Versions, NEW key \in Keys, NEW verb \in Verbs,
             NEW status \in Statuses, Audited(m, v, key, verb, status)
      PROVE  Told(i)'
  <2> DEFINE n == Len(audit)
  <2>1. /\ n \in Nat /\ DOMAIN audit = 1..n /\ DOMAIN audit' = 1..(n + 1)
        /\ \A k \in DOMAIN audit : audit'[k] = audit[k]
        /\ audit'[n + 1].version = v /\ audit'[n + 1].status = status
        /\ audit'[n + 1].state = visibility'[v].state
        /\ v \in Published /\ cases'[v].status = status
        /\ \A w \in Versions : w # v => cases'[w] = cases[w]
    BY <1>3, AuditedFacts
  <2>2. \A k \in 1..(n + 1) : k \in 1..n \/ k = n + 1
    BY <2>1
  <2>3. /\ Published' = Published
        /\ \A w \in Published : w # v => visibility'[w].hidden = visibility[w].hidden
    BY <1>3 DEF Audited
  <2>4. CASE i = n + 1
    <3>1. audit'[i].version = v /\ audit'[i].status = status /\ audit'[i].state = visibility'[v].state
      BY <2>1, <2>4
    <3>2. visibility'[v].hidden <=> visibility'[v].state = "moderation_hidden"
      BY <2>1, <2>3, HiddenStateNext
    <3> HIDE DEF n
    <3> QED BY <2>1, <3>1, <3>2
  <2>5. CASE i # n + 1
    <3> HIDE DEF n
    <3>1. i \in DOMAIN audit /\ audit'[i] = audit[i]
      BY <2>1, <2>2, <2>5
    <3>2. n + 1 \in DOMAIN audit' /\ n + 1 > i
      BY <2>1, <3>1
    <3>3. audit[i].version # v
      BY <2>1, <3>1, <3>2
    <3>4. \A k \in DOMAIN audit : k \in DOMAIN audit'
      BY <2>1
    <3>5. Told(i)
      <4>1. \A k \in DOMAIN audit : k > i => audit[k].version # audit[i].version
        BY <2>1, <3>1, <3>4
      <4> QED BY <1>0, <3>1, <4>1
    <3> QED BY <1>p, <2>1, <2>3, <3>1, <3>3, <3>5
  <2> QED BY <2>4, <2>5
<1> QED BY <1>1, <1>2, <1>3, StepShapes

\* The next event of a case starts from what its last one left.
LEMMA ConnectsPreserved ==
    /\ Inductive /\ Inductive' /\ CaseTypeOK /\ CaseInv /\ LastEventInv /\ CaseHistoryConnects
    /\ [ModerationNext]_<<vars, caseVars>>
    => CaseHistoryConnects'
<1> SUFFICES ASSUME Inductive, Inductive', CaseTypeOK, CaseInv, LastEventInv, CaseHistoryConnects,
                    [ModerationNext]_<<vars, caseVars>>
             PROVE  CaseHistoryConnects'
  OBVIOUS
<1>1. CASE audit' = audit
  BY <1>1 DEF CaseHistoryConnects
<1>2. ASSUME NEW m \in Members, NEW v \in Versions, NEW key \in Keys, NEW verb \in Verbs,
             NEW status \in Statuses, Audited(m, v, key, verb, status)
      PROVE  CaseHistoryConnects'
  <2> SUFFICES ASSUME NEW i \in DOMAIN audit', NEW j \in DOMAIN audit',
                      i < j, audit'[i].version = audit'[j].version,
                      \A k \in (i + 1)..(j - 1) : audit'[k].version # audit'[i].version
               PROVE  \/ audit'[j].previous = audit'[i].status
                      \/ audit'[i].status = "resolved" /\ audit'[j].previous = "open"
                         /\ audit'[i].state # "moderation_hidden"
    BY DEF CaseHistoryConnects
  <2> DEFINE n == Len(audit)
  <2>1. /\ n \in Nat /\ DOMAIN audit = 1..n /\ DOMAIN audit' = 1..(n + 1)
        /\ \A k \in DOMAIN audit : audit'[k] = audit[k]
        /\ audit'[n + 1].version = v /\ audit'[n + 1].previous = cases[v].status
    BY <1>2, AuditedFacts
  <2> HIDE DEF n
  <2>2. i \in DOMAIN audit /\ audit'[i] = audit[i]
    BY <2>1
  <2>3. CASE j \in DOMAIN audit
    <3>1. \A k \in (i + 1)..(j - 1) : k \in DOMAIN audit
      BY <2>1, <2>2, <2>3
    <3> QED BY <2>1, <2>2, <2>3, <3>1 DEF CaseHistoryConnects
  <2>4. CASE j = n + 1
    <3>1. \A k \in DOMAIN audit : k > i => k \in (i + 1)..(j - 1)
      BY <2>1, <2>2, <2>4
    <3>2. \A k \in DOMAIN audit : k > i => audit[k].version # audit[i].version
      BY <2>1, <2>2, <3>1
    <3>3. audit[i].version = v
      BY <2>1, <2>2, <2>4
    <3>4. \/ cases[v].status = audit[i].status
          \/ /\ audit[i].status = "resolved" /\ cases[v].status = "open"
             /\ audit[i].state # "moderation_hidden"
      BY <2>2, <3>2, <3>3 DEF LastEventInv
    <3> QED BY <2>1, <2>2, <2>4, <3>4
  <2> QED BY <2>1, <2>3, <2>4
<1>3. CASE \E m \in Members, v \in Versions, key \in Keys : SubmitReport(m, v, key)
  BY <1>1, <1>3, ReportFacts
<1> QED BY <1>1, <1>2, <1>3, StepShapes

-----------------------------------------------------------------------------
(* The theorems *)

\* Without reports and events every part of the invariant holds.
LEMMA CaseInductiveInit == ModerationInit => CaseInductive
<1> SUFFICES ASSUME ModerationInit PROVE CaseInductive
  OBVIOUS
<1>1. /\ grants = {} /\ reports = {} /\ audit = <<>> /\ Published = {}
      /\ cases = [v \in Versions |-> None]
  BY DEF ModerationInit, Init, Published
<1>2. audit \in Seq(Event) /\ DOMAIN audit = {}
  BY <1>1, EmptySeq
<1>3. CaseTypeOK
  BY <1>1, <1>2, FS_EmptySet DEF CaseTypeOK
<1>4. CaseInv /\ LastEventInv /\ CaseHistoryConnects
  BY <1>1, <1>2 DEF CaseInv, LastEventInv, CaseHistoryConnects
<1>5. CasesCountReporters
  BY <1>1 DEF CasesCountReporters
<1>6. AuditExplainsHiding
  BY <1>1 DEF AuditExplainsHiding
<1> QED BY <1>3, <1>4, <1>5, <1>6 DEF CaseInductive

\* A step of moderation keeps every part of the invariant.
LEMMA CaseInductiveStep ==
    /\ Inductive /\ Inductive' /\ CaseInductive /\ [ModerationNext]_<<vars, caseVars>>
    => CaseInductive'
BY CaseTypePreserved, CaseInvPreserved, CountsPreserved, HidingPreserved,
   LastEventPreserved, ConnectsPreserved DEF CaseInductive

\* Every reachable state of moderation satisfies the invariant of cases and log.
THEOREM CaseInvariance == ModerationSpec => []CaseInductive
BY CaseInductiveInit, ModeratedInductive, CaseInductiveStep, PTL DEF ModerationSpec

\* The audit log explains what moderation hides.
THEOREM LogExplainsHiding == ModerationSpec => []AuditExplainsHiding
<1>1. CaseInductive => AuditExplainsHiding
  BY DEF CaseInductive
<1> QED BY CaseInvariance, <1>1, PTL

\* Cases count their reporters, and only reported recipes are hidden.
THEOREM ReportersAreCounted == ModerationSpec => []CasesCountReporters
<1>1. CaseInductive => CasesCountReporters
  BY DEF CaseInductive
<1> QED BY CaseInvariance, <1>1, PTL

\* The events of a case connect.
THEOREM CaseHistoriesConnect == ModerationSpec => []CaseHistoryConnects
<1>1. CaseInductive => CaseHistoryConnects
  BY DEF CaseInductive
<1> QED BY CaseInvariance, <1>1, PTL

-----------------------------------------------------------------------------
(* The pages: types *)

Snap == [status : Statuses, hidden : BOOLEAN, asOf : Nat]

Page == [selected : Versions \cup {None}, shown : Snap \cup {None}, error : BOOLEAN,
         fetch : {"ended", "asked", "answered"}, fetched : Snap \cup {None},
         attempt : Attempt \cup {None}, pending : Nat, answer : Nat, seen : Nat]

Post == [page : Workspaces, call : Nat, version : Versions, verb : Verbs, key : Keys]

Success == [page : Workspaces, version : Versions, verb : Verbs, event : Nat]

PageTypes == /\ workspace \in [Workspaces -> Page]
             /\ posts \subseteq Post
             /\ calls \in Nat
             /\ told \in Seq(Success)

\* What the log says of every version after its first n events.
Left == [v \in Versions |-> [n \in Nat |-> LeftHidden({i \in MovesOf(v) : i <= n})]]

\* A snapshot tells what the log left at its time.
Stands(v, snapshot) == /\ snapshot.asOf <= Len(audit)
                       /\ snapshot.hidden = Left[v][snapshot.asOf]

\* An answer on its way to page w is of what w asked for.
AnswerInv(w) ==
    LET page == workspace[w] IN
    /\ page.pending # 0 => page.attempt \in Attempt /\ page.pending <= calls
    /\ page.answer # 0 =>
          /\ page.pending # 0
          /\ page.answer \in DOMAIN audit
          /\ audit[page.answer].actor = Reviewer[w]
          /\ audit[page.answer].version = page.selected
          /\ audit[page.answer].verb = page.attempt.verb
          /\ audit[page.answer].key = page.attempt.key

\* A request its page waits for is the one it asks for.
PostInv(r) ==
    LET page == workspace[r.page] IN
    /\ r.call # 0 /\ r.call <= calls
    /\ page.pending = r.call =>
          /\ page.selected = r.version
          /\ page.attempt.verb = r.verb /\ page.attempt.key = r.key

\* No page holds the key of a success, nor two pages of a moderator the same.
KeysInv ==
    /\ \A w \in Workspaces, s \in DOMAIN told :
          Reviewer[w] = Reviewer[told[s].page] /\ workspace[w].attempt # None
             => workspace[w].attempt.key # audit[told[s].event].key
    /\ \A w, u \in Workspaces :
          /\ w # u /\ Reviewer[w] = Reviewer[u]
          /\ workspace[w].attempt # None /\ workspace[u].attempt # None
          => workspace[w].attempt.key # workspace[u].attempt.key

\* What page w shows and is about to show.
FreshInv(w) ==
    LET page == workspace[w] IN
    /\ page.seen <= Len(audit)
    /\ page.selected # None => cases[page.selected] # None
    /\ page.fetch # "ended" => page.selected # None
    /\ page.shown # None => page.selected # None /\ Stands(page.selected, page.shown)
    /\ page.fetch = "answered" => /\ page.fetched \in Snap
                                  /\ Stands(page.selected, page.fetched)
                                  /\ page.seen <= page.fetched.asOf
    /\ page.shown # None /\ page.fetch = "ended" /\ ~page.error => page.seen <= page.shown.asOf

\* Every event records what it left.
EventsTell ==
    \A i \in DOMAIN audit :
        (audit[i].state = "moderation_hidden") = Left[audit[i].version][i]

PageInductive == /\ PageTypes
                 /\ \A w \in Workspaces : AnswerInv(w) /\ FreshInv(w)
                 /\ \A r \in posts : PostInv(r)
                 /\ KeysInv
                 /\ SuccessesAreActions

-----------------------------------------------------------------------------
(* The pages: what a step leaves of the log *)

\* The log only grows, and no case goes.
LogKept == /\ Len(audit) \in Nat /\ Len(audit') \in Nat /\ Len(audit) <= Len(audit')
           /\ DOMAIN audit = 1..Len(audit) /\ DOMAIN audit' = 1..Len(audit')
           /\ \A i \in DOMAIN audit : audit'[i] = audit[i]
           /\ \A v \in Versions : cases[v] # None => cases'[v] # None

\* No step of moderation takes anything from the log.
LEMMA LogGrows ==
    ASSUME Inductive, Inductive', CaseTypeOK, CaseTypeOK', CaseInv, [ModerationNext]_<<vars, caseVars>>
    PROVE  LogKept
<1>0. /\ Len(audit) \in Nat /\ DOMAIN audit = 1..Len(audit)
      /\ Len(audit') \in Nat /\ DOMAIN audit' = 1..Len(audit')
  BY LenProperties DEF CaseTypeOK
<1>n. None \notin Case
  BY ModerationAssumption
<1>1. CASE UNCHANGED <<reports, cases, audit>> /\ grants' \subseteq Members /\ AxesKept
  BY <1>0, <1>1 DEF LogKept
<1>2. ASSUME NEW m \in Members, NEW v \in Versions, NEW key \in Keys, SubmitReport(m, v, key)
      PROVE  LogKept
  <2>1. audit' = audit
    BY <1>2, ReportFacts
  <2>2. \A u \in Versions : cases[u] # None => cases'[u] # None
    BY <1>2, <1>n, ReportFacts DEF CaseTypeOK
  <2> QED BY <1>0, <2>1, <2>2 DEF LogKept
<1>3. ASSUME NEW m \in Members, NEW v \in Versions, NEW key \in Keys, NEW verb \in Verbs,
             NEW status \in Statuses, Audited(m, v, key, verb, status)
      PROVE  LogKept
  <2> DEFINE n == Len(audit)
  <2>1. /\ n \in Nat /\ DOMAIN audit = 1..n /\ DOMAIN audit' = 1..(n + 1)
        /\ \A i \in DOMAIN audit : audit'[i] = audit[i]
        /\ cases'[v] \in Case /\ \A u \in Versions : u # v => cases'[u] = cases[u]
    BY <1>3, AuditedFacts
  <2>2. n + 1 \in DOMAIN audit'
    BY <2>1
  <2>3. n <= Len(audit')
    BY <1>0, <2>1, <2>2
  <2> QED BY <1>0, <1>n, <2>1, <2>3 DEF LogKept
<1> QED BY <1>1, <1>2, <1>3, StepShapes

\* What the log said of its first events it says for good.
LEMMA LeftKept ==
    LogKept => \A v \in Versions, n \in Nat : n <= Len(audit) => Left'[v][n] = Left[v][n]
<1> SUFFICES ASSUME LogKept, NEW v \in Versions, NEW n \in Nat, n <= Len(audit)
             PROVE  Left'[v][n] = Left[v][n]
  OBVIOUS
<1> DEFINE moves == {i \in MovesOf(v) : i <= n}
<1>1. /\ moves \subseteq DOMAIN audit
      /\ \A i \in moves : audit'[i] = audit[i]
  BY DEF MovesOf, LogKept
<1>2. moves' = moves
  <2>1. \A i : i \in DOMAIN audit' /\ i <= n <=> i \in DOMAIN audit /\ i <= n
    BY DEF LogKept
  <2> QED BY <2>1 DEF MovesOf, LogKept
<1>3. LeftHidden(moves)' = \E i \in moves' : audit'[i].verb = "hide" /\ \A j \in moves' : j <= i
  BY DEF LeftHidden
<1>4. LeftHidden(moves) = \E i \in moves : audit[i].verb = "hide" /\ \A j \in moves : j <= i
  BY DEF LeftHidden
<1>5. Left[v][n] = LeftHidden(moves) /\ Left'[v][n] = LeftHidden(moves)'
  BY DEF Left
<1> HIDE DEF moves
<1>6. (\E i \in moves' : audit'[i].verb = "hide" /\ \A j \in moves' : j <= i)
         <=> (\E i \in moves : audit[i].verb = "hide" /\ \A j \in moves : j <= i)
  BY <1>1, <1>2
<1> QED BY <1>3, <1>4, <1>5, <1>6

\* A snapshot that stands goes on to stand.
LEMMA StandsKept ==
    LogKept => \A v \in Versions, snapshot \in Snap :
        Stands(v, snapshot) => /\ snapshot.asOf <= Len(audit')
                               /\ snapshot.hidden = Left'[v][snapshot.asOf]
<1> SUFFICES ASSUME LogKept, NEW v \in Versions, NEW snapshot \in Snap, Stands(v, snapshot)
             PROVE  /\ snapshot.asOf <= Len(audit')
                    /\ snapshot.hidden = Left'[v][snapshot.asOf]
  OBVIOUS
<1>1. snapshot.asOf \in Nat /\ snapshot.asOf <= Len(audit)
  BY DEF Stands, Snap
<1>2. Left'[v][snapshot.asOf] = Left[v][snapshot.asOf]
  BY <1>1, LeftKept
<1>3. snapshot.asOf <= Len(audit')
  BY <1>1 DEF LogKept
<1> QED BY <1>2, <1>3 DEF Stands

\* All of the log is what there is to explain the moderation axis.
LEMMA LeftByAll ==
    CaseTypeOK /\ AuditExplainsHiding =>
        \A v \in Published : visibility[v].hidden = Left[v][Len(audit)]
<1> SUFFICES ASSUME CaseTypeOK, AuditExplainsHiding, NEW v \in Published
             PROVE  visibility[v].hidden = Left[v][Len(audit)]
  OBVIOUS
<1>1. Len(audit) \in Nat /\ DOMAIN audit = 1..Len(audit)
  BY LenProperties DEF CaseTypeOK
<1>2. {i \in MovesOf(v) : i <= Len(audit)} = MovesOf(v)
  BY <1>1 DEF MovesOf
<1>3. v \in Versions
  BY DEF Published
<1>4. Left[v][Len(audit)] = LeftHidden(MovesOf(v))
  BY <1>1, <1>2, <1>3 DEF Left
<1> QED BY <1>4 DEF AuditExplainsHiding

\* The same after a step.
LEMMA LeftByAllNext ==
    CaseTypeOK' /\ AuditExplainsHiding' =>
        \A v \in Published' : visibility'[v].hidden = Left'[v][Len(audit')]
<1> DEFINE Typed == CaseTypeOK /\ AuditExplainsHiding
           Agree == \A v \in Published : visibility[v].hidden = Left[v][Len(audit)]
<1>1. Typed => Agree
  BY LeftByAll
<1>2. Typed' => Agree'
  BY <1>1, PTL
<1> QED BY <1>2

\* A step of moderation that writes an event has it record what it left.
LEMMA EventsTellPreserved ==
    /\ Inductive /\ Inductive' /\ CaseInductive /\ CaseInductive' /\ EventsTell
    /\ [ModerationNext]_<<vars, caseVars>>
    => EventsTell'
<1> SUFFICES ASSUME Inductive, Inductive', CaseInductive, CaseInductive', EventsTell,
                    [ModerationNext]_<<vars, caseVars>>
             PROVE  EventsTell'
  OBVIOUS
<1>1. CaseTypeOK /\ CaseTypeOK' /\ CaseInv /\ CaseInv' /\ AuditExplainsHiding'
  BY DEF CaseInductive
<1>2. LogKept
  BY <1>1, LogGrows
<1>3. ASSUME NEW i \in DOMAIN audit
      PROVE  (audit'[i].state = "moderation_hidden") = Left'[audit'[i].version][i]
  <2>1. i \in Nat /\ i <= Len(audit) /\ audit'[i] = audit[i]
    BY <1>2 DEF LogKept
  <2>2. audit[i].version \in Versions
    BY <1>1, EventTypes DEF Event
  <2> QED BY <1>2, <2>1, <2>2, LeftKept DEF EventsTell
<1>4. CASE audit' = audit
  BY <1>3, <1>4 DEF EventsTell
<1>5. ASSUME NEW m \in Members, NEW v \in Versions, NEW key \in Keys, NEW verb \in Verbs,
             NEW status \in Statuses, Audited(m, v, key, verb, status)
      PROVE  EventsTell'
  <2> DEFINE n == Len(audit)
  <2>1. /\ n \in Nat /\ DOMAIN audit = 1..n /\ DOMAIN audit' = 1..(n + 1)
        /\ audit'[n + 1].version = v /\ audit'[n + 1].state = visibility'[v].state
        /\ v \in Published
    BY <1>1, <1>5, AuditedFacts
  <2>2. v \in Published'
    BY <1>5, <2>1 DEF Audited
  <2>3. visibility'[v].hidden <=> visibility'[v].state = "moderation_hidden"
    BY <2>2, HiddenStateNext
  <2>4. visibility'[v].hidden = Left'[v][n + 1]
    <3>1. \A k \in Nat, l \in Nat \ {0} : 1..k = 1..l => k = l
      OBVIOUS
    <3>2. Len(audit') = n + 1
      <4>1. 1..Len(audit') = 1..(n + 1) /\ Len(audit') \in Nat /\ n \in Nat
        BY <1>2, <2>1 DEF LogKept
      <4> HIDE DEF n
      <4> QED BY <3>1, <4>1
    <3> QED BY <1>1, <2>2, <3>2, LeftByAllNext
  <2>5. visibility'[v].hidden \in BOOLEAN
    <3>1. visibility'[v] \in Visibility
      BY <2>1, <2>2 DEF Inductive, TypeOK, VisibilityInv, Published
    <3> QED BY <3>1 DEF Visibility
  <2> HIDE DEF n
  <2>6. \A i \in DOMAIN audit' : i \in DOMAIN audit \/ i = n + 1
    BY <2>1
  <2>7. (audit'[n + 1].state = "moderation_hidden") = Left'[audit'[n + 1].version][n + 1]
    BY <2>1, <2>3, <2>4, <2>5
  <2> QED BY <1>3, <2>6, <2>7 DEF EventsTell
<1>6. CASE \E m \in Members, v \in Versions, key \in Keys : SubmitReport(m, v, key)
  BY <1>1, <1>4, <1>6, ReportFacts
<1> QED BY <1>1, <1>4, <1>5, <1>6, StepShapes

-----------------------------------------------------------------------------
(* The pages: what a step leaves of PageInductive *)

\* Of a page that is left alone what holds goes on to hold, whatever moderation does.
LEMMA PageKept ==
    ASSUME LogKept, PageInductive, calls' \in Nat, calls <= calls',
           NEW u \in Workspaces, workspace'[u] = workspace[u]
    PROVE  AnswerInv(u)' /\ FreshInv(u)'
<1>1. workspace[u] \in Page /\ calls \in Nat /\ AnswerInv(u) /\ FreshInv(u)
  BY DEF PageInductive, PageTypes
<1> DEFINE page == workspace[u]
<1>2. page.pending \in Nat /\ page.seen \in Nat /\ page.selected \in Versions \cup {None}
      /\ page.shown \in Snap \cup {None} /\ page.answer \in Nat
  BY <1>1 DEF Page
<1>3. AnswerInv(u)'
  <2>1. page.answer # 0 => page.answer \in DOMAIN audit /\ page.answer \in DOMAIN audit'
                           /\ audit'[page.answer] = audit[page.answer]
    BY <1>1 DEF AnswerInv, LogKept
  <2>2. page.pending # 0 => page.pending <= calls'
    BY <1>1, <1>2 DEF AnswerInv
  <2> QED BY <1>1, <2>1, <2>2 DEF AnswerInv
<1>5. page.seen <= Len(audit') /\ (page.selected # None => cases'[page.selected] # None)
  BY <1>1, <1>2 DEF FreshInv, LogKept
<1>6. page.shown # None => page.shown \in Snap /\ page.selected # None
  BY <1>1, <1>2 DEF FreshInv
<1>7. FreshInv(u)'
  BY <1>1, <1>2, <1>5, <1>6, StandsKept DEF FreshInv, Stands
<1> QED BY <1>3, <1>7

\* What is true of the successes told stays true.
LEMMA ToldKept ==
    ASSUME LogKept, PageInductive, UNCHANGED told
    PROVE  /\ SuccessesAreActions'
           /\ \A s \in DOMAIN told : audit'[told[s].event] = audit[told[s].event]
<1>1. \A s \in DOMAIN told : told[s].event \in DOMAIN audit
  BY DEF PageInductive, SuccessesAreActions
<1>2. \A s \in DOMAIN told : /\ audit'[told[s].event] = audit[told[s].event]
                             /\ told[s].event \in DOMAIN audit'
  BY <1>1 DEF LogKept
<1> QED BY <1>2 DEF PageInductive, SuccessesAreActions

\* A page that asks for nothing new.
LEMMA PageTurns ==
    ASSUME LogKept, PageInductive, UNCHANGED <<posts, calls, told>>,
           NEW w \in Workspaces, NEW page \in Page, Turns(w, page),
           AnswerInv(w)', FreshInv(w)',
           page.attempt \in {None, workspace[w].attempt},
           page.pending = 0 \/ /\ page.pending = workspace[w].pending
                               /\ page.selected = workspace[w].selected
                               /\ page.attempt = workspace[w].attempt
    PROVE  PageInductive'
<1>1. /\ workspace'[w] = page /\ workspace' \in [Workspaces -> Page]
      /\ \A u \in Workspaces : u # w => workspace'[u] = workspace[u]
  BY DEF Turns, PageInductive, PageTypes
<1>2. PageTypes'
  BY <1>1 DEF PageInductive, PageTypes
<1>3. \A u \in Workspaces : AnswerInv(u)' /\ FreshInv(u)'
  <2>1. calls' \in Nat /\ calls <= calls'
    BY DEF PageInductive, PageTypes
  <2> QED BY <1>1, <2>1, PageKept
<1>4. \A r \in posts' : PostInv(r)'
  <2> SUFFICES ASSUME NEW r \in posts' PROVE PostInv(r)'
    OBVIOUS
  <2>1. r.page \in Workspaces /\ PostInv(r)
    BY DEF PageInductive, PageTypes, Post
  <2>2. r.page # w => workspace'[r.page] = workspace[r.page]
    BY <1>1, <2>1
  <2> QED BY <1>1, <2>1, <2>2 DEF PostInv
<1>5. SuccessesAreActions' /\ \A s \in DOMAIN told : audit'[told[s].event] = audit[told[s].event]
  BY ToldKept
<1>6. \A u \in Workspaces : workspace'[u].attempt # None => workspace'[u].attempt = workspace[u].attempt
  BY <1>1
<1>7. KeysInv'
  <2>1. KeysInv
    BY DEF PageInductive
  <2> QED BY <1>5, <1>6, <2>1 DEF KeysInv
<1> QED BY <1>2, <1>3, <1>4, <1>5, <1>7 DEF PageInductive

\* Selecting another case, or none.
LEMMA AfterSelect ==
    ASSUME LogKept, PageInductive, NEW w \in Workspaces, NEW v \in Versions \cup {None},
           SelectCase(w, v)
    PROVE  PageInductive'
<1> DEFINE page == Selecting(v)
<1>1. /\ Turns(w, page) /\ UNCHANGED <<cases, posts, calls, told>>
      /\ v # None => cases[v] # None
  BY DEF SelectCase, caseVars
<1>2. page \in Page
  BY DEF Selecting, Page
<1>3. /\ page.selected = v /\ page.shown = None /\ page.pending = 0 /\ page.answer = 0
      /\ page.seen = 0 /\ page.attempt = None
      /\ page.fetch = IF v = None THEN "ended" ELSE "asked"
  BY DEF Selecting
<1>4. workspace'[w] = page
  BY <1>1 DEF Turns, PageInductive, PageTypes
<1> HIDE DEF page
<1>5. AnswerInv(w)'
  BY <1>3, <1>4 DEF AnswerInv
<1>6. FreshInv(w)'
  <2>1. 0 <= Len(audit')
    BY DEF LogKept
  <2> QED BY <1>1, <1>3, <1>4, <2>1 DEF FreshInv
<1> QED BY <1>1, <1>2, <1>3, <1>5, <1>6, PageTurns

\* A fetch that begins, replaces another, or fails, and an action that fails, leave
\* what is shown.
LEMMA AfterRestless ==
    ASSUME LogKept, PageInductive, NEW w \in Workspaces,
           ReloadDetail(w) \/ DetailFails(w) \/ ActionFails(w)
    PROVE  PageInductive'
<1> DEFINE old == workspace[w]
           page == workspace'[w]
<1>1. old \in Page /\ AnswerInv(w) /\ FreshInv(w)
  BY DEF PageInductive, PageTypes
<1>2. /\ Turns(w, page) /\ page \in Page /\ UNCHANGED <<cases, posts, calls, told>>
      /\ page.selected = old.selected /\ page.shown = old.shown /\ page.attempt = old.attempt
      /\ page.seen = old.seen
      /\ \/ page.pending = 0 /\ page.answer = 0
         \/ page.pending = old.pending /\ page.answer = old.answer
      /\ \/ page.fetch = old.fetch /\ page.fetched = old.fetched /\ page.error = old.error
         \/ page.fetch = "asked" /\ old.selected # None
         \/ page.fetch = "ended" /\ page.error
  <2>1. CASE ReloadDetail(w)
    BY <1>1, <2>1 DEF ReloadDetail, Turns, Page, caseVars, PageInductive, PageTypes
  <2>2. CASE DetailFails(w)
    BY <1>1, <2>2 DEF DetailFails, Turns, Page, caseVars, PageInductive, PageTypes
  <2>3. CASE ActionFails(w)
    BY <1>1, <2>3 DEF ActionFails, Turns, Page, caseVars, PageInductive, PageTypes
  <2> QED BY <2>1, <2>2, <2>3
<1>3. \A i \in DOMAIN audit : i \in DOMAIN audit' /\ audit'[i] = audit[i]
  BY DEF LogKept
<1>4. AnswerInv(w)'
  <2>1. page.pending # 0 => page.pending = old.pending
    BY <1>2
  <2>2. page.answer # 0 => page.answer = old.answer /\ page.pending = old.pending
    BY <1>2
  <2> QED BY <1>1, <1>2, <1>3, <2>1, <2>2 DEF AnswerInv
<1>5. FreshInv(w)'
  <2>1. old.selected \in Versions \cup {None}
    BY <1>1 DEF Page
  <2>2. old.seen <= Len(audit')
    BY <1>1 DEF FreshInv, LogKept, Page
  <2>3. old.shown # None => old.shown \in Snap /\ old.selected # None
    BY <1>1 DEF FreshInv, Page
  <2> HIDE DEF old, page
  <2>4. workspace[w] = old /\ workspace'[w] = page
    BY DEF old, page
  <2> QED BY <1>1, <1>2, <2>1, <2>2, <2>3, <2>4, StandsKept DEF FreshInv, Stands
<1> QED BY <1>1, <1>2, <1>4, <1>5, PageTurns

\* A fetch reads the case: at least as much of the log as the page was told of.
LEMMA AfterRead ==
    ASSUME LogKept, PageInductive, CaseTypeOK, CaseInv, AuditExplainsHiding, Inductive,
           NEW w \in Workspaces, ReadDetail(w)
    PROVE  PageInductive'
<1> DEFINE old == workspace[w]
           v == old.selected
           snapshot == Snapshot(cases[v].status, visibility[v].hidden, Len(audit))
           page == [old EXCEPT !.fetch = "answered", !.fetched = snapshot]
<1>1. old \in Page /\ AnswerInv(w) /\ FreshInv(w)
  BY DEF PageInductive, PageTypes
<1>2. Turns(w, page) /\ old.fetch = "asked" /\ UNCHANGED <<cases, audit, posts, calls, told>>
  BY DEF ReadDetail, caseVars
<1>3. v \in Versions /\ v \in Published /\ cases[v] # None
  <2>1. v \in Versions \cup {None}
    BY <1>1 DEF Page
  <2> QED BY <1>1, <1>2, <2>1 DEF FreshInv, CaseInv
<1>4. snapshot \in Snap /\ snapshot.asOf = Len(audit) /\ snapshot.hidden = visibility[v].hidden
  <2>1. cases[v] \in Case /\ visibility[v] \in Visibility
    BY <1>3, HiddenState DEF CaseTypeOK
  <2>2. Len(audit) \in Nat
    BY DEF LogKept
  <2> QED BY <2>1, <2>2 DEF Snapshot, Snap, Case, Visibility
<1>5. Stands(v, snapshot)
  BY <1>3, <1>4, LeftByAll DEF Stands, LogKept
<1> HIDE DEF snapshot
<1>6. /\ page \in Page /\ page.selected = v /\ page.shown = old.shown /\ page.pending = old.pending
      /\ page.answer = old.answer /\ page.attempt = old.attempt /\ page.seen = old.seen
      /\ page.fetch = "answered" /\ page.fetched = snapshot
  BY <1>1, <1>4 DEF Page
<1>7. workspace'[w] = page
  BY <1>2 DEF Turns, PageInductive, PageTypes
<1>8. old.seen <= snapshot.asOf /\ old.seen <= Len(audit')
  BY <1>1, <1>2, <1>4 DEF FreshInv
<1>9. old.shown # None => old.shown \in Snap
  BY <1>1 DEF Page
<1> HIDE DEF page
<1>10. AnswerInv(w)'
  BY <1>1, <1>2, <1>6, <1>7 DEF AnswerInv
<1>11. FreshInv(w)'
  BY <1>1, <1>2, <1>3, <1>4, <1>5, <1>6, <1>7, <1>8, <1>9, StandsKept DEF FreshInv, Stands
<1> QED BY <1>2, <1>6, <1>10, <1>11, PageTurns

\* What was fetched is shown: nothing later was shown since the fetch began.
LEMMA AfterShow ==
    ASSUME LogKept, PageInductive, NEW w \in Workspaces, ShowDetail(w)
    PROVE  PageInductive'
<1> DEFINE old == workspace[w]
           page == [Shows(old, old.fetched) EXCEPT !.fetch = "ended", !.fetched = None, !.error = FALSE]
<1>1. old \in Page /\ AnswerInv(w) /\ FreshInv(w)
  BY DEF PageInductive, PageTypes
<1>2. Turns(w, page) /\ old.fetch = "answered" /\ UNCHANGED <<cases, audit, posts, calls, told>>
  BY DEF ShowDetail, caseVars
<1>3. /\ old.fetched \in Snap /\ Stands(old.selected, old.fetched) /\ old.seen <= old.fetched.asOf
      /\ old.selected # None /\ old.selected \in Versions \cup {None} /\ old.fetched.asOf \in Nat
      /\ old.seen \in Nat
  BY <1>1, <1>2 DEF FreshInv, Page, Snap
<1>4. Later(old.seen, old.fetched.asOf) = old.fetched.asOf
  BY <1>3 DEF Later
<1>5. /\ page \in Page /\ page.selected = old.selected /\ page.shown = old.fetched
      /\ page.pending = old.pending /\ page.answer = old.answer /\ page.attempt = old.attempt
      /\ page.seen = old.fetched.asOf /\ page.fetch = "ended"
  BY <1>1, <1>3, <1>4 DEF Page, Shows
<1>6. workspace'[w] = page
  BY <1>2 DEF Turns, PageInductive, PageTypes
<1> HIDE DEF page
<1>7. AnswerInv(w)'
  BY <1>1, <1>2, <1>5, <1>6 DEF AnswerInv
<1>8. old.selected # None => cases[old.selected] # None
  BY <1>1 DEF FreshInv
<1> HIDE DEF old
<1>9. FreshInv(w)'
  BY <1>2, <1>3, <1>5, <1>6, <1>8, StandsKept DEF FreshInv, Stands
<1> QED BY <1>2, <1>5, <1>7, <1>9, PageTurns DEF old

\* An action asked for again keeps its key, and another one's key is its own.
LEMMA AfterApply ==
    ASSUME LogKept, PageInductive, NEW w \in Workspaces, NEW verb \in Verbs, NEW key \in Keys,
           ApplyAction(w, verb, key)
    PROVE  PageInductive'
<1> DEFINE old == workspace[w]
           attempt == [verb |-> verb, key |-> key]
           page == [old EXCEPT !.attempt = attempt, !.pending = calls + 1]
           post == [page |-> w, call |-> calls + 1, version |-> old.selected, verb |-> verb, key |-> key]
<1>1. old \in Page /\ AnswerInv(w) /\ FreshInv(w) /\ KeysInv /\ calls \in Nat
  BY DEF PageInductive, PageTypes
<1>2. /\ Turns(w, page) /\ old.pending = 0 /\ old.shown # None /\ AttemptFor(w, verb, key)
      /\ calls' = calls + 1 /\ posts' = posts \cup {post}
      /\ UNCHANGED <<cases, audit, told>>
  BY DEF ApplyAction, caseVars
<1>3. attempt \in Attempt /\ attempt # None /\ attempt.verb = verb /\ attempt.key = key
  BY WorkspaceAssumption DEF Attempt
<1>4. old.answer = 0 /\ old.selected \in Versions
  BY <1>1, <1>2 DEF AnswerInv, FreshInv, Page
<1> HIDE DEF attempt
<1>5. /\ page \in Page /\ page.selected = old.selected /\ page.shown = old.shown
      /\ page.pending = calls + 1 /\ page.answer = 0 /\ page.attempt = attempt
      /\ page.seen = old.seen /\ page.fetch = old.fetch /\ page.fetched = old.fetched
      /\ page.error = old.error
  <2> DEFINE call == calls + 1
  <2>1. call \in Nat
    BY <1>1
  <2> HIDE DEF call, old
  <2>2. page = [old EXCEPT !.attempt = attempt, !.pending = call]
    BY DEF call, old
  <2>3. attempt \in Attempt \cup {None}
    BY <1>3
  <2>4. old \in Page /\ old.answer = 0
    BY <1>1, <1>4
  <2> HIDE DEF page
  <2>5. page \in Page
    BY <2>1, <2>2, <2>3, <2>4 DEF Page
  <2> QED BY <2>2, <2>4, <2>5 DEF Page, call
<1>6. /\ workspace'[w] = page /\ workspace' \in [Workspaces -> Page]
      /\ \A u \in Workspaces : u # w => workspace'[u] = workspace[u]
  BY <1>2, <1>5 DEF Turns, PageInductive, PageTypes
<1>7. /\ post \in Post /\ post.page = w /\ post.call = calls + 1 /\ post.version = old.selected
      /\ post.verb = verb /\ post.key = key
  BY <1>1, <1>4 DEF Post
<1> HIDE DEF page, post
<1>8. PageTypes'
  BY <1>1, <1>2, <1>6, <1>7 DEF PageInductive, PageTypes
<1>9. calls' \in Nat /\ calls <= calls'
  BY <1>1, <1>2
<1>10. \A u \in Workspaces : AnswerInv(u)' /\ FreshInv(u)'
  <2>1. \A u \in Workspaces : u # w => AnswerInv(u)' /\ FreshInv(u)'
    BY <1>6, <1>9, PageKept
  <2>2. AnswerInv(w)'
    BY <1>1, <1>2, <1>3, <1>5, <1>6 DEF AnswerInv
  <2>3. FreshInv(w)'
    <3>1. /\ old.shown # None => old.shown \in Snap
          /\ old.selected \in Versions
      BY <1>1, <1>4 DEF Page
    <3> HIDE DEF old
    <3>2. workspace[w] = old
      BY DEF old
    <3> QED BY <1>1, <1>2, <1>5, <1>6, <3>1, <3>2, StandsKept DEF FreshInv, Stands
  <2> QED BY <2>1, <2>2, <2>3
<1>11. \A r \in posts' : PostInv(r)'
  <2>1. ASSUME NEW r \in posts', r = post PROVE PostInv(r)'
    BY <1>1, <1>2, <1>3, <1>5, <1>6, <1>7, <2>1 DEF PostInv
  <2>2. ASSUME NEW r \in posts PROVE PostInv(r)'
    <3>1. r.page \in Workspaces /\ PostInv(r) /\ r.call \in Nat
      BY DEF PageInductive, PageTypes, Post
    <3>2. r.call # 0 /\ r.call <= calls' /\ r.call # calls + 1
      BY <1>1, <1>2, <3>1 DEF PostInv
    <3>3. CASE r.page = w
      BY <1>5, <1>6, <3>2, <3>3 DEF PostInv
    <3>4. CASE r.page # w
      BY <1>6, <3>1, <3>2, <3>4 DEF PostInv
    <3> QED BY <3>3, <3>4
  <2> QED BY <1>2, <2>1, <2>2
<1>12. SuccessesAreActions' /\ \A s \in DOMAIN told : audit'[told[s].event] = audit[told[s].event]
  BY <1>2, ToldKept
<1>13. \/ old.attempt # None /\ old.attempt.key = key
       \/ NewKey(Reviewer[w], key)
  BY <1>2 DEF AttemptFor
<1>14. KeysInv'
  <2>1. ASSUME NEW s \in DOMAIN told, Reviewer[w] = Reviewer[told[s].page]
        PROVE  key # audit[told[s].event].key
    <3>1. told[s].event \in DOMAIN audit /\ audit[told[s].event].actor = Reviewer[w]
      BY <2>1 DEF PageInductive, SuccessesAreActions
    <3> QED BY <1>1, <1>13, <2>1, <3>1 DEF NewKey, KeysInv
  <2>2. ASSUME NEW u \in Workspaces, u # w, Reviewer[u] = Reviewer[w], workspace[u].attempt # None
        PROVE  workspace[u].attempt.key # key
    <3>1. workspace[u].attempt.key \in KeysHeld(Reviewer[w])
      BY <2>2 DEF KeysHeld
    <3> QED BY <1>1, <1>13, <2>2, <3>1 DEF NewKey, KeysInv
  <2>3. \A u \in Workspaces : u # w => workspace'[u].attempt = workspace[u].attempt
    BY <1>6
  <2>4. workspace'[w].attempt.key = key
    BY <1>3, <1>5, <1>6
  <2> QED BY <1>1, <1>2, <1>12, <2>1, <2>2, <2>3, <2>4 DEF KeysInv
<1> QED BY <1>8, <1>10, <1>11, <1>12, <1>14 DEF PageInductive

\* A success that is told: its event was told of by nobody, and its key is forgotten.
LEMMA AfterSuccess ==
    ASSUME LogKept, PageInductive, CaseTypeOK, EventsTell, NEW w \in Workspaces, ActionSucceeds(w)
    PROVE  PageInductive'
<1> DEFINE old == workspace[w]
           a == old.answer
           e == audit[a]
           snapshot == Snapshot(e.status, e.state = "moderation_hidden", a)
           page == [Shows(old, snapshot)
                       EXCEPT !.fetch = "asked", !.fetched = None, !.attempt = None,
                              !.pending = 0, !.answer = 0]
           success == [page |-> w, version |-> old.selected, verb |-> old.attempt.verb, event |-> a]
           n == Len(told)
<1>1. /\ old \in Page /\ AnswerInv(w) /\ FreshInv(w) /\ KeysInv
      /\ told \in Seq(Success)
  BY DEF PageInductive, PageTypes
<1>2. /\ Turns(w, page) /\ a # 0 /\ told' = Append(told, success)
      /\ UNCHANGED <<cases, audit, posts, calls>>
  BY DEF ActionSucceeds, Succeeded, caseVars
<1>3. /\ a \in Nat /\ a \in DOMAIN audit /\ a <= Len(audit)
      /\ e \in Event /\ e.actor = Reviewer[w] /\ e.version = old.selected
      /\ e.verb = old.attempt.verb /\ e.key = old.attempt.key
      /\ old.attempt \in Attempt /\ old.attempt # None
  BY <1>1, <1>2, EventTypes, WorkspaceAssumption DEF AnswerInv, Page, LogKept
<1>4. old.selected \in Versions /\ old.attempt.verb \in Verbs /\ old.selected # None
  <2>1. old.selected \in Versions
    BY <1>3 DEF Event
  <2> QED BY <1>3, <2>1, NoneAssumption DEF Attempt
<1>5. /\ snapshot \in Snap /\ snapshot.asOf = a
      /\ snapshot.hidden = (e.state = "moderation_hidden")
  <2>1. e.status \in Statuses
    BY <1>3 DEF Event
  <2> QED BY <1>3, <2>1 DEF Snapshot, Snap
<1>6. Stands(old.selected, snapshot)
  <2>1. (e.state = "moderation_hidden") = Left[e.version][a]
    BY <1>3 DEF EventsTell
  <2> QED BY <1>3, <1>5, <2>1 DEF Stands
<1>7. old.seen \in Nat /\ old.seen <= Len(audit)
  BY <1>1 DEF FreshInv, Page
<1> HIDE DEF snapshot
<1>8. Later(old.seen, a) \in Nat /\ Later(old.seen, a) <= Len(audit)
  BY <1>3, <1>7 DEF Later
<1>9. /\ page \in Page /\ page.selected = old.selected /\ page.shown = snapshot
      /\ page.pending = 0 /\ page.answer = 0 /\ page.attempt = None
      /\ page.seen = Later(old.seen, a) /\ page.fetch = "asked"
  BY <1>1, <1>5, <1>8 DEF Page, Shows
<1>10. /\ workspace'[w] = page /\ workspace' \in [Workspaces -> Page]
       /\ \A u \in Workspaces : u # w => workspace'[u] = workspace[u]
  BY <1>2, <1>9 DEF Turns, PageInductive, PageTypes
<1>11. /\ success \in Success /\ success.page = w /\ success.version = old.selected
       /\ success.verb = old.attempt.verb /\ success.event = a
  BY <1>3, <1>4 DEF Success
<1> HIDE DEF page, success
<1>12. /\ n \in Nat /\ DOMAIN told = 1..n /\ DOMAIN told' = 1..(n + 1)
       /\ told' \in Seq(Success) /\ told'[n + 1] = success
       /\ \A s \in DOMAIN told : told'[s] = told[s]
  BY <1>1, <1>2, <1>11, LenProperties, AppendProperties
<1> HIDE DEF n
<1>13. PageTypes'
  BY <1>2, <1>10, <1>12 DEF PageInductive, PageTypes
<1>14. \A u \in Workspaces : AnswerInv(u)' /\ FreshInv(u)'
  <2>1. calls' \in Nat /\ calls <= calls'
    BY <1>2 DEF PageInductive, PageTypes
  <2>2. \A u \in Workspaces : u # w => AnswerInv(u)' /\ FreshInv(u)'
    BY <1>10, <2>1, PageKept
  <2>3. AnswerInv(w)'
    BY <1>9, <1>10 DEF AnswerInv
  <2>4. FreshInv(w)'
    <3>1. cases[old.selected] # None
      BY <1>1, <1>4 DEF FreshInv
    <3> HIDE DEF old
    <3> QED BY <1>2, <1>4, <1>5, <1>6, <1>8, <1>9, <1>10, <3>1, StandsKept DEF FreshInv, Stands
  <2> QED BY <2>2, <2>3, <2>4
<1>15. \A r \in posts' : PostInv(r)'
  <2> SUFFICES ASSUME NEW r \in posts PROVE PostInv(r)'
    BY <1>2
  <2>1. r.page \in Workspaces /\ PostInv(r)
    BY DEF PageInductive, PageTypes, Post
  <2>2. r.page # w => workspace'[r.page] = workspace[r.page]
    BY <1>10, <2>1
  <2> QED BY <1>2, <1>9, <1>10, <2>1, <2>2 DEF PostInv
<1>16. \A s \in DOMAIN told : told[s].event # a
  <2> SUFFICES ASSUME NEW s \in DOMAIN told, told[s].event = a PROVE FALSE
    OBVIOUS
  <2>1. audit[told[s].event].actor = Reviewer[told[s].page]
    BY DEF PageInductive, SuccessesAreActions
  <2> QED BY <1>1, <1>3, <2>1 DEF KeysInv
<1>17. \A s \in DOMAIN told' : s \in DOMAIN told \/ s = n + 1
  BY <1>12
<1>18. SuccessesAreActions'
  <2>1. SuccessesAreActions
    BY DEF PageInductive
  <2>2. n + 1 \notin DOMAIN told
    BY <1>12
  <2>3. ASSUME NEW s \in DOMAIN told'
        PROVE  /\ told'[s].event \in DOMAIN audit
               /\ audit[told'[s].event].actor = Reviewer[told'[s].page]
               /\ audit[told'[s].event].version = told'[s].version
               /\ audit[told'[s].event].verb = told'[s].verb
    BY <1>3, <1>11, <1>12, <1>17, <2>1 DEF SuccessesAreActions
  <2>4. ASSUME NEW s \in DOMAIN told', NEW t \in DOMAIN told', told'[t].event = told'[s].event
        PROVE  t = s
    BY <1>11, <1>12, <1>16, <1>17, <2>1, <2>4 DEF SuccessesAreActions
  <2> QED BY <1>2, <2>3, <2>4 DEF SuccessesAreActions
<1>19. KeysInv'
  <2>1. workspace'[w].attempt = None
    BY <1>9, <1>10
  <2>2. \A u \in Workspaces : u # w => workspace'[u].attempt = workspace[u].attempt
    BY <1>10
  <2>3. ASSUME NEW u \in Workspaces, NEW s \in DOMAIN told',
               Reviewer[u] = Reviewer[told'[s].page], workspace'[u].attempt # None
        PROVE  workspace'[u].attempt.key # audit[told'[s].event].key
    <3>1. u # w /\ workspace[u].attempt # None
      BY <2>1, <2>2, <2>3
    <3>2. CASE s \in DOMAIN told
      BY <1>1, <1>12, <2>2, <2>3, <3>1, <3>2 DEF KeysInv
    <3>3. CASE s = n + 1
      BY <1>1, <1>3, <1>11, <1>12, <2>2, <2>3, <3>1, <3>3 DEF KeysInv
    <3> QED BY <1>17, <3>2, <3>3
  <2> QED BY <1>1, <1>2, <2>1, <2>2, <2>3 DEF KeysInv
<1> QED BY <1>13, <1>14, <1>15, <1>18, <1>19 DEF PageInductive

\* What goes on elsewhere, and a request that is lost, touch no page.
LEMMA AfterQuiet ==
    ASSUME LogKept, PageInductive, UNCHANGED <<workspace, calls, told>>, posts' \subseteq posts
    PROVE  PageInductive'
<1>1. PageTypes'
  BY DEF PageInductive, PageTypes
<1>2. \A u \in Workspaces : AnswerInv(u)' /\ FreshInv(u)'
  <2>1. calls' \in Nat /\ calls <= calls'
    BY DEF PageInductive, PageTypes
  <2> QED BY <2>1, PageKept
<1>3. \A r \in posts' : PostInv(r)'
  BY DEF PageInductive, PostInv
<1>4. SuccessesAreActions' /\ \A s \in DOMAIN told : audit'[told[s].event] = audit[told[s].event]
  BY ToldKept
<1>5. KeysInv'
  BY <1>4 DEF PageInductive, KeysInv
<1> QED BY <1>1, <1>2, <1>3, <1>4, <1>5 DEF PageInductive

\* A request that was carried out or lost leaves its page as it is, or with an answer.
LEMMA AfterAnswer ==
    ASSUME LogKept, PageInductive, NEW r \in posts, NEW event \in DOMAIN audit',
           audit'[event].actor = Reviewer[r.page], audit'[event].version = r.version,
           audit'[event].verb = r.verb, audit'[event].key = r.key,
           Answer(r, event)
    PROVE  PageInductive'
<1> DEFINE w == r.page
           old == workspace[w]
           page == [old EXCEPT !.answer = event]
<1>1. /\ r \in Post /\ w \in Workspaces /\ PostInv(r)
      /\ old \in Page /\ AnswerInv(w) /\ FreshInv(w) /\ KeysInv /\ event \in Nat
  BY DEF PageInductive, PageTypes, Post, LogKept
<1>2. posts' = posts \ {r} /\ UNCHANGED <<calls, told>>
  BY DEF Answer
<1>3. CASE old.pending # r.call
  <2>1. workspace' = workspace
    BY <1>3 DEF Answer
  <2> QED BY <1>2, <2>1, AfterQuiet
<1>4. CASE old.pending = r.call
  <2>1. /\ page \in Page /\ page.selected = old.selected /\ page.shown = old.shown
        /\ page.pending = old.pending /\ page.answer = event /\ page.attempt = old.attempt
        /\ page.seen = old.seen /\ page.fetch = old.fetch /\ page.fetched = old.fetched
        /\ page.error = old.error
    BY <1>1 DEF Page
  <2>2. workspace' = [workspace EXCEPT ![w] = page]
    BY <1>4 DEF Answer
  <2> HIDE DEF page
  <2>3. /\ workspace'[w] = page /\ workspace' \in [Workspaces -> Page]
        /\ \A u \in Workspaces : u # w => workspace'[u] = workspace[u]
    BY <1>1, <2>1, <2>2 DEF PageInductive, PageTypes
  <2>4. PageTypes'
    BY <1>2, <2>3 DEF PageInductive, PageTypes
  <2>5. calls' \in Nat /\ calls <= calls'
    BY <1>2 DEF PageInductive, PageTypes
  <2>6. AnswerInv(w)'
    <3>1. /\ r.call # 0 /\ old.selected = r.version
          /\ old.attempt.verb = r.verb /\ old.attempt.key = r.key
      BY <1>1, <1>4 DEF PostInv
    <3> QED BY <1>1, <1>2, <1>4, <2>1, <2>3, <3>1 DEF AnswerInv
  <2>7. FreshInv(w)'
    <3>1. /\ old.selected \in Versions \cup {None} /\ old.seen \in Nat
          /\ old.shown # None => old.shown \in Snap /\ old.selected # None
      BY <1>1 DEF Page, FreshInv
    <3>2. old.seen <= Len(audit') /\ (old.selected # None => cases'[old.selected] # None)
      BY <1>1, <3>1 DEF FreshInv, LogKept
    <3>3. FreshInv(w)
      BY <1>1
    <3> HIDE DEF old
    <3>4. workspace[w] = old
      BY DEF old
    <3> HIDE DEF w
    <3> QED BY <2>1, <2>3, <3>1, <3>2, <3>3, <3>4, StandsKept DEF FreshInv, Stands
  <2>8. \A u \in Workspaces : AnswerInv(u)' /\ FreshInv(u)'
    BY <2>3, <2>5, <2>6, <2>7, PageKept
  <2>9. \A q \in posts' : PostInv(q)'
    <3> SUFFICES ASSUME NEW q \in posts PROVE PostInv(q)'
      BY <1>2
    <3>1. q.page \in Workspaces /\ PostInv(q)
      BY DEF PageInductive, PageTypes, Post
    <3>2. q.page # w => workspace'[q.page] = workspace[q.page]
      BY <2>3, <3>1
    <3> QED BY <1>2, <2>1, <2>3, <3>1, <3>2 DEF PostInv
  <2>10. SuccessesAreActions' /\ \A s \in DOMAIN told : audit'[told[s].event] = audit[told[s].event]
    BY <1>2, ToldKept
  <2>11. \A u \in Workspaces : workspace'[u].attempt = workspace[u].attempt
    BY <2>1, <2>3
  <2>12. KeysInv'
    BY <1>1, <1>2, <2>10, <2>11 DEF KeysInv
  <2> QED BY <2>4, <2>8, <2>9, <2>10, <2>12 DEF PageInductive
<1> QED BY <1>3, <1>4

-----------------------------------------------------------------------------
(* The pages: the theorems *)

PagesInductive == Inductive /\ CaseInductive /\ EventsTell /\ PageInductive

\* What a page asks for is what the server does, or did: pages do to the tables only
\* what Moderation allows.
LEMMA PagesModerate ==
    PageTypes /\ [WorkspaceNext]_<<vars, caseVars, pageVars>> => [ModerationNext]_<<vars, caseVars>>
<1> SUFFICES ASSUME PageTypes, [WorkspaceNext]_<<vars, caseVars, pageVars>>
             PROVE  ModerationNext \/ UNCHANGED <<vars, caseVars>>
  OBVIOUS
<1>1. ASSUME NEW r \in posts, Moderate(r) PROVE ModerationNext
  <2>1. Reviewer[r.page] \in Moderators /\ r.version \in Versions /\ r.key \in Keys
    BY WorkspaceAssumption DEF PageTypes, Post
  <2> QED BY <1>1, <2>1 DEF Moderate, ModerationNext
<1>2. ASSUME NEW r \in posts, ReplayModeration(r) \/ LoseAction(r) PROVE UNCHANGED <<vars, caseVars>>
  BY <1>2 DEF ReplayModeration, LoseAction
<1>3. ASSUME NEW w \in Workspaces,
             \/ \E v \in Versions \cup {None} : SelectCase(w, v)
             \/ ReloadDetail(w) \/ ReadDetail(w) \/ ShowDetail(w) \/ DetailFails(w)
             \/ \E verb \in Verbs, key \in Keys : ApplyAction(w, verb, key)
             \/ ActionSucceeds(w) \/ ActionFails(w)
      PROVE  UNCHANGED <<vars, caseVars>>
  BY <1>3 DEF SelectCase, ReloadDetail, ReadDetail, ShowDetail, DetailFails, ApplyAction,
              ActionSucceeds, ActionFails
<1>4. Elsewhere => ModerationNext
  BY DEF Elsewhere
<1> QED BY <1>1, <1>2, <1>3, <1>4 DEF WorkspaceNext

\* A request that is carried out leaves the one event that answers it.
LEMMA AfterModerate ==
    ASSUME LogKept, PageInductive, CaseTypeOK, NEW r \in posts, Moderate(r)
    PROVE  PageInductive'
<1> DEFINE n == Len(audit)
           m == Reviewer[r.page]
<1>1. PICK status : Recorded(m, r.version, r.key, r.verb, status)
  BY DEF Moderate, HideRecipe, RestoreRecipe, ResolveCase
<1> DEFINE e == [version |-> r.version, actor |-> m, verb |-> r.verb, key |-> r.key,
                 previous |-> cases[r.version].status, status |-> status,
                 state |-> visibility'[r.version].state]
<1>2. audit' = Append(audit, e)
  BY <1>1 DEF Recorded
<1>3. /\ e.version = r.version /\ e.actor = m /\ e.verb = r.verb /\ e.key = r.key
  OBVIOUS
<1> HIDE DEF e
<1>4. n + 1 \in DOMAIN audit' /\ audit'[n + 1] = e
  BY <1>2, AppendProperties DEF CaseTypeOK
<1>5. Answer(r, n + 1)
  BY DEF Moderate
<1> HIDE DEF n
<1>6. \E i \in DOMAIN audit' : i = n + 1
  BY <1>4
<1> QED BY <1>3, <1>4, <1>5, AfterAnswer DEF m

\* A step of the pages, of their requests or of anybody else keeps what holds of pages.
LEMMA PageStep ==
    ASSUME LogKept, PagesInductive, [WorkspaceNext]_<<vars, caseVars, pageVars>>
    PROVE  PageInductive'
<1> USE DEF PagesInductive
<1>c. CaseTypeOK /\ CaseInv /\ AuditExplainsHiding
  BY DEF CaseInductive
<1>1. CASE UNCHANGED pageVars
  BY <1>1, AfterQuiet DEF pageVars
<1>2. ASSUME NEW w \in Workspaces, NEW v \in Versions \cup {None}, SelectCase(w, v)
      PROVE  PageInductive'
  BY <1>2, AfterSelect
<1>3. ASSUME NEW w \in Workspaces, ReloadDetail(w) \/ DetailFails(w) \/ ActionFails(w)
      PROVE  PageInductive'
  BY <1>3, AfterRestless
<1>4. ASSUME NEW w \in Workspaces, ReadDetail(w) PROVE PageInductive'
  BY <1>4, <1>c, AfterRead
<1>5. ASSUME NEW w \in Workspaces, ShowDetail(w) PROVE PageInductive'
  BY <1>5, AfterShow
<1>6. ASSUME NEW w \in Workspaces, NEW verb \in Verbs, NEW key \in Keys, ApplyAction(w, verb, key)
      PROVE  PageInductive'
  BY <1>6, AfterApply
<1>7. ASSUME NEW w \in Workspaces, ActionSucceeds(w) PROVE PageInductive'
  BY <1>7, <1>c, AfterSuccess
<1>8. ASSUME NEW r \in posts, Moderate(r) PROVE PageInductive'
  BY <1>8, <1>c, AfterModerate
<1>9. ASSUME NEW r \in posts, ReplayModeration(r) PROVE PageInductive'
  <2>1. PICK i \in DOMAIN audit : /\ audit[i].actor = Reviewer[r.page] /\ audit[i].key = r.key
                                  /\ audit[i].version = r.version /\ audit[i].verb = r.verb
                                  /\ UNCHANGED caseVars
                                  /\ Answer(r, i)
    BY <1>9 DEF ReplayModeration
  <2>2. audit' = audit
    BY <2>1 DEF caseVars
  <2> QED BY <2>1, <2>2, AfterAnswer
<1>10. ASSUME NEW r \in posts, LoseAction(r) PROVE PageInductive'
  BY <1>10, AfterQuiet DEF LoseAction
<1>11. CASE Elsewhere
  BY <1>1, <1>11 DEF Elsewhere
<1> QED BY <1>1, <1>2, <1>3, <1>4, <1>5, <1>6, <1>7, <1>8, <1>9, <1>10, <1>11
        DEF WorkspaceNext

\* Pages that show nothing, with an empty log behind them.
LEMMA PagesInductiveInit == WorkspaceInit => PagesInductive
<1> SUFFICES ASSUME WorkspaceInit PROVE PagesInductive
  OBVIOUS
<1>1. ModerationInit /\ workspace = [w \in Workspaces |-> Selecting(None)]
      /\ posts = {} /\ calls = 0 /\ told = <<>>
  BY DEF WorkspaceInit
<1>2. Inductive /\ CaseInductive
  BY <1>1, InductiveInit, CaseInductiveInit DEF ModerationInit
<1>3. audit = <<>> /\ Len(audit) = 0 /\ DOMAIN audit = {}
  BY <1>1, EmptySeq DEF ModerationInit
<1>4. EventsTell
  BY <1>3 DEF EventsTell
<1> DEFINE page == Selecting(None)
<1>5. /\ page \in Page /\ page.selected = None /\ page.shown = None /\ page.fetch = "ended"
      /\ page.attempt = None /\ page.pending = 0 /\ page.answer = 0 /\ page.seen = 0
  BY DEF Selecting, Page
<1> HIDE DEF page
<1>6. \A w \in Workspaces : workspace[w] = page
  BY <1>1 DEF page
<1>7. told \in Seq(Success) /\ DOMAIN told = {}
  BY <1>1, EmptySeq
<1>8. PageTypes
  BY <1>1, <1>5, <1>7 DEF PageTypes, page
<1>9. \A w \in Workspaces : AnswerInv(w) /\ FreshInv(w)
  BY <1>3, <1>5, <1>6 DEF AnswerInv, FreshInv
<1>10. KeysInv /\ SuccessesAreActions
  BY <1>5, <1>6, <1>7 DEF KeysInv, SuccessesAreActions
<1> QED BY <1>1, <1>2, <1>4, <1>8, <1>9, <1>10 DEF PagesInductive, PageInductive

\* Everything that was proved of tables, cases and log holds under the pages, and what
\* holds of the pages with it.
LEMMA PagesInductiveStep ==
    PagesInductive /\ [WorkspaceNext]_<<vars, caseVars, pageVars>> => PagesInductive'
<1> SUFFICES ASSUME PagesInductive, [WorkspaceNext]_<<vars, caseVars, pageVars>>
             PROVE  PagesInductive'
  OBVIOUS
<1>1. Inductive /\ CaseInductive /\ EventsTell /\ PageInductive
  BY DEF PagesInductive
<1>2. [ModerationNext]_<<vars, caseVars>>
  BY <1>1, PagesModerate DEF PageInductive
<1>3. Inductive'
  BY <1>1, <1>2, StepRefines, InductiveStep
<1>4. CaseInductive'
  BY <1>1, <1>2, <1>3, CaseInductiveStep
<1>5. EventsTell'
  BY <1>1, <1>2, <1>3, <1>4, EventsTellPreserved
<1>6. LogKept
  BY <1>1, <1>2, <1>3, <1>4, LogGrows DEF CaseInductive
<1>7. PageInductive'
  BY <1>6, PageStep
<1> QED BY <1>3, <1>4, <1>5, <1>7 DEF PagesInductive

\* Every reachable state of pages and server satisfies the invariant.
THEOREM PagesInvariance == WorkspaceSpec => []PagesInductive
BY PagesInductiveInit, PagesInductiveStep, PTL DEF WorkspaceSpec

\* However many pages, requests and retries: every success that a page reports is an
\* action of its own, carried out as it was asked for.
THEOREM SuccessesActed == WorkspaceSpec => []SuccessesAreActions
<1>1. PagesInductive => SuccessesAreActions
  BY DEF PagesInductive, PageInductive
<1> QED BY PagesInvariance, <1>1, PTL

\* However answers are delayed: a page at rest shows its case as the log left it, at
\* a time no earlier than anything it has shown.
THEOREM PagesStayFresh == WorkspaceSpec => []PagesDoNotFallBack
<1>1. PagesInductive => PagesDoNotFallBack
  <2> SUFFICES ASSUME PagesInductive, NEW w \in Workspaces, workspace[w].shown # None,
                      workspace[w].fetch = "ended", ~workspace[w].error
               PROVE  /\ workspace[w].seen <= workspace[w].shown.asOf
                      /\ workspace[w].shown.hidden =
                            LeftHidden({i \in MovesOf(workspace[w].selected) :
                                            i <= workspace[w].shown.asOf})
    BY DEF PagesDoNotFallBack
  <2> DEFINE v == workspace[w].selected
             n == workspace[w].shown.asOf
  <2>1. workspace[w] \in Page /\ FreshInv(w)
    BY DEF PagesInductive, PageInductive, PageTypes
  <2>2. v \in Versions /\ n \in Nat
    BY <2>1 DEF FreshInv, Page, Snap
  <2>3. workspace[w].seen <= n /\ workspace[w].shown.hidden = Left[v][n]
    BY <2>1 DEF FreshInv, Stands
  <2>4. Left[v][n] = LeftHidden({i \in MovesOf(v) : i <= n})
    BY <2>2 DEF Left
  <2> QED BY <2>3, <2>4
<1> QED BY PagesInvariance, <1>1, PTL

=============================================================================
