------------------------------ MODULE Moderation ------------------------------
(***************************************************************************)
(* Reports, moderation cases, moderator grants and the audit log, over the *)
(* publications of module Publication.                                     *)
(*                                                                         *)
(* Reporting and moderating take the member's user row and then the        *)
(* publication guard, as publishing does; under both, each handler is one  *)
(* step.  Replays of an Idempotency-Key are answered from the report or    *)
(* audit event that holds it and change nothing.                           *)
(***************************************************************************)
EXTENDS Publication, Sequences

CONSTANTS Reporters,  \* the members who report recipes in this instance
          Keys        \* Idempotency-Key values of reports and moderation actions

Statuses == {"open", "resolved"}

Case   == [status : Statuses, reporterCount : Nat]

ASSUME ModerationAssumption == Reporters \subseteq Members /\ None \notin Case

VARIABLES grants,   \* community_moderators
          reports,  \* recipe_reports
          cases,    \* recipe_moderation_cases
          audit     \* recipe_moderation_audit_events, by id

caseVars == <<grants, reports, cases, audit>>

ModerationInit == /\ Init
                  /\ grants = {}
                  /\ reports = {}
                  /\ cases = [v \in Versions |-> None]
                  /\ audit = <<>>

SlipAnyVersion(v) == v \in Published

Reportable(v) == v \in Public

SlipKeyOnly(m, v, key) == \E r \in reports : r.reporter = m /\ r.key = key

\* A key of this member, or a report of the same recipe by this member, exists.
Reported(m, v, key) ==
    \E r \in reports : r.reporter = m /\ (r.key = key \/ r.version = v)

SubmitReport(m, v, key) ==
    /\ Idle(m)
    /\ GuardFree
    /\ ~Reported(m, v, key)
    /\ Reportable(v)
    /\ cases' = [cases EXCEPT ![v] =
           [status |-> "open", reporterCount |-> IF @ = None THEN 1 ELSE @.reporterCount + 1]]
    /\ reports' = reports \cup {[reporter |-> m, version |-> v, key |-> key]}
    /\ UNCHANGED <<vars, grants, audit>>

\* The moderator's user row and grant row are locked before the guard, so a grant
\* seen here is not revoked before the commit.
MayModerate(m, v, key) ==
    /\ Idle(m)
    /\ m \in grants
    /\ ~ \E i \in DOMAIN audit : audit[i].actor = m /\ audit[i].key = key
    /\ v \in Published
    /\ cases[v] # None

Recorded(m, v, key, verb, status) ==
    /\ cases' = [cases EXCEPT ![v].status = status]
    /\ audit' = Append(audit, [version |-> v, actor |-> m, verb |-> verb, key |-> key,
                               previous |-> cases[v].status, status |-> status,
                               state |-> visibility'[v].state])
    /\ UNCHANGED <<grants, reports>>

HideRecipe(m, v, key) ==
    /\ MayModerate(m, v, key)
    /\ SetModerationVisibility(m, v, TRUE)
    /\ Recorded(m, v, key, "hide", cases[v].status)

RestoreRecipe(m, v, key) ==
    /\ MayModerate(m, v, key)
    /\ SetModerationVisibility(m, v, FALSE)
    /\ Recorded(m, v, key, "restore", cases[v].status)

ResolveCase(m, v, key) ==
    /\ MayModerate(m, v, key)
    /\ GuardFree
    /\ cases[v].status # "resolved"
    /\ UNCHANGED vars
    /\ Recorded(m, v, key, "resolve", "resolved")

\* Operator commands.  Granting locks the member's user row; revoking only deletes
\* the grant, and may fall into the middle of a publication of the same member.
GrantModerator(m) == /\ Idle(m)
                     /\ m \notin grants
                     /\ grants' = grants \cup {m}
                     /\ UNCHANGED <<vars, reports, cases, audit>>

RevokeModerator(m) == /\ m \in grants
                      /\ grants' = grants \ {m}
                      /\ UNCHANGED <<vars, reports, cases, audit>>

ModerationNext ==
    \/ \E m \in Authors : AuthorStep(m) /\ UNCHANGED caseVars
    \/ \E m \in Reporters, v \in Versions, key \in Keys : SubmitReport(m, v, key)
    \/ \E m \in Moderators, v \in Versions, key \in Keys : \/ HideRecipe(m, v, key)
                                                           \/ RestoreRecipe(m, v, key)
                                                           \/ ResolveCase(m, v, key)
    \/ \E m \in Moderators : GrantModerator(m) \/ RevokeModerator(m)

ModerationSpec == ModerationInit /\ [][ModerationNext]_<<vars, caseVars>>

-----------------------------------------------------------------------------
(* Properties *)

\* The events that hid or restored v, and whether the last of some leaves it hidden.
MovesOf(v) == {i \in DOMAIN audit : audit[i].version = v /\ audit[i].verb # "resolve"}

LeftHidden(moves) == \E i \in moves : audit[i].verb = "hide" /\ \A j \in moves : j <= i

\* The audit log alone explains what moderation hides: per version, each event
\* changes what the events before it left, so hides and restores alternate, and what
\* the last one left is the moderation axis as it stands, whatever the author,
\* corrections, reports and retries did in between.
AuditExplainsHiding ==
    \A v \in Published :
        LET moves == MovesOf(v) IN
        /\ \A i \in moves :
              audit[i].verb = IF LeftHidden({j \in moves : j < i}) THEN "restore" ELSE "hide"
        /\ visibility[v].hidden = LeftHidden(moves)

\* A case counts each member who reported the recipe once, and a recipe that was
\* never reported is never hidden.
CasesCountReporters ==
    \A v \in Versions :
        LET reporters == {r.reporter : r \in {r \in reports : r.version = v}} IN
        /\ cases[v] = None <=> reporters = {}
        /\ cases[v] # None => cases[v].reporterCount = Cardinality(reporters)
        /\ v \in Published /\ visibility[v].hidden => cases[v] # None

\* Two successive audit events of a case leave no gap: the later starts from the
\* status the earlier left, unless a report reopened a resolved case in between,
\* which needs the recipe to have been public after it was resolved.
CaseHistoryConnects ==
    \A i, j \in DOMAIN audit :
        /\ i < j /\ audit[i].version = audit[j].version
        /\ \A k \in (i + 1)..(j - 1) : audit[k].version # audit[i].version
        => \/ audit[j].previous = audit[i].status
           \/ audit[i].status = "resolved" /\ audit[j].previous = "open"
              /\ audit[i].state # "moderation_hidden"
=============================================================================
