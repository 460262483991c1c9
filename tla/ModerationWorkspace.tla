-------------------------- MODULE ModerationWorkspace --------------------------
(***************************************************************************)
(* The moderators' pages over module Moderation (frontend                  *)
(* use-recipe-moderation-workspace.ts, recipe-moderation-case-detail.tsx): *)
(* a page shows one case, fetches it, and asks for one action at a time.   *)
(* Requests and answers may be delayed or lost, meanwhile other moderators *)
(* act, members report and the author withdraws and restores.              *)
(***************************************************************************)
EXTENDS Moderation

CONSTANTS Workspaces,   \* open pages
          Reviewer,     \* the moderator of each
          MaxCalls      \* bound on actions the pages ask for

Verbs == {"hide", "restore", "resolve"}

Attempt == [verb : Verbs, key : Keys]

ASSUME WorkspaceAssumption == /\ Reviewer \in [Workspaces -> Moderators]
                              /\ MaxCalls \in Nat
                              /\ None \notin Attempt

VARIABLES
    workspace,   \* what each page shows, fetches and waits for
    posts,       \* requested actions on their way
    calls,       \* actions requested so far
    told         \* ghost: the successes the pages reported, with the audit event of each

pageVars == <<workspace, posts, calls, told>>

\* A page on a case it has just selected, or without one.  `seen` is a ghost: how much
\* of the audit log it has shown, or was told of, since.
Selecting(v) ==
    [selected |-> v, shown |-> None, error |-> FALSE,
     fetch |-> IF v = None THEN "ended" ELSE "asked", fetched |-> None,
     attempt |-> None, pending |-> 0, answer |-> 0, seen |-> 0]

WorkspaceInit == /\ ModerationInit
                 /\ workspace = [w \in Workspaces |-> Selecting(None)]
                 /\ posts = {}
                 /\ calls = 0
                 /\ told = <<>>

-----------------------------------------------------------------------------
(* The page *)

Turns(w, page) == workspace' = [workspace EXCEPT ![w] = page]

\* The moderator's choice, or what a loaded queue, a failed one or another filter
\* selects instead.  A page left and opened again begins in the same way.
SelectCase(w, v) ==
    /\ v # workspace[w].selected
    /\ v # None => cases[v] # None
    /\ Turns(w, Selecting(v))
    /\ UNCHANGED <<vars, caseVars, posts, calls, told>>

\* The fetch before, if it has not ended, is aborted.
ReloadDetail(w) ==
    /\ workspace[w].selected # None
    /\ Turns(w, [workspace[w] EXCEPT !.fetch = "asked", !.fetched = None, !.error = FALSE])
    /\ UNCHANGED <<vars, caseVars, posts, calls, told>>

\* What is shown of a case, with the number of audit events before it was read.
Snapshot(status, hidden, asOf) == [status |-> status, hidden |-> hidden, asOf |-> asOf]

\* moderation_case_detail, under the lock of the moderator's user row.
ReadDetail(w) ==
    LET v == workspace[w].selected IN
    /\ workspace[w].fetch = "asked"
    /\ Idle(Reviewer[w]) /\ Reviewer[w] \in grants
    /\ Turns(w, [workspace[w] EXCEPT !.fetch = "answered",
                    !.fetched = Snapshot(cases[v].status, visibility[v].hidden, Len(audit))])
    /\ UNCHANGED <<vars, caseVars, posts, calls, told>>

Later(i, j) == IF i < j THEN j ELSE i

Shows(page, snapshot) ==
    [page EXCEPT !.shown = snapshot, !.seen = Later(page.seen, snapshot.asOf)]

ShowDetail(w) ==
    /\ workspace[w].fetch = "answered"
    /\ Turns(w, [Shows(workspace[w], workspace[w].fetched)
                    EXCEPT !.fetch = "ended", !.fetched = None, !.error = FALSE])
    /\ UNCHANGED <<vars, caseVars, posts, calls, told>>

DetailFails(w) ==
    /\ workspace[w].fetch # "ended"
    /\ Turns(w, [workspace[w] EXCEPT !.fetch = "ended", !.fetched = None, !.error = TRUE])
    /\ UNCHANGED <<vars, caseVars, posts, calls, told>>

\* The buttons that the case shown leaves enabled.
Enabled(page, verb) == CASE verb = "hide"    -> ~page.shown.hidden
                         [] verb = "restore" -> page.shown.hidden
                         [] verb = "resolve" -> page.shown.status # "resolved"

\* The keys that pages of moderator m hold, for which no event need exist.
KeysHeld(m) == {workspace[w].attempt.key :
                   w \in {u \in Workspaces : Reviewer[u] = m /\ workspace[u].attempt # None}}
               \cup {r.key : r \in {q \in posts : Reviewer[q.page] = m}}

NewKey(m, key) == /\ key \notin KeysHeld(m)
                  /\ ~ \E i \in DOMAIN audit : audit[i].actor = m /\ audit[i].key = key

\* The action asked for last keeps its key if its note is the same; with another note
\* it is another action.
AttemptFor(w, verb, key) ==
    LET last == workspace[w].attempt IN
    \/ last # None /\ last.verb = verb /\ last.key = key
    \/ NewKey(Reviewer[w], key)

ApplyAction(w, verb, key) ==
    LET page == workspace[w] IN
    /\ page.pending = 0
    /\ page.shown # None /\ ~page.error
    /\ Enabled(page, verb)
    /\ AttemptFor(w, verb, key)
    /\ calls < MaxCalls /\ calls' = calls + 1
    /\ Turns(w, [page EXCEPT !.attempt = [verb |-> verb, key |-> key], !.pending = calls + 1])
    /\ posts' = posts \cup {[page |-> w, call |-> calls + 1, version |-> page.selected,
                             verb |-> verb, key |-> key]}
    /\ UNCHANGED <<vars, caseVars, told>>

SlipKeepsAttempt(w) ==
    LET page == workspace[w] e == audit[page.answer] IN
    [Shows(page, Snapshot(e.status, e.state = "moderation_hidden", page.answer))
        EXCEPT !.fetch = "asked", !.fetched = None, !.pending = 0, !.answer = 0]

SlipNoReload(w) ==
    LET page == workspace[w] e == audit[page.answer] IN
    [Shows(page, Snapshot(e.status, e.state = "moderation_hidden", page.answer))
        EXCEPT !.attempt = None, !.pending = 0, !.answer = 0]

\* The answer tells what its event recorded, though it be an old one; the case is
\* fetched again.
Succeeded(w) ==
    LET page == workspace[w] e == audit[page.answer] IN
    [Shows(page, Snapshot(e.status, e.state = "moderation_hidden", page.answer))
        EXCEPT !.fetch = "asked", !.fetched = None, !.attempt = None, !.pending = 0, !.answer = 0]

ActionSucceeds(w) ==
    /\ workspace[w].answer # 0
    /\ Turns(w, Succeeded(w))
    /\ told' = Append(told, [page |-> w, version |-> workspace[w].selected,
                             verb |-> workspace[w].attempt.verb, event |-> workspace[w].answer])
    /\ UNCHANGED <<vars, caseVars, posts, calls>>

\* A refusal, an error, or the time limit: the request may still be on its way.
ActionFails(w) ==
    /\ workspace[w].pending # 0
    /\ Turns(w, [workspace[w] EXCEPT !.pending = 0, !.answer = 0])
    /\ UNCHANGED <<vars, caseVars, posts, calls, told>>

-----------------------------------------------------------------------------
(* The server *)

\* Nobody but the operation that waits for the answer acts on it.
Answer(r, event) ==
    /\ workspace' = IF workspace[r.page].pending # r.call THEN workspace
                    ELSE [workspace EXCEPT ![r.page].answer = event]
    /\ posts' = posts \ {r}
    /\ UNCHANGED <<calls, told>>

\* moderate_recipe_case
Moderate(r) ==
    LET m == Reviewer[r.page] IN
    /\ \/ r.verb = "hide" /\ HideRecipe(m, r.version, r.key)
       \/ r.verb = "restore" /\ RestoreRecipe(m, r.version, r.key)
       \/ r.verb = "resolve" /\ ResolveCase(m, r.version, r.key)
    /\ Answer(r, Len(audit) + 1)

ReplayModeration(r) ==
    \E i \in DOMAIN audit :
        /\ Idle(Reviewer[r.page]) /\ Reviewer[r.page] \in grants
        /\ GuardFree
        /\ audit[i].actor = Reviewer[r.page] /\ audit[i].key = r.key
        /\ audit[i].version = r.version /\ audit[i].verb = r.verb
        /\ UNCHANGED <<vars, caseVars>>
        /\ Answer(r, i)

LoseAction(r) == /\ posts' = posts \ {r}
                 /\ UNCHANGED <<vars, caseVars, workspace, calls, told>>

\* Members and moderators elsewhere, whose keys are their own.
Elsewhere ==
    /\ ModerationNext
    /\ audit' # audit => LET e == audit'[Len(audit')] IN e.key \notin KeysHeld(e.actor)
    /\ UNCHANGED pageVars

WorkspaceNext ==
    \/ Elsewhere
    \/ \E w \in Workspaces :
          \/ \E v \in Versions \cup {None} : SelectCase(w, v)
          \/ ReloadDetail(w) \/ ReadDetail(w) \/ ShowDetail(w) \/ DetailFails(w)
          \/ \E verb \in Verbs, key \in Keys : ApplyAction(w, verb, key)
          \/ ActionSucceeds(w) \/ ActionFails(w)
    \/ \E r \in posts : Moderate(r) \/ ReplayModeration(r) \/ LoseAction(r)

WorkspaceSpec == WorkspaceInit /\ [][WorkspaceNext]_<<vars, caseVars, pageVars>>

-----------------------------------------------------------------------------
(* Correctness *)

\* Every success a page reports is an action of its own that was carried out as it was
\* asked for: an answer lost or given up, and the retries after it, never make one
\* event of the audit log pass for two actions, or for one asked for elsewhere.
SuccessesAreActions ==
    \A s \in DOMAIN told :
        LET e == audit[told[s].event] IN
        /\ told[s].event \in DOMAIN audit
        /\ e.actor = Reviewer[told[s].page]
        /\ e.version = told[s].version /\ e.verb = told[s].verb
        /\ \A t \in DOMAIN told : told[t].event = told[s].event => t = s

\* A page whose fetch has ended well shows its case as the log left it at one time, and
\* no earlier than anything it has shown or was told of since it selected the case:
\* neither a late answer nor a retry answered with an old event is left standing.
PagesDoNotFallBack ==
    \A w \in Workspaces :
        LET page == workspace[w] IN
        page.shown # None /\ page.fetch = "ended" /\ ~page.error =>
            /\ page.seen <= page.shown.asOf
            /\ page.shown.hidden =
                  LeftHidden({i \in MovesOf(page.selected) : i <= page.shown.asOf})
=============================================================================
