----------------------------- MODULE DraftEditor -----------------------------
(***************************************************************************)
(* One private draft open in several tabs: saving, reloading and            *)
(* publishing it over a network that loses and delays                       *)
(* (frontend recipe-draft-editor.tsx, recipe-draft-editor-state.ts,         *)
(* recipe-draft-publication.tsx, recipe-draft-publication-state.ts; backend *)
(* replace_recipe_draft and publish_recipe_draft, whose own details are     *)
(* those of module Publication).                                            *)
(*                                                                          *)
(* A request sits on the wire until the server takes it, long after the tab *)
(* gave up on it or was closed perhaps, or it is lost; an answer reaches    *)
(* the tab or is lost too.  The server takes a request in one step, under   *)
(* the draft's row lock.                                                    *)
(***************************************************************************)
EXTENDS Naturals, FiniteSets

CONSTANTS Tabs, Texts, None,
          MaxRequests    \* bound on the saves and publications sent

ASSUME MaxRequestsAssumption == MaxRequests \in Nat

VARIABLES
    draft,       \* the recipe_drafts row
    saved,       \* ghost: the text of every revision there was
    published,   \* the publication, or None
    tab,         \* what each tab holds
    wire,        \* requests the server has not taken yet
    sent         \* requests so far, their numbers

vars == <<draft, saved, published, tab, wire, sent>>

Numbers == 1..MaxRequests
Revisions == 1..(MaxRequests + 1)

\* What a publication covers: the revision and the text on the screen.
Scope == [rev : Revisions, text : Texts]

\* key: the idempotency key, kept while the same request is sent again.  A save has
\* one too, which the server does not look at.
PublishAttempt == [rev : Revisions, key : Numbers]

Answer == [kind : {"ok", "conflict", "gone"}, rev : Revisions, text : Texts]

\* base and scope.text are not sent: what the tab held as saved, and what the
\* member confirmed, when the request left.
Request == [id : Numbers, op : {"save", "publish"}, key : Numbers \cup {None}, base : Texts, scope : Scope]

Load == [from : Texts, rev : Revisions, text : Texts]

\* None is nothing that can be there.
ASSUME NoneAssumption ==
    None \notin Tabs \cup Texts \cup Nat \cup Scope \cup PublishAttempt \cup Answer \cup Load
                \cup [key : Numbers, text : Texts]

Tab == [open : BOOLEAN, rev : Revisions, base : Texts, text : Texts,
        save : {"idle", "saving", "saved", "conflict", "failed"},
        attempt : Scope \cup {None},
        flow : {"idle", "checking", "confirmation", "publishing", "published",
                "refused", "retryable", "unclear"},
        scope : Scope \cup {None}, publish : PublishAttempt \cup {None},
        active : Numbers \cup {None}, inbox : Answer \cup {None},
        reload : Load \cup {None}]

\* A tab that holds no more than d.
Fresh(d) == [open |-> TRUE, rev |-> d.rev, base |-> d.text, text |-> d.text,
             save |-> "idle", attempt |-> None, flow |-> "idle", scope |-> None,
             publish |-> None, active |-> None, inbox |-> None, reload |-> None]
Closed == [Fresh([rev |-> 1, text |-> saved[1]]) EXCEPT !.open = FALSE]

Init == \E x \in Texts :
    /\ draft = [rev |-> 1, text |-> x]
    /\ saved = [r \in Revisions |-> IF r = 1 THEN x ELSE None]
    /\ published = None
    /\ tab = [t \in Tabs |-> Closed]
    /\ wire = {} /\ sent = 0

-----------------------------------------------------------------------------
Is(t, fields) == tab' = [tab EXCEPT ![t] = fields]
server == <<draft, saved, published>>
network == <<wire, sent>>

Dirty(t) == tab[t].text # tab[t].base
Current(t) == [rev |-> tab[t].rev, text |-> tab[t].text]

\* intentIsCurrent
Intended(t) == ~Dirty(t) /\ tab[t].scope = Current(t)

SlipOpenToEdits(t) == tab[t].flow = "checking"

\* publicationBlocksDismissal
Busy(t) == tab[t].flow \in {"checking", "publishing", "published", "unclear"}

Send(t, op, key, scope) ==
    /\ sent < MaxRequests
    /\ sent' = sent + 1
    /\ wire' = wire \cup {[id |-> sent + 1, op |-> op, key |-> key, base |-> tab[t].base,
                           scope |-> scope]}

-----------------------------------------------------------------------------
(* Editing *)

\* A published draft is not found.
Open(t) ==
    /\ ~tab[t].open /\ published = None
    /\ Is(t, Fresh(draft))
    /\ UNCHANGED <<server, network>>

Close(t) ==
    /\ tab[t].open
    /\ Is(t, Closed)
    /\ UNCHANGED <<server, network>>

\* changeDraft: also while a save is under way.
Type(t, x) ==
    /\ tab[t].open /\ ~Busy(t) /\ x # tab[t].text
    /\ Is(t, [tab[t] EXCEPT !.text = x, !.save = IF @ = "saving" THEN @ ELSE "idle"])
    /\ UNCHANGED <<server, network>>

Save(t) ==
    /\ tab[t].open /\ Dirty(t) /\ ~Busy(t)
    /\ tab[t].active = None
    /\ Send(t, "save", None, Current(t))
    /\ Is(t, [tab[t] EXCEPT !.save = "saving", !.active = sent + 1, !.attempt = Current(t)])
    /\ UNCHANGED server

SlipDropNewer(t, a) ==
    [tab[t] EXCEPT !.save = "saved", !.attempt = None, !.active = None, !.inbox = None,
                   !.rev = a.rev, !.base = tab[t].text]

\* save-succeeded: what was typed since stays, and stays unsaved.
Saved(t, a) ==
    [tab[t] EXCEPT !.save = "saved", !.attempt = None, !.active = None, !.inbox = None,
                   !.rev = a.rev, !.base = a.text,
                   !.text = IF @ = tab[t].attempt.text THEN a.text ELSE @]

SaveSucceeds(t) ==
    /\ tab[t].save = "saving" /\ tab[t].inbox # None /\ tab[t].inbox.kind = "ok"
    /\ Is(t, Saved(t, tab[t].inbox))
    /\ UNCHANGED <<server, network>>

\* The attempt is kept.  A load may have ended the save already.
Answered(t, save) == [tab[t] EXCEPT !.save = IF @ = "saving" THEN save ELSE @,
                                    !.active = None, !.inbox = None]

AwaitsSave(t) == tab[t].active # None /\ tab[t].flow # "publishing"

SaveFails(t) ==
    /\ AwaitsSave(t) /\ tab[t].inbox # None /\ tab[t].inbox.kind # "ok"
    /\ Is(t, Answered(t, IF tab[t].inbox.kind = "conflict" THEN "conflict" ELSE "failed"))
    /\ UNCHANGED <<server, network>>

\* Whatever the server did or will do; so ends, too, an answer to a save that a
\* load has overtaken.
SaveTimesOut(t) ==
    /\ AwaitsSave(t)
    /\ Is(t, Answered(t, "failed"))
    /\ UNCHANGED <<server, network>>

\* After a conflict the member may have the saved version replace the unsaved
\* one; only the latest of several loads counts.
Reload(t) ==
    /\ tab[t].open /\ tab[t].save = "conflict" /\ published = None
    /\ Is(t, [tab[t] EXCEPT !.reload = [from |-> tab[t].text, rev |-> draft.rev,
                                        text |-> draft.text]])
    /\ UNCHANGED <<server, network>>

\* It does not, if more has been typed meanwhile.
Reloaded(t) ==
    LET l == tab[t].reload IN
    /\ l # None
    /\ Is(t, IF tab[t].text = l.from
             THEN [tab[t] EXCEPT !.reload = None, !.save = "idle",
                                 !.rev = l.rev, !.base = l.text, !.text = l.text]
             ELSE [tab[t] EXCEPT !.reload = None])
    /\ UNCHANGED <<server, network>>

-----------------------------------------------------------------------------
(* Publishing *)

Idle(t, flow) == [tab[t] EXCEPT !.flow = flow, !.scope = None]

\* The member confirms what is on the screen, which is saved.
Review(t) ==
    /\ tab[t].open /\ ~Dirty(t) /\ tab[t].active = None
    /\ tab[t].flow \in {"idle", "retryable", "refused"} \/ (tab[t].flow = "unclear" /\ ~Intended(t))
    /\ Is(t, [tab[t] EXCEPT !.flow = "checking", !.scope = Current(t)])
    /\ UNCHANGED <<server, network>>

\* The similar-recipes check is of a revision; what it finds may need another
\* confirmation.
Checked(t) ==
    /\ tab[t].flow = "checking"
    /\ Is(t, IF published # None THEN Idle(t, "refused")
             ELSE IF draft.rev # tab[t].scope.rev THEN [Idle(t, "refused") EXCEPT !.publish = None]
             ELSE IF Intended(t) THEN [tab[t] EXCEPT !.flow = "confirmation"] ELSE Idle(t, "idle"))
    /\ UNCHANGED <<server, network>>

CheckFails(t) ==
    /\ tab[t].flow = "checking"
    /\ Is(t, Idle(t, "refused"))
    /\ UNCHANGED <<server, network>>

\* The key stays while the request does: the draft is not part of it, its
\* revision is.
Publish(t) ==
    LET same == tab[t].publish # None /\ tab[t].publish.rev = tab[t].scope.rev
        key == IF same THEN tab[t].publish.key ELSE sent + 1
    IN /\ tab[t].flow \in {"confirmation", "retryable", "unclear"}
       /\ tab[t].active = None
       /\ Intended(t)
       /\ Send(t, "publish", key, tab[t].scope)
       /\ Is(t, [tab[t] EXCEPT !.flow = "publishing", !.active = sent + 1,
                               !.publish = [rev |-> tab[t].scope.rev, key |-> key]])
       /\ UNCHANGED server

\* A conflict makes the next attempt a new one.
PublishAnswered(t) ==
    /\ tab[t].flow = "publishing" /\ tab[t].inbox # None
    /\ Is(t, IF tab[t].inbox.kind = "ok"
             THEN [tab[t] EXCEPT !.flow = "published", !.active = None, !.inbox = None]
             ELSE [Idle(t, "refused") EXCEPT !.active = None, !.inbox = None, !.publish = None])
    /\ UNCHANGED <<server, network>>

\* No answer, or the proxy's error in its place.
PublishTimesOut(t) ==
    /\ tab[t].flow = "publishing"
    /\ \E flow \in {"unclear", "retryable"} :
         Is(t, [tab[t] EXCEPT !.flow = flow, !.active = None, !.inbox = None])
    /\ UNCHANGED <<server, network>>

KeepEditing(t) ==
    /\ tab[t].flow \in {"confirmation", "refused", "retryable"}
    /\ Is(t, [Idle(t, "idle") EXCEPT !.publish = None])
    /\ UNCHANGED <<server, network>>

-----------------------------------------------------------------------------
(* The server *)

\* The answer reaches the tab that still waits for it, or nobody.
Deliver(q, answer) ==
    \/ tab' = [t \in Tabs |-> IF tab[t].active = q.id THEN [tab[t] EXCEPT !.inbox = answer] ELSE tab[t]]
    \/ UNCHANGED tab

Ok == [kind |-> "ok", rev |-> draft'.rev, text |-> draft'.text]
No(kind) == [kind |-> kind, rev |-> draft.rev, text |-> draft.text]

SlipLastWins(q) == TRUE
UpToDate(q) == draft.rev = q.scope.rev

\* The key is not looked at.
TakeSave(q) ==
    /\ q.op = "save"
    /\ IF published = None /\ UpToDate(q)
       THEN /\ draft' = [rev |-> draft.rev + 1, text |-> q.scope.text]
            /\ saved' = [saved EXCEPT ![draft.rev + 1] = q.scope.text]
            /\ Deliver(q, Ok)
       ELSE /\ UNCHANGED <<draft, saved>>
            /\ Deliver(q, No(IF published = None THEN "conflict" ELSE "gone"))
    /\ wire' = wire \ {q}
    /\ UNCHANGED <<published, sent>>

TakePublish(q) ==
    /\ q.op = "publish"
    /\ IF published = None /\ UpToDate(q)
       THEN published' = [key |-> q.key, text |-> draft.text]
       ELSE UNCHANGED published
    /\ UNCHANGED <<draft, saved>>
    /\ Deliver(q, IF published' # None /\ published'.key = q.key THEN Ok ELSE No("conflict"))
    /\ wire' = wire \ {q}
    /\ UNCHANGED sent

LoseRequest(q) == wire' = wire \ {q} /\ UNCHANGED <<server, tab, sent>>

-----------------------------------------------------------------------------
EditStep(t) == \/ Open(t) \/ Close(t) \/ \E x \in Texts : Type(t, x)
               \/ Save(t) \/ SaveSucceeds(t) \/ SaveFails(t) \/ SaveTimesOut(t)
               \/ Reload(t) \/ Reloaded(t)

PublishStep(t) == \/ Review(t) \/ Checked(t) \/ CheckFails(t) \/ Publish(t)
                  \/ PublishAnswered(t) \/ PublishTimesOut(t) \/ KeepEditing(t)

ServerStep(q) == TakeSave(q) \/ TakePublish(q) \/ LoseRequest(q)

Next == \/ \E t \in Tabs : EditStep(t) \/ PublishStep(t)
        \/ \E q \in wire : ServerStep(q)

Spec == Init /\ [][Next]_vars

-----------------------------------------------------------------------------
(* Correctness *)

\* Rows, tabs and requests have their shape, and a tab is in the middle of saving or
\* publishing something.
TypeOK == /\ draft \in Scope
          /\ saved \in [Revisions -> Texts \cup {None}]
          /\ published \in [key : Numbers, text : Texts] \cup {None}
          /\ tab \in [Tabs -> Tab]
          /\ \A t \in Tabs : /\ tab[t].save = "saving" => tab[t].attempt # None
                            /\ tab[t].scope = None <=> tab[t].flow \in {"idle", "refused"}
          /\ wire \subseteq Request /\ sent \in 0..MaxRequests

\* A tab without unsaved changes shows the text saved under its revision, however
\* its saves, loads and typing crossed.
CleanTabsAreSaved ==
    \A t \in Tabs : tab[t].open /\ ~Dirty(t) => tab[t].text = saved[tab[t].rev]

\* A save replaces no text its tab had not seen.
NoSilentOverwrite ==
    [][draft'.rev # draft.rev =>
          \E q \in wire \ wire' : q.op = "save" /\ q.base = draft.text]_vars

\* What is published is what the member had on the screen and confirmed, and a tab
\* that says it is published says so of its own text.
PublishedAsConfirmed ==
    /\ [][published # published' =>
            \E q \in wire \ wire' : q.op = "publish" /\ q.scope.text = published'.text]_vars
    /\ [](\A t \in Tabs : tab[t].flow = "published" =>
            /\ published # None
            /\ published.text = tab[t].scope.text /\ published.text = tab[t].text)
=============================================================================
