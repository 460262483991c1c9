---------------------------- MODULE DraftCreation ----------------------------
(***************************************************************************)
(* Starting a private draft, or resuming one, over a network that loses and *)
(* delays (frontend recipe-draft-entry.ts, recipe-draft-creation-attempt.ts *)
(* and recipe-draft-starter.tsx; backend create_recipe_draft).  The key of  *)
(* a creation is kept in the tab until its answer is known.  A page that is *)
(* left goes on with what it had begun, beside the next page of the tab.    *)
(***************************************************************************)
EXTENDS Naturals

CONSTANTS Tabs, Visits,       \* pages being started at a time
          Blank, Sources,     \* an original recipe, or a version to adapt or revise
          Nil,
          MaxCalls            \* bound on creations sent

Intents == {Blank} \cup Sources

Drafts == [intent : Intents, active : BOOLEAN]

ASSUME CreationAssumption == /\ Blank \notin Sources /\ MaxCalls \in Nat
                             /\ Nil \notin Intents \cup Drafts \cup {"ok", "conflict"}

VARIABLES
    rows,      \* recipe_drafts of the member, by creation_action_id
    stored,    \* the attempts in each tab's sessionStorage: a key, 0 if there is none
    visit,     \* what each page that starts a draft is at
    posts,     \* creations on their way
    calls,     \* creations so far
    learnt     \* ghost: drafts some page was told of

creationVars == <<rows, stored, visit, posts, calls, learnt>>

Calls == 1..MaxCalls

Nowhere == [stage |-> "nowhere", tab |-> Nil, intent |-> Nil, shown |-> FALSE,
            again |-> FALSE, key |-> 0, call |-> 0, answer |-> Nil]

CreationInit == /\ rows = [k \in Calls |-> Nil]
                /\ stored = [t \in Tabs |-> [i \in Intents |-> 0]]
                /\ visit = [v \in Visits |-> Nowhere]
                /\ posts = {}
                /\ calls = 0
                /\ learnt = {}

-----------------------------------------------------------------------------
(* The page *)

Becomes(v, page) == visit' = [visit EXCEPT ![v] = page]

\* A source is looked for among the drafts first.
First(intent) == IF intent = Blank THEN "ask" ELSE "look"

Begin(v) == \E t \in Tabs, i \in Intents :
    /\ visit[v].stage = "nowhere"
    /\ \A u \in Visits : visit[u].tab = t => ~visit[u].shown
    /\ Becomes(v, [Nowhere EXCEPT !.stage = First(i), !.tab = t, !.intent = i, !.shown = TRUE])
    /\ UNCHANGED <<rows, stored, posts, calls, learnt>>

\* Of a page that failed nothing goes on.
Leave(v) ==
    /\ visit[v].shown
    /\ Becomes(v, IF visit[v].stage = "failed" THEN Nowhere ELSE [visit[v] EXCEPT !.shown = FALSE])
    /\ UNCHANGED <<rows, stored, posts, calls, learnt>>

Active(intent) == {k \in Calls : rows[k] # Nil /\ rows[k].intent = intent /\ rows[k].active}

\* findActiveRecipeDraftForSource: one that is found is opened.
Look(v) ==
    /\ visit[v].stage = "look"
    /\ \/ /\ Active(visit[v].intent) = {}
          /\ Becomes(v, [visit[v] EXCEPT !.stage = "ask"])
          /\ UNCHANGED learnt
       \/ \E k \in Active(visit[v].intent) : /\ Becomes(v, Nowhere)
                                             /\ learnt' = learnt \cup {k}
    /\ UNCHANGED <<rows, stored, posts, calls>>

Failed(v) == IF visit[v].shown THEN [visit[v] EXCEPT !.stage = "failed", !.call = 0, !.answer = Nil]
             ELSE Nowhere

LookFails(v) == /\ visit[v].stage = "look"
                /\ Becomes(v, Failed(v))
                /\ UNCHANGED <<rows, stored, posts, calls, learnt>>

\* getOrCreateRecipeDraftCreationAttempt
KeyOf(v) == IF stored[visit[v].tab][visit[v].intent] # 0 THEN stored[visit[v].tab][visit[v].intent]
            ELSE calls + 1

Ask(v) ==
    LET page == visit[v] key == KeyOf(v) IN
    /\ page.stage = "ask"
    /\ calls < MaxCalls /\ calls' = calls + 1
    /\ stored' = [stored EXCEPT ![page.tab][page.intent] = key]
    /\ posts' = posts \cup {[call |-> calls + 1, key |-> key, intent |-> page.intent]}
    /\ Becomes(v, [page EXCEPT !.stage = "wait", !.key = key, !.call = calls + 1])
    /\ UNCHANGED <<rows, learnt>>

SlipClearAny(v) == [stored EXCEPT ![visit[v].tab][visit[v].intent] = 0]

\* clearRecipeDraftCreationAttempt: another page's key stays.
Cleared(v) ==
    [stored EXCEPT ![visit[v].tab][visit[v].intent] = IF @ = visit[v].key THEN 0 ELSE @]

Opens(v) == /\ visit[v].answer = "ok"
            /\ stored' = Cleared(v)
            /\ learnt' = learnt \cup {visit[v].key}
            /\ Becomes(v, Nowhere)
            /\ UNCHANGED <<rows, posts, calls>>

\* The key is of a draft that is over: a new one is tried, once.
StartsOver(v) ==
    /\ visit[v].answer = "conflict"
    /\ stored' = Cleared(v)
    /\ Becomes(v, IF visit[v].again THEN Failed(v)
                  ELSE [visit[v] EXCEPT !.stage = "ask", !.again = TRUE, !.call = 0, !.answer = Nil])
    /\ UNCHANGED <<rows, posts, calls, learnt>>

\* Any other error, or the time limit.  The key stays.
GivesUp(v) == /\ visit[v].stage = "wait" /\ visit[v].answer = Nil
              /\ Becomes(v, Failed(v))
              /\ UNCHANGED <<rows, stored, posts, calls, learnt>>

TryAgain(v) ==
    /\ visit[v].stage = "failed"
    /\ Becomes(v, [visit[v] EXCEPT !.stage = First(visit[v].intent), !.again = FALSE])
    /\ UNCHANGED <<rows, stored, posts, calls, learnt>>

-----------------------------------------------------------------------------
(* The server *)

\* create_recipe_draft, under the lock of the member's row.
Created(post) ==
    IF rows[post.key] = Nil
    THEN [rows EXCEPT ![post.key] = [intent |-> post.intent, active |-> TRUE]]
    ELSE rows

Verdict(post) ==
    IF rows[post.key] = Nil \/ rows[post.key] = [intent |-> post.intent, active |-> TRUE]
    THEN "ok" ELSE "conflict"

\* The answer reaches the page that still waits for it, or nobody.
Create == \E post \in posts :
    /\ rows' = Created(post)
    /\ \/ visit' = [v \in Visits |-> IF visit[v].call # post.call THEN visit[v]
                                     ELSE [visit[v] EXCEPT !.answer = Verdict(post)]]
       \/ UNCHANGED visit
    /\ posts' = posts \ {post}
    /\ UNCHANGED <<stored, calls, learnt>>

\* Lost, limited, or refused because the source is no longer to be seen.
Lose == \E post \in posts : /\ posts' = posts \ {post}
                            /\ UNCHANGED <<rows, stored, visit, calls, learnt>>

\* The member publishes or discards it.  The row stays.
Finish == \E k \in Calls : /\ rows[k] # Nil /\ rows[k].active
                           /\ rows' = [rows EXCEPT ![k].active = FALSE]
                           /\ UNCHANGED <<stored, visit, posts, calls, learnt>>

CreationNext == \/ \E v \in Visits : \/ Begin(v) \/ Leave(v) \/ Look(v) \/ LookFails(v) \/ Ask(v)
                                     \/ Opens(v) \/ StartsOver(v) \/ GivesUp(v) \/ TryAgain(v)
                \/ Create \/ Lose \/ Finish

CreationSpec == CreationInit /\ [][CreationNext]_creationVars

-----------------------------------------------------------------------------
(* Correctness *)

\* A draft no page was told of, as its answer is on its way or was lost, is the one the next
\* start of the same kind in some tab comes back to, by the key kept there.
NoDraftIsLost ==
    \A k \in Calls :
        rows[k] # Nil /\ rows[k].active /\ k \notin learnt =>
            \E t \in Tabs : stored[t][rows[k].intent] = k
=============================================================================
