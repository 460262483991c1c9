------------------------- MODULE MemberInteractions -------------------------
(***************************************************************************)
(* A member saves and rates one recipe version from several open pages      *)
(* (frontend recipe-interaction-panel.tsx, recipe-card-engagement.tsx;      *)
(* api/routes/interactions.py, services/preference_events.py).  A page that *)
(* gives a request up knows nothing of it: it may never arrive, have been   *)
(* carried out, or still be on its way.                                     *)
(***************************************************************************)
EXTENDS Naturals

CONSTANTS Pages, None,
          Ratings,       \* 1 to 5
          MaxClicks      \* bound

ASSUME RatingsAssumption == Ratings \subseteq Nat \ {0} /\ None \notin Nat

VARIABLES
    row,         \* what is stored: recipe_saves (0 or 1), recipe_ratings (0: none)
    events,      \* the preference events recorded
    requests,    \* requests on their way
    answers,     \* answers on their way
    pages,       \* what every page shows and remembers
    clicks       \* clicks so far

vars == <<row, events, requests, answers, pages, clicks>>

Kinds == {"save", "rating"}

Init == /\ row = [save |-> 0, rating |-> 0]
        /\ events = {}
        /\ requests = {}
        /\ answers = {}
        /\ pages = [p \in Pages |-> [shown |-> row,
                                     attempt |-> [k \in Kinds |-> [value |-> None, key |-> 0]],
                                     pending |-> 0, settled |-> FALSE]]
        /\ clicks = 0

-----------------------------------------------------------------------------
(* The page *)

SlipFreshKey(p, kind, value) == clicks + 1

\* A choice made again keeps its key, whatever became of it.
KeyFor(p, kind, value) ==
    IF pages[p].attempt[kind].value = value THEN pages[p].attempt[kind].key ELSE clicks + 1

Click(p, kind, value) ==
    LET key == KeyFor(p, kind, value) IN
    /\ pages[p].pending = 0
    /\ clicks < MaxClicks /\ clicks' = clicks + 1
    /\ pages' = [pages EXCEPT ![p].attempt[kind] = [value |-> value, key |-> key],
                              ![p].pending = clicks + 1,
                              ![p].settled = IF kind = "save" THEN FALSE ELSE @]
    /\ requests' = requests \cup {[page |-> p, click |-> clicks + 1, kind |-> kind,
                                   value |-> value, key |-> key]}
    /\ UNCHANGED <<row, events, answers>>

\* handleSaveToggle
ToggleSave(p) == Click(p, "save", 1 - pages[p].shown.save)

\* saveRating
Rate(p) == \E r \in Ratings : Click(p, "rating", r)

\* removeRating
RemoveRating(p) == pages[p].shown.rating # 0 /\ Click(p, "rating", 0)

\* The answer shows what is stored, of both kinds.
Receive(p) == \E a \in answers :
    /\ a.page = p /\ a.click = pages[p].pending
    /\ pages' = [pages EXCEPT ![p].shown = a.row, ![p].pending = 0,
                              ![p].settled = @ \/ a.kind = "save"]
    /\ answers' = answers \ {a}
    /\ UNCHANGED <<row, events, requests, clicks>>

\* An error, or the time limit; an answer after that goes nowhere.
GiveUp(p) == /\ pages[p].pending # 0
             /\ pages' = [pages EXCEPT ![p].pending = 0]
             /\ answers' = {a \in answers : a.page # p}
             /\ UNCHANGED <<row, events, requests, clicks>>

\* The viewer state of the cards is fetched again, which forgets no attempt.
FetchViewerState(p) ==
    /\ pages[p].pending = 0
    /\ pages[p].shown # row
    /\ pages' = [pages EXCEPT ![p].shown = row]
    /\ UNCHANGED <<row, events, requests, answers, clicks>>

-----------------------------------------------------------------------------
(* The server *)

SameKey(r) == {e \in events : e.kind = r.kind /\ e.key = r.key}

\* In one transaction, under the lock of the member's row.
Execute == \E r \in requests :
    LET replay == SameKey(r) # {}
        new == IF replay THEN row ELSE [row EXCEPT ![r.kind] = r.value]
    IN /\ \A e \in SameKey(r) : e.value = r.value
       /\ row' = new
       /\ events' = events \cup {[kind |-> r.kind, key |-> r.key, value |-> r.value]}
       /\ answers' = IF pages[r.page].pending # r.click THEN answers
                     ELSE answers \cup {[page |-> r.page, click |-> r.click, kind |-> r.kind,
                                         row |-> new]}
       /\ requests' = requests \ {r}
       /\ UNCHANGED <<pages, clicks>>

\* Lost, limited, refused because the recipe is no longer to be seen, or for its key.
Drop == \E r \in requests : /\ requests' = requests \ {r}
                            /\ UNCHANGED <<row, events, answers, pages, clicks>>

Next == \/ \E p \in Pages : \/ ToggleSave(p) \/ Rate(p) \/ RemoveRating(p)
                            \/ Receive(p) \/ GiveUp(p) \/ FetchViewerState(p)
        \/ Execute \/ Drop

Spec == Init /\ [][Next]_vars

-----------------------------------------------------------------------------
(* Correctness *)

\* While only one page is used to save and unsave, what it shows after a click that was
\* answered is what is stored, for good: no request given up before that click, and no
\* second copy of one, comes to undo it.
SavesSettle ==
    \A p \in Pages :
        /\ pages[p].settled
        /\ \A q \in Pages \ {p} : pages[q].attempt["save"].key = 0
        => row.save = pages[p].shown.save
=============================================================================
