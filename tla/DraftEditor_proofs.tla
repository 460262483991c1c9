-------------------------- MODULE DraftEditor_proofs --------------------------
(***************************************************************************)
(* Proofs about DraftEditor: for every number of tabs, texts and requests,  *)
(* however saves, loads, publications and their answers cross, are lost or  *)
(* are late.                                                                *)
(***************************************************************************)
EXTENDS DraftEditor, TLAPS

-----------------------------------------------------------------------------
(* The invariant *)

\* The draft is the last revision, and no revision was made without a request.
RevisionsInv == /\ draft.rev <= sent + 1
                /\ saved[draft.rev] = draft.text
                /\ \A r \in Revisions : r <= draft.rev => saved[r] \in Texts

\* A tab holds a revision there was as its text, and so does what it loads or is told.
Known(d) == d.rev <= draft.rev /\ saved[d.rev] = d.text
HoldsRevisions(a) == /\ a.rev <= draft.rev /\ saved[a.rev] = a.base
                     /\ a.inbox # None => Known(a.inbox)
                     /\ a.reload # None => Known(a.reload)

\* It knows that its revision is not the last when a save met a conflict, and while a load is
\* under way; no save of its own can have succeeded then.
KnowsItIsBehind(a) ==
    /\ a.save = "conflict" => a.rev < draft.rev
    /\ a.reload # None => /\ a.rev < draft.rev
                          /\ ~(a.save = "saving" /\ a.inbox # None /\ a.inbox.kind = "ok")
    /\ a.save = "saving" /\ a.inbox # None /\ a.inbox.kind = "conflict" => a.rev < draft.rev

\* It waits for one answer at a time, and blocks edits while it publishes.
WaitsForOne(a) ==
    /\ a.inbox # None => a.active # None
    /\ a.active # None => a.active <= sent
    /\ a.save = "saving" => a.active # None /\ a.flow # "publishing"
    /\ a.active # None /\ a.flow # "publishing" => a.flow \notin {"checking", "published", "unclear"}

\* What is being published is what was confirmed, or of a revision that was overtaken.
PublishesAsConfirmed(a) ==
    /\ a.flow = "publishing" =>
         /\ a.active # None /\ a.publish # None /\ a.publish.rev = a.scope.rev
         /\ \/ a.scope = [rev |-> a.rev, text |-> a.text] /\ a.text = a.base
            \/ a.scope.rev < draft.rev
         /\ a.inbox # None /\ a.inbox.kind = "ok" => published # None /\ published.key = a.publish.key
    /\ a.flow = "published" =>
         /\ published # None /\ a.active = None
         /\ a.scope = [rev |-> a.rev, text |-> a.text] /\ a.text = a.base /\ a.rev = draft.rev

\* A request says what its tab held, and is of a revision there was before it.
Honest(q) == /\ q.id <= sent /\ q.scope.rev <= draft.rev /\ q.scope.rev <= q.id
             /\ q.op = "save" => q.base = saved[q.scope.rev]
             /\ q.op = "publish" => q.key # None /\ q.scope.text = saved[q.scope.rev]

\* The request a tab waits for is the one it sent last.
Matches(q, a) ==
    a.active = q.id =>
        IF a.flow = "publishing"
        THEN q.op = "publish" /\ q.key = a.publish.key /\ q.scope = a.scope
        ELSE q.op = "save" /\ (a.save = "saving" => q.scope.rev = a.rev)

\* The keys of publications under way or remembered, and what they stand for.
Keyed == {[rev |-> q.scope.rev, key |-> q.key] : q \in {r \in wire : r.op = "publish"}}
            \cup ({tab[t].publish : t \in Tabs} \ {None})

\* A key stands for one revision.
KeysInv == /\ \A k \in Keyed : k.key <= sent
           /\ \A k, l \in Keyed : k.key = l.key => k.rev = l.rev
           /\ published # None => /\ published.key <= sent /\ published.text = draft.text
                                  /\ \A k \in Keyed : k.key = published.key => k.rev = draft.rev

TabTypes(a) == /\ a \in Tab
               /\ a.save = "saving" => a.attempt # None
               /\ a.scope = None <=> a.flow \in {"idle", "refused"}

TabInv(a) == /\ TabTypes(a)
             /\ HoldsRevisions(a) /\ KnowsItIsBehind(a) /\ WaitsForOne(a) /\ PublishesAsConfirmed(a)

ServerTypes == /\ draft \in Scope
               /\ saved \in [Revisions -> Texts \cup {None}]
               /\ published \in [key : Numbers, text : Texts] \cup {None}
               /\ wire \subseteq Request /\ sent \in 0..MaxRequests

EditorInv == /\ ServerTypes
             /\ RevisionsInv
             /\ tab \in [Tabs -> Tab] /\ \A t \in Tabs : TabInv(tab[t])
             /\ \A q \in wire : Honest(q) /\ \A t \in Tabs : Matches(q, tab[t])
             /\ KeysInv

-----------------------------------------------------------------------------
(* What every step needs *)

\* The numbers there are.
LEMMA NumberFacts ==
    /\ MaxRequests \in Nat /\ 1 \in Revisions /\ Revisions \subseteq Nat /\ Numbers \subseteq Nat
    /\ \A r \in Revisions : r >= 1 /\ r <= MaxRequests + 1
BY MaxRequestsAssumption DEF Revisions, Numbers

\* The draft has a revision, and requests a number.
LEMMA ServerFacts ==
    ASSUME ServerTypes
    PROVE  draft.rev \in Nat /\ sent \in Nat /\ draft \in Scope
<1>1. draft \in Scope /\ sent \in 0..MaxRequests
  BY DEF ServerTypes
<1>2. draft.rev \in Revisions
  BY <1>1 DEF Scope
<1>3. draft.rev \in Nat
  BY <1>2, NumberFacts
<1>4. sent \in Nat
  BY <1>1, NumberFacts
<1> QED BY <1>1, <1>3, <1>4

\* The server goes on: revisions are added, and none once the draft is published.
Grows == /\ draft \in Scope /\ draft' \in Scope /\ draft.rev <= draft'.rev
         /\ \A r \in Revisions : r <= draft.rev => saved'[r] = saved[r]
         /\ published # None => published' = published /\ draft' = draft
         /\ sent \in Nat /\ sent' \in Nat /\ sent <= sent'

\* What a tab holds stays right when it does.
LEMMA TabsStayRight ==
    ASSUME NEW a, TabInv(a), Grows
    PROVE  TabInv(a)'
<1>1. a \in Tab /\ draft.rev \in Nat /\ draft'.rev \in Nat /\ draft.rev <= draft'.rev
  BY NumberFacts DEF TabInv, TabTypes, Grows, Scope
<1>2. a.rev \in Revisions /\ a.rev \in Nat
  BY <1>1, NumberFacts DEF Tab
<1>k. ASSUME NEW d, d.rev \in Revisions, Known(d) PROVE Known(d)'
  <2>1. d.rev \in Nat /\ saved'[d.rev] = saved[d.rev] /\ d.rev <= draft.rev /\ saved[d.rev] = d.text
    BY <1>k, NumberFacts DEF Known, Grows
  <2> QED BY <1>1, <2>1 DEF Known
<1>3. HoldsRevisions(a)'
  <2>1. a.inbox # None => a.inbox.rev \in Revisions
    BY <1>1 DEF Tab, Answer
  <2>2. a.reload # None => a.reload.rev \in Revisions
    BY <1>1 DEF Tab, Load
  <2>3. a.rev <= draft'.rev /\ saved'[a.rev] = a.base
    BY <1>1, <1>2 DEF TabInv, HoldsRevisions, Grows
  <2> QED BY <1>k, <2>1, <2>2, <2>3 DEF TabInv, HoldsRevisions
<1>4. KnowsItIsBehind(a)'
  BY <1>1, <1>2 DEF TabInv, KnowsItIsBehind
<1>5. WaitsForOne(a)'
  <2>1. a.active # None => a.active \in Nat
    BY <1>1, NumberFacts DEF Tab
  <2> QED BY <2>1 DEF TabInv, WaitsForOne, Grows
<1>6. PublishesAsConfirmed(a)'
  <2>1. a.flow = "publishing" => a.scope \in Scope
    <3>1. a.flow = "publishing" => a.scope # None
      BY DEF TabInv, TabTypes
    <3> QED BY <1>1, <3>1 DEF Tab
  <2>2. a.flow = "publishing" => a.scope.rev \in Nat
    BY <2>1, NumberFacts DEF Scope
  <2> QED BY <1>1, <2>2 DEF TabInv, PublishesAsConfirmed, Grows
<1> QED BY <1>3, <1>4, <1>5, <1>6 DEF TabInv, TabTypes

\* A request stays right when it does.
LEMMA RequestsStayRight ==
    ASSUME ServerTypes, NEW q \in wire, Honest(q), Grows
    PROVE  Honest(q)'
<1>1. /\ q \in Request /\ q.id \in Nat /\ q.scope.rev \in Revisions /\ q.scope.rev \in Nat
      /\ draft.rev \in Nat /\ draft'.rev \in Nat
  BY NumberFacts DEF ServerTypes, Request, Scope, Grows
<1> QED BY <1>1 DEF Honest, Grows

\* A tab that changes, while nothing is sent, taken or lost.
LEMMA TabMoves ==
    ASSUME EditorInv, NEW t \in Tabs, NEW a, Is(t, a), UNCHANGED <<server, network>>,
           TabInv(a), a.publish = tab[t].publish \/ a.publish = None,
           \A q \in wire : Matches(q, tab[t]) => Matches(q, a)
    PROVE  EditorInv'
<1>t. /\ ServerTypes /\ RevisionsInv /\ KeysInv /\ tab \in [Tabs -> Tab]
      /\ \A u \in Tabs : TabInv(tab[u])
      /\ \A q \in wire : Honest(q) /\ \A u \in Tabs : Matches(q, tab[u])
  BY DEF EditorInv
<1>1. UNCHANGED <<draft, saved, published, wire, sent>>
  BY DEF server, network
<1>2. /\ tab' \in [Tabs -> Tab] /\ tab'[t] = a /\ \A u \in Tabs \ {t} : tab'[u] = tab[u]
  BY <1>t DEF Is, TabInv, TabTypes
<1>3. Grows
  <2>1. draft.rev \in Nat /\ sent \in Nat /\ draft \in Scope
    BY <1>t, ServerFacts
  <2> QED BY <1>1, <2>1 DEF Grows
<1>4. ASSUME NEW u \in Tabs PROVE TabInv(tab[u])'
  <2>1. CASE u = t
    BY <1>2, <1>3, <2>1, TabsStayRight
  <2>2. CASE u # t
    BY <1>t, <1>2, <1>3, <2>2, TabsStayRight
  <2> QED BY <2>1, <2>2
<1>5. ASSUME NEW q \in wire PROVE Honest(q)' /\ \A u \in Tabs : Matches(q, tab'[u])
  <2>1. Honest(q)'
    BY <1>t, <1>3, RequestsStayRight
  <2>2. ASSUME NEW u \in Tabs PROVE Matches(q, tab'[u])
    BY <1>t, <1>2
  <2> QED BY <2>1, <2>2
<1>6. KeysInv'
  <2>1. Keyed' \subseteq Keyed
    <3> SUFFICES ASSUME NEW u \in Tabs, tab'[u].publish # None
                 PROVE  tab'[u].publish \in {tab[v].publish : v \in Tabs} \ {None}
      BY <1>1 DEF Keyed
    <3> QED BY <1>2
  <2> QED BY <1>t, <1>1, <2>1 DEF KeysInv
<1>7. ServerTypes' /\ RevisionsInv'
  BY <1>t, <1>1 DEF ServerTypes, RevisionsInv
<1>8. \A q \in wire' : Honest(q)' /\ \A u \in Tabs : Matches(q, tab[u])'
  BY <1>1, <1>5 DEF Matches
<1> QED BY <1>2, <1>4, <1>6, <1>7, <1>8 DEF EditorInv

-----------------------------------------------------------------------------
(* Editing *)

\* A tab that was just opened holds the draft.
LEMMA FreshFacts ==
    ASSUME NEW d \in Scope, Known(d)
    PROVE  /\ TabInv(Fresh(d)) /\ Fresh(d).active = None /\ Fresh(d).publish = None
           /\ TabInv([Fresh(d) EXCEPT !.open = FALSE])
           /\ [Fresh(d) EXCEPT !.open = FALSE].active = None
           /\ [Fresh(d) EXCEPT !.open = FALSE].publish = None
<1> DEFINE a == Fresh(d)
           b == [a EXCEPT !.open = FALSE]
<1>1. /\ a \in Tab /\ a.rev = d.rev /\ a.base = d.text /\ a.inbox = None /\ a.reload = None
      /\ a.save = "idle" /\ a.flow = "idle" /\ a.scope = None /\ a.active = None /\ a.publish = None
  BY DEF Fresh, Tab, Scope
<1> HIDE DEF a
<1>2. /\ b \in Tab /\ b.rev = d.rev /\ b.base = d.text /\ b.inbox = None /\ b.reload = None
      /\ b.save = "idle" /\ b.flow = "idle" /\ b.scope = None /\ b.active = None /\ b.publish = None
  BY <1>1 DEF Tab
<1> HIDE DEF b
<1>3. ASSUME NEW c \in Tab, c.rev = d.rev, c.base = d.text, c.inbox = None, c.reload = None,
             c.save = "idle", c.flow = "idle", c.scope = None, c.active = None
      PROVE  TabInv(c)
  BY <1>3 DEF TabInv, TabTypes, HoldsRevisions, KnowsItIsBehind, WaitsForOne, PublishesAsConfirmed,
              Known
<1>4. TabInv(a) /\ TabInv(b)
  BY <1>1, <1>2, <1>3
<1> QED BY <1>1, <1>2, <1>4 DEF a, b

\* What is known of an open tab, and of the server, before a step.
LEMMA TabFacts ==
    ASSUME EditorInv, NEW t \in Tabs
    PROVE  /\ tab[t] \in Tab /\ TabInv(tab[t]) /\ ServerTypes /\ RevisionsInv
           /\ draft.rev \in Nat /\ sent \in Nat /\ draft \in Scope /\ Known(draft)
           /\ \A r \in Revisions : r <= draft.rev => saved[r] \in Texts
<1>1. tab[t] \in Tab /\ TabInv(tab[t]) /\ ServerTypes /\ RevisionsInv
  BY DEF EditorInv
<1>2. draft.rev \in Nat /\ sent \in Nat /\ draft \in Scope
  BY <1>1, ServerFacts
<1>3. draft.rev <= draft.rev
  BY <1>2
<1> QED BY <1>1, <1>2, <1>3 DEF RevisionsInv, Known

\* Tabs are opened and closed.
LEMMA AfterOpenOrClose ==
    ASSUME EditorInv, NEW t \in Tabs, Open(t) \/ Close(t)
    PROVE  EditorInv'
<1>t. /\ draft \in Scope /\ Known(draft) /\ draft.rev \in Nat
      /\ \A r \in Revisions : r <= draft.rev => saved[r] \in Texts
  BY TabFacts
<1>m. ASSUME NEW a, a.active = None
      PROVE  \A q \in wire : Matches(q, a)
  <2>1. \A q \in wire : q.id # None
    BY NoneAssumption, NumberFacts DEF EditorInv, ServerTypes, Request
  <2> QED BY <1>m, <2>1 DEF Matches
<1>1. CASE Open(t)
  <2>1. Is(t, Fresh(draft)) /\ UNCHANGED <<server, network>>
    BY <1>1 DEF Open
  <2> QED BY <1>t, <1>m, <2>1, FreshFacts, TabMoves
<1>2. CASE Close(t)
  <2> DEFINE first == [rev |-> 1, text |-> saved[1]]
             a == [Fresh(first) EXCEPT !.open = FALSE]
  <2>1. Is(t, a) /\ UNCHANGED <<server, network>>
    BY <1>2 DEF Close, Closed
  <2>2. first \in Scope /\ Known(first)
    <3>1. 1 \in Revisions /\ 1 <= draft.rev /\ saved[1] \in Texts
      BY <1>t, NumberFacts DEF Scope
    <3> QED BY <3>1 DEF Scope, Known
  <2> HIDE DEF first
  <2>3. TabInv(a) /\ a.active = None /\ a.publish = None
    BY <2>2, FreshFacts
  <2> HIDE DEF a
  <2> QED BY <1>m, <2>1, <2>3, TabMoves
<1> QED BY <1>1, <1>2

\* Typing changes neither what a tab holds as saved nor what is being published.
LEMMA AfterType ==
    ASSUME EditorInv, NEW t \in Tabs, NEW x \in Texts, Type(t, x)
    PROVE  EditorInv'
<1> DEFINE b == tab[t]
           save == IF b.save = "saving" THEN b.save ELSE "idle"
           a == [b EXCEPT !.text = x, !.save = save]
<1>t. b \in Tab /\ TabInv(b) /\ draft.rev \in Nat
  BY TabFacts
<1>1. /\ Is(t, a) /\ UNCHANGED <<server, network>>
      /\ b.flow # "publishing" /\ b.flow # "published"
  BY DEF Type, Busy
<1>2. save \in {"saving", "idle"} /\ (save = "saving" <=> b.save = "saving")
  OBVIOUS
<1> HIDE DEF b, save
<1>3. /\ a \in Tab /\ a.rev = b.rev /\ a.base = b.base /\ a.inbox = b.inbox /\ a.reload = b.reload
      /\ a.save = save /\ a.flow = b.flow /\ a.scope = b.scope /\ a.active = b.active
      /\ a.publish = b.publish /\ a.attempt = b.attempt
  BY <1>t, <1>2 DEF Tab
<1> HIDE DEF a
<1>4. TabInv(a)
  BY <1>t, <1>1, <1>2, <1>3
     DEF TabInv, TabTypes, HoldsRevisions, KnowsItIsBehind, WaitsForOne, PublishesAsConfirmed
<1>5. \A q \in wire : Matches(q, b) => Matches(q, a)
  BY <1>1, <1>2, <1>3 DEF Matches
<1> QED BY <1>1, <1>3, <1>4, <1>5, TabMoves DEF b

\* What was saved becomes what the tab holds; what was typed since stays.
LEMMA AfterSaveSucceeds ==
    ASSUME EditorInv, NEW t \in Tabs, SaveSucceeds(t)
    PROVE  EditorInv'
<1> DEFINE b == tab[t]
           d == b.inbox
           text == IF b.text = b.attempt.text THEN d.text ELSE b.text
           a == [b EXCEPT !.save = "saved", !.attempt = None, !.active = None, !.inbox = None,
                          !.rev = d.rev, !.base = d.text, !.text = text]
<1>t. b \in Tab /\ TabInv(b)
  BY TabFacts
<1>1. /\ Is(t, a) /\ UNCHANGED <<server, network>>
      /\ b.save = "saving" /\ d # None /\ d.kind = "ok"
  BY DEF SaveSucceeds, Saved
<1>2. d \in Answer /\ Known(d) /\ b.reload = None
      /\ b.active # None /\ b.flow \notin {"publishing", "checking", "published", "unclear"}
  BY <1>t, <1>1 DEF TabInv, HoldsRevisions, KnowsItIsBehind, WaitsForOne, Tab
<1> HIDE DEF d
<1>3. d.rev \in Revisions /\ d.text \in Texts /\ text \in Texts
  BY <1>t, <1>2 DEF Answer, Tab
<1> HIDE DEF b, text
<1>4. /\ a \in Tab /\ a.rev = d.rev /\ a.base = d.text /\ a.inbox = None /\ a.reload = b.reload
      /\ a.save = "saved" /\ a.flow = b.flow /\ a.scope = b.scope /\ a.active = None
      /\ a.publish = b.publish
  BY <1>t, <1>3 DEF Tab
<1> HIDE DEF a
<1>5. TabInv(a)
  BY <1>t, <1>2, <1>4
     DEF TabInv, TabTypes, HoldsRevisions, KnowsItIsBehind, WaitsForOne, PublishesAsConfirmed, Known
<1>6. \A q \in wire : Matches(q, a)
  <2>1. \A q \in wire : q.id # None
    BY NoneAssumption, NumberFacts DEF EditorInv, ServerTypes, Request
  <2> QED BY <1>4, <2>1 DEF Matches
<1> QED BY <1>1, <1>4, <1>5, <1>6, TabMoves DEF b

\* A save that failed, or is no longer waited for, leaves the tab what it holds.
LEMMA AfterSaveEnds ==
    ASSUME EditorInv, NEW t \in Tabs, SaveFails(t) \/ SaveTimesOut(t)
    PROVE  EditorInv'
<1> DEFINE b == tab[t]
<1>t. b \in Tab /\ TabInv(b)
  BY TabFacts
<1>1. /\ UNCHANGED <<server, network>> /\ b.active # None /\ b.flow # "publishing"
      /\ \E s \in {"conflict", "failed"} :
            /\ Is(t, Answered(t, s))
            /\ s = "conflict" => b.inbox # None /\ b.inbox.kind = "conflict"
  BY DEF SaveFails, SaveTimesOut, AwaitsSave
<1>2. PICK s \in {"conflict", "failed"} :
            /\ Is(t, Answered(t, s))
            /\ s = "conflict" => b.inbox # None /\ b.inbox.kind = "conflict"
  BY <1>1
<1> DEFINE save == IF b.save = "saving" THEN s ELSE b.save
           a == [b EXCEPT !.save = save, !.active = None, !.inbox = None]
<1>3. Is(t, a)
  BY <1>2 DEF Answered
<1>4. /\ save \in {"idle", "saved", "conflict", "failed"}
      /\ save = "conflict" => b.rev < draft.rev
  BY <1>t, <1>2 DEF TabInv, KnowsItIsBehind, Tab
<1> HIDE DEF b, save
<1>5. /\ a \in Tab /\ a.rev = b.rev /\ a.base = b.base /\ a.inbox = None /\ a.reload = b.reload
      /\ a.save = save /\ a.flow = b.flow /\ a.scope = b.scope /\ a.active = None
      /\ a.publish = b.publish
  BY <1>t, <1>4 DEF Tab
<1> HIDE DEF a
<1>6. TabInv(a)
  BY <1>t, <1>1, <1>4, <1>5
     DEF TabInv, TabTypes, HoldsRevisions, KnowsItIsBehind, WaitsForOne, PublishesAsConfirmed
<1>7. \A q \in wire : Matches(q, a)
  <2>1. \A q \in wire : q.id # None
    BY NoneAssumption, NumberFacts DEF EditorInv, ServerTypes, Request
  <2> QED BY <1>5, <2>1 DEF Matches
<1> QED BY <1>1, <1>3, <1>5, <1>6, <1>7, TabMoves DEF b

\* A load begins only where the tab is behind, and ends without a trace if more was typed.
LEMMA AfterReload ==
    ASSUME EditorInv, NEW t \in Tabs, Reload(t) \/ Reloaded(t)
    PROVE  EditorInv'
<1> DEFINE b == tab[t]
<1>t. b \in Tab /\ TabInv(b) /\ draft \in Scope /\ Known(draft) /\ draft.rev \in Nat
  BY TabFacts
<1>1. CASE Reload(t)
  <2> DEFINE load == [from |-> b.text, rev |-> draft.rev, text |-> draft.text]
             a == [b EXCEPT !.reload = load]
  <2>1. Is(t, a) /\ UNCHANGED <<server, network>> /\ b.save = "conflict"
    BY <1>1 DEF Reload
  <2>2. load \in Load /\ load # None /\ Known(load)
    <3>1. load \in Load
      BY <1>t DEF Load, Tab, Scope
    <3>2. load # None
      <4> HIDE DEF load
      <4> QED BY <3>1, NoneAssumption
    <3> QED BY <1>t, <3>1, <3>2 DEF Known
  <2>3. b.rev < draft.rev
    BY <1>t, <2>1 DEF TabInv, KnowsItIsBehind
  <2> HIDE DEF b, load
  <2>4. /\ a \in Tab /\ a.rev = b.rev /\ a.base = b.base /\ a.inbox = b.inbox /\ a.reload = load
        /\ a.save = b.save /\ a.flow = b.flow /\ a.scope = b.scope /\ a.active = b.active
        /\ a.publish = b.publish /\ a.text = b.text /\ a.attempt = b.attempt
    BY <1>t, <2>2 DEF Tab
  <2> HIDE DEF a
  <2>5. TabInv(a)
    BY <1>t, <2>1, <2>2, <2>3, <2>4
       DEF TabInv, TabTypes, HoldsRevisions, KnowsItIsBehind, WaitsForOne, PublishesAsConfirmed
  <2>6. \A q \in wire : Matches(q, b) => Matches(q, a)
    BY <2>4 DEF Matches
  <2> QED BY <2>1, <2>4, <2>5, <2>6, TabMoves DEF b
<1>2. CASE Reloaded(t) /\ b.text # b.reload.from
  <2> DEFINE a == [b EXCEPT !.reload = None]
  <2>1. Is(t, a) /\ UNCHANGED <<server, network>>
    BY <1>2 DEF Reloaded
  <2> HIDE DEF b
  <2>2. /\ a \in Tab /\ a.rev = b.rev /\ a.base = b.base /\ a.inbox = b.inbox /\ a.reload = None
        /\ a.save = b.save /\ a.flow = b.flow /\ a.scope = b.scope /\ a.active = b.active
        /\ a.publish = b.publish /\ a.text = b.text /\ a.attempt = b.attempt
    BY <1>t DEF Tab
  <2> HIDE DEF a
  <2>3. TabInv(a)
    BY <1>t, <2>2
       DEF TabInv, TabTypes, HoldsRevisions, KnowsItIsBehind, WaitsForOne, PublishesAsConfirmed
  <2>4. \A q \in wire : Matches(q, b) => Matches(q, a)
    BY <2>2 DEF Matches
  <2> QED BY <2>1, <2>2, <2>3, <2>4, TabMoves DEF b
<1>3. CASE Reloaded(t) /\ b.text = b.reload.from
  <2> DEFINE l == b.reload
             a == [b EXCEPT !.reload = None, !.save = "idle", !.rev = l.rev, !.base = l.text,
                            !.text = l.text]
  <2>1. Is(t, a) /\ UNCHANGED <<server, network>> /\ l # None
    BY <1>3 DEF Reloaded
  <2>2. l \in Load /\ Known(l) /\ b.rev < draft.rev
    BY <1>t, <2>1 DEF TabInv, HoldsRevisions, KnowsItIsBehind, Tab
  <2>3. /\ l.rev \in Revisions /\ l.text \in Texts /\ l.rev <= draft.rev /\ saved[l.rev] = l.text
        /\ l.rev \in Nat
    BY <2>2, NumberFacts DEF Load, Known
  <2> HIDE DEF b, l
  <2>4. /\ a \in Tab /\ a.rev = l.rev /\ a.base = l.text /\ a.inbox = b.inbox /\ a.reload = None
        /\ a.save = "idle" /\ a.flow = b.flow /\ a.scope = b.scope /\ a.active = b.active
        /\ a.publish = b.publish /\ a.text = l.text /\ a.attempt = b.attempt
    BY <1>t, <2>3 DEF Tab
  <2> HIDE DEF a
  <2>5. TabTypes(a) /\ HoldsRevisions(a) /\ KnowsItIsBehind(a) /\ WaitsForOne(a)
    BY <1>t, <2>1, <2>3, <2>4 DEF TabInv, TabTypes, HoldsRevisions, KnowsItIsBehind, WaitsForOne
  <2>6. PublishesAsConfirmed(a)
    <3>1. b.rev \in Nat
      BY <1>t, NumberFacts DEF Tab
    <3>2. b.flow # "published"
      BY <1>t, <2>2, <3>1 DEF TabInv, PublishesAsConfirmed
    <3>3. b.flow = "publishing" => b.scope.rev < draft.rev
      <4>1. b.scope = [rev |-> b.rev, text |-> b.text] => b.scope.rev = b.rev
        OBVIOUS
      <4> QED BY <1>t, <2>2, <4>1 DEF TabInv, PublishesAsConfirmed
    <3> QED BY <1>t, <2>4, <3>2, <3>3 DEF TabInv, PublishesAsConfirmed
  <2>7. \A q \in wire : Matches(q, b) => Matches(q, a)
    BY <2>4 DEF Matches
  <2> QED BY <2>1, <2>4, <2>5, <2>6, <2>7, TabMoves DEF b, TabInv
<1> QED BY <1>1, <1>2, <1>3

-----------------------------------------------------------------------------
(* Publishing *)

\* The steps of the dialogue that neither send nor receive: what is confirmed is on the screen.
LEMMA AfterDialogue ==
    ASSUME EditorInv, NEW t \in Tabs, UNCHANGED <<server, network>>,
           NEW flow \in {"idle", "checking", "confirmation", "refused"},
           NEW scope \in {None, tab[t].scope, Current(t)}, NEW publish \in {None, tab[t].publish},
           scope = None <=> flow \in {"idle", "refused"},
           tab[t].flow # "publishing",
           flow = "checking" => tab[t].active = None,
           Is(t, [tab[t] EXCEPT !.flow = flow, !.scope = scope, !.publish = publish])
    PROVE  EditorInv'
<1> DEFINE b == tab[t]
           a == [b EXCEPT !.flow = flow, !.scope = scope, !.publish = publish]
<1>t. b \in Tab /\ TabInv(b)
  BY TabFacts
<1>1. Is(t, a)
  OBVIOUS
<1>2. scope \in Scope \cup {None} /\ publish \in PublishAttempt \cup {None}
  BY <1>t DEF Current, Scope, Tab
<1> HIDE DEF b
<1>3. /\ a \in Tab /\ a.rev = b.rev /\ a.base = b.base /\ a.inbox = b.inbox /\ a.reload = b.reload
      /\ a.save = b.save /\ a.flow = flow /\ a.scope = scope /\ a.active = b.active
      /\ a.publish = publish /\ a.text = b.text /\ a.attempt = b.attempt
  BY <1>t, <1>2 DEF Tab
<1> HIDE DEF a
<1>4. TabInv(a)
  BY <1>t, <1>3
     DEF TabInv, TabTypes, HoldsRevisions, KnowsItIsBehind, WaitsForOne, PublishesAsConfirmed, b
<1>5. \A q \in wire : Matches(q, b) => Matches(q, a)
  BY <1>3 DEF Matches, b
<1>6. a.publish = b.publish \/ a.publish = None
  BY <1>3 DEF b
<1> QED BY <1>1, <1>4, <1>5, <1>6, TabMoves DEF b

\* Reviewing, the check and its outcomes, and going back to edit.
LEMMA AfterReview ==
    ASSUME EditorInv, NEW t \in Tabs, Review(t) \/ Checked(t) \/ CheckFails(t) \/ KeepEditing(t)
    PROVE  EditorInv'
<1> DEFINE b == tab[t]
<1>t. b \in Tab /\ TabInv(b)
  BY TabFacts
<1>1. /\ UNCHANGED <<server, network>> /\ b.flow # "publishing"
      /\ b.flow = "checking" => b.active = None
  BY <1>t DEF Review, Checked, CheckFails, KeepEditing, TabInv, WaitsForOne
<1>2. \A f, s, p : [b EXCEPT !.flow = f, !.scope = s, !.publish = p]
                     = [[b EXCEPT !.flow = f, !.scope = s] EXCEPT !.publish = p]
  OBVIOUS
<1>3. \A f, s : [b EXCEPT !.flow = f, !.scope = s]
                  = [b EXCEPT !.flow = f, !.scope = s, !.publish = b.publish]
  BY <1>t DEF Tab
<1>4. CASE Review(t)
  <2>1. /\ Is(t, [b EXCEPT !.flow = "checking", !.scope = Current(t), !.publish = b.publish])
        /\ b.active = None
    BY <1>3, <1>4 DEF Review
  <2>2. Current(t) # None
    <3>1. Current(t) \in Scope
      BY <1>t DEF Current, Scope, Tab
    <3> QED BY <3>1, NoneAssumption
  <2> QED BY <1>1, <2>1, <2>2, AfterDialogue
<1>5. CASE CheckFails(t)
  <2>1. Is(t, [b EXCEPT !.flow = "refused", !.scope = None, !.publish = b.publish])
    BY <1>3, <1>5 DEF CheckFails, Idle
  <2> QED BY <1>1, <2>1, AfterDialogue
<1>6. CASE KeepEditing(t)
  <2>1. Is(t, [b EXCEPT !.flow = "idle", !.scope = None, !.publish = None])
    BY <1>2, <1>6 DEF KeepEditing, Idle
  <2> QED BY <1>1, <2>1, AfterDialogue
<1>7. CASE Checked(t)
  <2>1. \/ Is(t, Idle(t, "refused"))
        \/ Is(t, [Idle(t, "refused") EXCEPT !.publish = None])
        \/ Is(t, [b EXCEPT !.flow = "confirmation"])
        \/ Is(t, Idle(t, "idle"))
    BY <1>7 DEF Checked
  <2>2. CASE Is(t, Idle(t, "refused"))
    <3>1. Is(t, [b EXCEPT !.flow = "refused", !.scope = None, !.publish = b.publish])
      BY <1>3, <2>2 DEF Idle
    <3> QED BY <1>1, <3>1, AfterDialogue
  <2>3. CASE Is(t, [Idle(t, "refused") EXCEPT !.publish = None])
    <3>1. Is(t, [b EXCEPT !.flow = "refused", !.scope = None, !.publish = None])
      BY <1>2, <2>3 DEF Idle
    <3> QED BY <1>1, <3>1, AfterDialogue
  <2>4. CASE Is(t, Idle(t, "idle"))
    <3>1. Is(t, [b EXCEPT !.flow = "idle", !.scope = None, !.publish = b.publish])
      BY <1>3, <2>4 DEF Idle
    <3> QED BY <1>1, <3>1, AfterDialogue
  <2>5. CASE Is(t, [b EXCEPT !.flow = "confirmation"])
    <3>1. b.scope # None
      BY <1>t, <1>7 DEF Checked, TabInv, TabTypes
    <3>2. [b EXCEPT !.flow = "confirmation"]
            = [b EXCEPT !.flow = "confirmation", !.scope = b.scope, !.publish = b.publish]
      BY <1>t DEF Tab
    <3>3. Is(t, [b EXCEPT !.flow = "confirmation", !.scope = b.scope, !.publish = b.publish])
      BY <2>5, <3>2
    <3> QED BY <1>1, <3>1, <3>3, AfterDialogue
  <2> QED BY <2>1, <2>2, <2>3, <2>4, <2>5
<1> QED BY <1>4, <1>5, <1>6, <1>7

\* An answer of success is about what is on the screen: whatever else would be of an older
\* revision than what is published.
LEMMA AfterPublishAnswered ==
    ASSUME EditorInv, NEW t \in Tabs, PublishAnswered(t)
    PROVE  EditorInv'
<1> DEFINE b == tab[t]
           a1 == [b EXCEPT !.flow = "published", !.active = None, !.inbox = None]
           a2 == [b EXCEPT !.flow = "refused", !.scope = None, !.active = None, !.inbox = None,
                           !.publish = None]
<1>t. b \in Tab /\ TabInv(b) /\ draft.rev \in Nat
  BY TabFacts
<1>1. /\ UNCHANGED <<server, network>> /\ b.flow = "publishing" /\ b.inbox # None
      /\ \/ b.inbox.kind = "ok" /\ Is(t, a1)
         \/ Is(t, a2)
  BY DEF PublishAnswered, Idle
<1>m. ASSUME NEW a, a.active = None PROVE \A q \in wire : Matches(q, a)
  <2>1. \A q \in wire : q.id # None
    BY NoneAssumption, NumberFacts DEF EditorInv, ServerTypes, Request
  <2> QED BY <1>m, <2>1 DEF Matches
<1>2. CASE b.inbox.kind = "ok" /\ Is(t, a1)
  <2>1. /\ b.publish # None /\ b.publish.rev = b.scope.rev /\ b.active # None
        /\ published # None /\ published.key = b.publish.key /\ b.save # "saving"
    BY <1>t, <1>1, <1>2 DEF TabInv, PublishesAsConfirmed, WaitsForOne
  <2>2. b.publish.rev = draft.rev
    <3>1. b.publish \in Keyed
      BY <2>1 DEF Keyed
    <3> QED BY <2>1, <3>1 DEF EditorInv, KeysInv
  <2>3. /\ b.scope = [rev |-> b.rev, text |-> b.text] /\ b.text = b.base
        /\ b.rev = draft.rev
    <3>1. ~(b.scope.rev < draft.rev)
      BY <1>t, <2>1, <2>2
    <3>2. b.scope = [rev |-> b.rev, text |-> b.text] /\ b.text = b.base
      BY <1>t, <1>1, <3>1 DEF TabInv, PublishesAsConfirmed
    <3>3. b.scope.rev = b.rev
      BY <3>2
    <3> QED BY <2>1, <2>2, <3>2, <3>3
  <2> HIDE DEF b
  <2>4. /\ a1 \in Tab /\ a1.rev = b.rev /\ a1.base = b.base /\ a1.inbox = None
        /\ a1.reload = b.reload /\ a1.save = b.save /\ a1.flow = "published" /\ a1.scope = b.scope
        /\ a1.active = None /\ a1.publish = b.publish /\ a1.text = b.text /\ a1.attempt = b.attempt
    BY <1>t DEF Tab
  <2> HIDE DEF a1
  <2>5. TabInv(a1)
    BY <1>t, <1>1, <2>1, <2>3, <2>4
       DEF TabInv, TabTypes, HoldsRevisions, KnowsItIsBehind, WaitsForOne, PublishesAsConfirmed
  <2> QED BY <1>1, <1>2, <1>m, <2>4, <2>5, TabMoves DEF b
<1>3. CASE Is(t, a2)
  <2> HIDE DEF b
  <2>1. /\ a2 \in Tab /\ a2.rev = b.rev /\ a2.base = b.base /\ a2.inbox = None
        /\ a2.reload = b.reload /\ a2.save = b.save /\ a2.flow = "refused" /\ a2.scope = None
        /\ a2.active = None /\ a2.publish = None /\ a2.attempt = b.attempt
    BY <1>t DEF Tab
  <2> HIDE DEF a2
  <2>2. TabInv(a2)
    BY <1>t, <1>1, <2>1
       DEF TabInv, TabTypes, HoldsRevisions, KnowsItIsBehind, WaitsForOne, PublishesAsConfirmed
  <2> QED BY <1>1, <1>3, <1>m, <2>1, <2>2, TabMoves
<1> QED BY <1>1, <1>2, <1>3

\* A publication no longer waited for may be tried again.
LEMMA AfterPublishTimesOut ==
    ASSUME EditorInv, NEW t \in Tabs, PublishTimesOut(t)
    PROVE  EditorInv'
<1> DEFINE b == tab[t]
<1>t. b \in Tab /\ TabInv(b)
  BY TabFacts
<1>1. PICK flow \in {"unclear", "retryable"} :
        /\ Is(t, [b EXCEPT !.flow = flow, !.active = None, !.inbox = None])
        /\ UNCHANGED <<server, network>> /\ b.flow = "publishing"
  BY DEF PublishTimesOut
<1> DEFINE a == [b EXCEPT !.flow = flow, !.active = None, !.inbox = None]
<1>2. Is(t, a)
  BY <1>1
<1> HIDE DEF b
<1>3. /\ a \in Tab /\ a.rev = b.rev /\ a.base = b.base /\ a.inbox = None
      /\ a.reload = b.reload /\ a.save = b.save /\ a.flow = flow /\ a.scope = b.scope
      /\ a.active = None /\ a.publish = b.publish /\ a.attempt = b.attempt
  BY <1>t DEF Tab
<1> HIDE DEF a
<1>4. TabInv(a)
  BY <1>t, <1>1, <1>3
     DEF TabInv, TabTypes, HoldsRevisions, KnowsItIsBehind, WaitsForOne, PublishesAsConfirmed
<1>5. \A q \in wire : Matches(q, a)
  <2>1. \A q \in wire : q.id # None
    BY NoneAssumption, NumberFacts DEF EditorInv, ServerTypes, Request
  <2> QED BY <1>3, <2>1 DEF Matches
<1> QED BY <1>1, <1>2, <1>3, <1>4, <1>5, TabMoves DEF b

-----------------------------------------------------------------------------
(* Sending *)

\* What a tab sends is of the revision it holds, under a key that stands for it.
LEMMA TabSends ==
    ASSUME EditorInv, NEW t \in Tabs, NEW a, NEW new \in Request,
           Is(t, a), UNCHANGED server, sent < MaxRequests, sent' = sent + 1,
           wire' = wire \cup {new}, new.id = sent + 1, a.active = sent + 1,
           TabInv(a)', Honest(new)', Matches(new, a),
           \/ new.op = "save" /\ a.publish = tab[t].publish
           \/ /\ new.op = "publish" /\ a.publish = [rev |-> new.scope.rev, key |-> new.key]
              /\ a.publish \in Keyed \/ new.key = sent + 1
    PROVE  EditorInv'
<1>t. /\ ServerTypes /\ RevisionsInv /\ KeysInv /\ tab \in [Tabs -> Tab]
      /\ \A u \in Tabs : TabInv(tab[u])
      /\ \A q \in wire : Honest(q) /\ \A u \in Tabs : Matches(q, tab[u])
  BY DEF EditorInv
<1>n. /\ MaxRequests \in Nat /\ sent \in Nat /\ draft.rev \in Nat /\ draft \in Scope
      /\ sent' \in 0..MaxRequests /\ sent' \in Nat /\ sent + 1 # None /\ sent <= sent'
  <2>1. sent \in Nat /\ draft.rev \in Nat /\ draft \in Scope
    BY <1>t, ServerFacts
  <2>2. MaxRequests \in Nat /\ sent + 1 \in Nat
    BY <2>1, NumberFacts
  <2> QED BY <2>1, <2>2, NoneAssumption
<1>1. UNCHANGED <<draft, saved, published>>
  BY DEF server
<1>2. /\ tab' \in [Tabs -> Tab] /\ tab'[t] = a /\ \A u \in Tabs \ {t} : tab'[u] = tab[u]
  BY <1>t DEF Is, TabInv, TabTypes
<1>3. Grows
  BY <1>n, <1>1 DEF Grows
<1>4. ASSUME NEW u \in Tabs PROVE TabInv(tab[u])'
  <2>1. CASE u = t
    BY <1>2, <2>1 DEF TabInv, TabTypes, HoldsRevisions, KnowsItIsBehind, WaitsForOne,
                      PublishesAsConfirmed, Known
  <2>2. CASE u # t
    BY <1>t, <1>2, <1>3, <2>2, TabsStayRight
  <2> QED BY <2>1, <2>2
<1>5. \A q \in wire : Honest(q)'
  BY <1>t, <1>3, RequestsStayRight
<1>6. ASSUME NEW q \in wire', NEW u \in Tabs PROVE Matches(q, tab'[u])
  <2>1. CASE q \in wire
    <3>1. q.id \in Nat /\ q.id <= sent
      BY <1>t, <2>1, NumberFacts DEF ServerTypes, Request, Honest
    <3>2. q.id # sent + 1
      BY <1>n, <3>1
    <3>3. CASE u = t
      BY <1>2, <3>2, <3>3 DEF Matches
    <3>4. CASE u # t
      BY <1>t, <1>2, <2>1, <3>4
    <3> QED BY <3>3, <3>4
  <2>2. CASE q = new
    <3>1. CASE u = t
      BY <1>2, <2>2, <3>1
    <3>2. CASE u # t
      <4>1. tab[u].active # sent + 1
        <5>1. tab[u].active # None => tab[u].active \in Nat /\ tab[u].active <= sent
          BY <1>t, NumberFacts DEF TabInv, WaitsForOne, Tab
        <5> QED BY <1>n, <5>1
      <4> QED BY <1>2, <2>2, <3>2, <4>1 DEF Matches
    <3> QED BY <3>1, <3>2
  <2> QED BY <2>1, <2>2
<1>7. ServerTypes' /\ RevisionsInv'
  BY <1>t, <1>n, <1>1 DEF ServerTypes, RevisionsInv
<1>8. KeysInv'
  <2> DEFINE one == [rev |-> new.scope.rev, key |-> new.key]
  <2>k. \A k \in Keyed : k.key \in Nat
    <3>1. \A q \in wire : q.op = "publish" => q.key \in Nat
      BY <1>t, NumberFacts DEF ServerTypes, Request, Honest
    <3>2. \A u \in Tabs : tab[u].publish # None => tab[u].publish.key \in Nat
      <4> TAKE u \in Tabs
      <4>1. tab[u].publish \in PublishAttempt \cup {None}
        BY <1>t DEF Tab
      <4> QED BY <4>1, NumberFacts DEF PublishAttempt
    <3> QED BY <3>1, <3>2 DEF Keyed
  <2>p. published # None => published.key \in Nat
    BY <1>t, NumberFacts DEF ServerTypes
  <2>1. CASE new.op = "save" /\ a.publish = tab[t].publish
    <3>1. Keyed' \subseteq Keyed
      <4>1. {q \in wire' : q.op = "publish"} = {q \in wire : q.op = "publish"}
        BY <2>1
      <4>2. \A u \in Tabs : tab'[u].publish = tab[u].publish
        BY <1>2, <2>1
      <4> QED BY <4>1, <4>2 DEF Keyed
    <3> QED BY <1>t, <1>n, <1>1, <2>k, <2>p, <3>1 DEF KeysInv
  <2>2. CASE /\ new.op = "publish" /\ a.publish = one
             /\ a.publish \in Keyed \/ new.key = sent + 1
    <3>1. Keyed' \subseteq Keyed \cup {one}
      <4>1. {q \in wire' : q.op = "publish"} = {q \in wire : q.op = "publish"} \cup {new}
        BY <2>2
      <4>2. \A u \in Tabs : tab'[u].publish = tab[u].publish \/ tab'[u].publish = one
        BY <1>2, <2>2
      <4> HIDE DEF one
      <4>3. ASSUME NEW k \in Keyed' PROVE k \in Keyed \/ k = one
        <5>1. CASE \E q \in {q \in wire' : q.op = "publish"} : k = [rev |-> q.scope.rev, key |-> q.key]
          BY <4>1, <5>1 DEF Keyed, one
        <5>2. CASE \E u \in Tabs : k = tab'[u].publish /\ k # None
          BY <4>2, <5>2 DEF Keyed
        <5> QED BY <5>1, <5>2 DEF Keyed
      <4> QED BY <4>3
    <3>2. one.key = new.key
      OBVIOUS
    <3> HIDE DEF one
    <3>3. CASE one \in Keyed
      <4>1. Keyed' \subseteq Keyed
        BY <3>1, <3>3
      <4> QED BY <1>t, <1>n, <1>1, <2>k, <2>p, <4>1 DEF KeysInv
    <3>4. CASE one.key = sent + 1
      <4>1. \A k \in Keyed : k.key # one.key
        BY <1>t, <1>n, <2>k, <3>4 DEF KeysInv
      <4>2. published # None => published.key # one.key
        BY <1>t, <1>n, <2>p, <3>4 DEF KeysInv
      <4>3. \A k \in Keyed' : k.key <= sent'
        BY <1>t, <1>n, <2>k, <3>1, <3>4 DEF KeysInv
      <4>4. \A k, l \in Keyed' : k.key = l.key => k.rev = l.rev
        BY <1>t, <3>1, <4>1 DEF KeysInv
      <4>5. published' # None =>
              /\ published'.key <= sent' /\ published'.text = draft'.text
              /\ \A k \in Keyed' : k.key = published'.key => k.rev = draft'.rev
        BY <1>t, <1>n, <1>1, <2>p, <3>1, <4>2 DEF KeysInv
      <4> QED BY <4>3, <4>4, <4>5 DEF KeysInv
    <3> QED BY <2>2, <3>2, <3>3, <3>4
  <2> QED BY <2>1, <2>2
<1>9. \A q \in wire' : Honest(q)' /\ \A u \in Tabs : Matches(q, tab[u])'
  <2>1. \A q \in wire' : Honest(q)'
    BY <1>5 DEF Honest
  <2> QED BY <1>6, <2>1 DEF Matches
<1> QED BY <1>2, <1>4, <1>7, <1>8, <1>9 DEF EditorInv

\* A save is of what is on the screen, and says what the tab held as saved.
LEMMA AfterSave ==
    ASSUME EditorInv, NEW t \in Tabs, Save(t)
    PROVE  EditorInv'
<1> DEFINE b == tab[t]
           scope == [rev |-> b.rev, text |-> b.text]
           id == sent + 1
           fields == [b EXCEPT !.save = "saving", !.active = id, !.attempt = scope]
           request == [id |-> id, op |-> "save", key |-> None, base |-> b.base, scope |-> scope]
<1>t. b \in Tab /\ TabInv(b) /\ RevisionsInv /\ draft.rev \in Nat /\ sent \in Nat
  BY TabFacts
<1>1. /\ b.active = None /\ b.flow \notin {"checking", "publishing", "published", "unclear"}
      /\ sent < MaxRequests /\ sent' = id /\ wire' = wire \cup {request}
      /\ Is(t, fields) /\ UNCHANGED server
  BY DEF Save, Send, Current, Busy
<1>2. PICK a : a = fields
  OBVIOUS
<1>3. PICK new : new = request
  OBVIOUS
<1>4. id \in Numbers /\ id \in Nat /\ id # None
  <2>1. id \in Numbers /\ id \in Nat
    BY <1>t, <1>1, NumberFacts DEF Numbers
  <2> HIDE DEF id
  <2> QED BY <2>1, NoneAssumption
<1>5. scope \in Scope /\ scope # None /\ scope.rev = b.rev
  <2>1. scope \in Scope /\ scope.rev = b.rev
    BY <1>t DEF Scope, Tab
  <2> HIDE DEF scope
  <2> QED BY <2>1, NoneAssumption
<1>6. /\ new \in Request /\ new.id = id /\ new.op = "save" /\ new.base = b.base /\ new.scope = scope
  <2>1. b.base \in Texts
    BY <1>t DEF Tab
  <2> HIDE DEF id, scope, b
  <2> QED BY <1>3, <1>4, <1>5, <2>1 DEF Request
<1>i. id = sent + 1
  OBVIOUS
<1> HIDE DEF b, scope, id, request
<1>7. /\ a \in Tab /\ a.rev = b.rev /\ a.base = b.base /\ a.inbox = b.inbox /\ a.reload = b.reload
      /\ a.save = "saving" /\ a.flow = b.flow /\ a.scope = b.scope /\ a.active = id
      /\ a.publish = b.publish /\ a.attempt = scope
  BY <1>t, <1>2, <1>4, <1>5 DEF Tab
<1>8. b.inbox = None /\ b.rev <= draft.rev /\ saved[b.rev] = b.base /\ b.rev \in Nat
  BY <1>t, <1>1, NumberFacts DEF TabInv, WaitsForOne, HoldsRevisions, Tab
<1>9. UNCHANGED <<draft, saved, published>>
  BY <1>1 DEF server
<1>10. TabInv(a)'
  <2>1. id <= sent'
    BY <1>1, <1>4
  <2> QED BY <1>t, <1>1, <1>4, <1>5, <1>7, <1>8, <1>9, <2>1
     DEF TabInv, TabTypes, HoldsRevisions, KnowsItIsBehind, WaitsForOne, PublishesAsConfirmed, Known
<1>11. Honest(new)'
  <2>1. draft.rev <= sent + 1
    BY <1>t DEF RevisionsInv
  <2>2. b.rev <= id /\ id <= sent'
    BY <1>t, <1>1, <1>4, <1>8, <1>i, <2>1
  <2> QED BY <1>5, <1>6, <1>8, <1>9, <2>2 DEF Honest
<1>12. Matches(new, a)
  BY <1>1, <1>5, <1>6, <1>7 DEF Matches
<1>13. Is(t, a) /\ wire' = wire \cup {new} /\ a.publish = tab[t].publish
  BY <1>1, <1>2, <1>3, <1>7 DEF b
<1> QED BY <1>1, <1>6, <1>7, <1>10, <1>11, <1>12, <1>13, <1>i, TabSends

\* A publication is of what was confirmed, which is on the screen and saved; its key is that of
\* an earlier attempt for the same revision, or new.
LEMMA AfterPublish ==
    ASSUME EditorInv, NEW t \in Tabs, Publish(t)
    PROVE  EditorInv'
<1> DEFINE b == tab[t]
           id == sent + 1
           same == b.publish # None /\ b.publish.rev = b.scope.rev
           key == IF same THEN b.publish.key ELSE id
           publish == [rev |-> b.scope.rev, key |-> key]
           fields == [b EXCEPT !.flow = "publishing", !.active = id, !.publish = publish]
           request == [id |-> id, op |-> "publish", key |-> key, base |-> b.base, scope |-> b.scope]
<1>t. b \in Tab /\ TabInv(b) /\ RevisionsInv /\ draft.rev \in Nat /\ sent \in Nat
  BY TabFacts
<1>1. /\ b.active = None /\ b.flow \in {"confirmation", "retryable", "unclear"}
      /\ b.text = b.base /\ b.scope = [rev |-> b.rev, text |-> b.text]
      /\ sent < MaxRequests /\ sent' = id /\ wire' = wire \cup {request}
      /\ Is(t, fields) /\ UNCHANGED server
  BY DEF Publish, Send, Intended, Dirty, Current
<1>2. PICK a : a = fields
  OBVIOUS
<1>3. PICK new : new = request
  OBVIOUS
<1>4. id \in Numbers /\ id \in Nat /\ id # None /\ id = sent + 1
  <2>1. id \in Numbers /\ id \in Nat
    BY <1>t, <1>1, NumberFacts DEF Numbers
  <2>2. id = sent + 1
    OBVIOUS
  <2> HIDE DEF id
  <2> QED BY <2>1, <2>2, NoneAssumption
<1>5. b.scope \in Scope /\ b.scope.rev = b.rev /\ b.scope.text = b.text /\ b.scope # None
  <2>1. b.scope \in Scope /\ b.scope.rev = b.rev /\ b.scope.text = b.text
    BY <1>t, <1>1 DEF Scope, Tab
  <2> QED BY <2>1, NoneAssumption
<1> HIDE DEF id
<1>6. /\ key \in Numbers /\ key # None
      /\ same => publish = b.publish
      /\ ~same => key = id
  <2>1. b.publish \in PublishAttempt \cup {None}
    BY <1>t DEF Tab
  <2>2. same => b.publish.key \in Numbers /\ b.publish = [rev |-> b.publish.rev, key |-> b.publish.key]
    BY <2>1 DEF PublishAttempt
  <2>3. key \in Numbers
    BY <1>4, <2>2
  <2>4. same => publish = b.publish
    BY <2>2
  <2>5. ~same => key = id
    OBVIOUS
  <2> HIDE DEF key, publish, same
  <2>6. key # None
    BY <2>3, NoneAssumption, NumberFacts
  <2> QED BY <2>3, <2>4, <2>5, <2>6
<1>7. publish \in Keyed \/ key = id
  <2>1. same => b.publish \in Keyed
    BY DEF Keyed
  <2> HIDE DEF publish, key
  <2> QED BY <1>6, <2>1
<1>8. /\ publish \in PublishAttempt /\ publish # None /\ publish.rev = b.scope.rev
      /\ publish.key = key
  <2> HIDE DEF key, b
  <2>1. publish \in PublishAttempt /\ publish.rev = b.scope.rev /\ publish.key = key
    BY <1>5, <1>6 DEF PublishAttempt, Scope
  <2> HIDE DEF publish
  <2> QED BY <2>1, NoneAssumption
<1>9. /\ new \in Request /\ new.id = id /\ new.op = "publish" /\ new.key = key
      /\ new.scope = b.scope
  <2>1. b.base \in Texts
    BY <1>t DEF Tab
  <2> HIDE DEF b, key
  <2> QED BY <1>3, <1>4, <1>5, <1>6, <2>1 DEF Request
<1>p. publish = [rev |-> b.scope.rev, key |-> key]
  OBVIOUS
<1> HIDE DEF b, publish, key, same, request
<1>10. /\ a \in Tab /\ a.rev = b.rev /\ a.base = b.base /\ a.inbox = b.inbox /\ a.reload = b.reload
       /\ a.save = b.save /\ a.flow = "publishing" /\ a.scope = b.scope /\ a.active = id
       /\ a.publish = publish /\ a.attempt = b.attempt /\ a.text = b.text
  BY <1>t, <1>2, <1>4, <1>8 DEF Tab
<1>11. /\ b.inbox = None /\ b.rev <= draft.rev /\ saved[b.rev] = b.base /\ b.rev \in Nat
       /\ b.save # "saving"
  BY <1>t, <1>1, NumberFacts DEF TabInv, WaitsForOne, HoldsRevisions, Tab
<1>12. UNCHANGED <<draft, saved, published>>
  BY <1>1 DEF server
<1>13. TabInv(a)'
  <2>1. id <= sent'
    BY <1>1, <1>4
  <2> QED BY <1>t, <1>1, <1>4, <1>5, <1>8, <1>10, <1>11, <1>12, <2>1
     DEF TabInv, TabTypes, HoldsRevisions, KnowsItIsBehind, WaitsForOne, PublishesAsConfirmed, Known
<1>14. Honest(new)'
  <2>1. draft.rev <= sent + 1
    BY <1>t DEF RevisionsInv
  <2>2. b.rev <= id /\ id <= sent'
    BY <1>t, <1>1, <1>4, <1>11, <2>1
  <2> QED BY <1>1, <1>5, <1>6, <1>9, <1>11, <1>12, <2>2 DEF Honest
<1>15. Matches(new, a)
  BY <1>8, <1>9, <1>10 DEF Matches
<1>16. /\ Is(t, a) /\ wire' = wire \cup {new}
       /\ a.publish = [rev |-> new.scope.rev, key |-> new.key]
       /\ a.publish \in Keyed \/ new.key = sent + 1
  BY <1>1, <1>2, <1>3, <1>4, <1>7, <1>9, <1>10, <1>p
<1> QED BY <1>1, <1>4, <1>9, <1>10, <1>13, <1>14, <1>15, <1>16, TabSends

-----------------------------------------------------------------------------
(* The server *)

\* An answer to what a tab waits for leaves it right, if it fits what the tab knows.
LEMMA AnswersFit ==
    ASSUME NEW a, TabInv(a)', a.active # None, NEW answer \in Answer, Known(answer)',
           a.save = "saving" /\ answer.kind = "ok" => a.reload = None,
           a.save = "saving" /\ answer.kind = "conflict" => a.rev < draft'.rev,
           a.flow = "publishing" /\ answer.kind = "ok" =>
              published' # None /\ published'.key = a.publish.key
    PROVE  TabInv([a EXCEPT !.inbox = answer])'
<1> DEFINE b == [a EXCEPT !.inbox = answer]
<1>1. a \in Tab
  BY DEF TabInv, TabTypes
<1>2. /\ b \in Tab /\ b.rev = a.rev /\ b.base = a.base /\ b.inbox = answer /\ b.reload = a.reload
      /\ b.save = a.save /\ b.flow = a.flow /\ b.scope = a.scope /\ b.active = a.active
      /\ b.publish = a.publish /\ b.text = a.text /\ b.attempt = a.attempt
  BY <1>1 DEF Tab
<1> HIDE DEF b
<1>3. TabInv(b)'
  BY <1>2 DEF TabInv, TabTypes, HoldsRevisions, KnowsItIsBehind, WaitsForOne, PublishesAsConfirmed,
              Known
<1> QED BY <1>3 DEF b

\* The server takes a request away, and answers who waits for it or nobody.
LEMMA ServerMoves ==
    ASSUME EditorInv, NEW q \in wire, wire' = wire \ {q}, UNCHANGED sent, Grows,
           ServerTypes', RevisionsInv', NEW answer \in Answer, Deliver(q, answer), Known(answer)',
           published # None => published' = published,
           published' # None /\ published = None =>
              q.op = "publish" /\ q.scope.rev = draft'.rev /\ published'.key = q.key
              /\ published'.text = draft'.text,
           \A u \in Tabs : tab[u].active = q.id =>
              /\ tab[u].save = "saving" /\ answer.kind = "ok" => tab[u].reload = None
              /\ tab[u].save = "saving" /\ answer.kind = "conflict" => tab[u].rev < draft'.rev
              /\ tab[u].flow = "publishing" /\ answer.kind = "ok" =>
                    published' # None /\ published'.key = tab[u].publish.key
    PROVE  EditorInv'
<1>t. /\ ServerTypes /\ RevisionsInv /\ KeysInv /\ tab \in [Tabs -> Tab]
      /\ \A u \in Tabs : TabInv(tab[u]) /\ tab[u] \in Tab
      /\ \A r \in wire : Honest(r) /\ \A u \in Tabs : Matches(r, tab[u])
  BY DEF EditorInv
<1>1. q.id # None
  BY <1>t, NoneAssumption, NumberFacts DEF ServerTypes, Request
<1>2. ASSUME NEW u \in Tabs
      PROVE  \/ tab'[u] = tab[u]
             \/ tab[u].active = q.id /\ tab'[u] = [tab[u] EXCEPT !.inbox = answer]
  BY <1>t DEF Deliver
<1>3. ASSUME NEW u \in Tabs
      PROVE  /\ tab'[u] \in Tab /\ tab'[u].active = tab[u].active /\ tab'[u].flow = tab[u].flow
             /\ tab'[u].publish = tab[u].publish /\ tab'[u].scope = tab[u].scope
             /\ tab'[u].save = tab[u].save /\ tab'[u].rev = tab[u].rev
  <2>1. CASE tab'[u] = tab[u]
    BY <1>t, <2>1
  <2>2. CASE tab'[u] = [tab[u] EXCEPT !.inbox = answer]
    <3> DEFINE b == tab[u]
               c == [b EXCEPT !.inbox = answer]
    <3>1. tab'[u] = c /\ b \in Tab
      BY <1>t, <2>2
    <3> HIDE DEF b
    <3>2. /\ c \in Tab /\ c.active = b.active /\ c.flow = b.flow /\ c.publish = b.publish
          /\ c.scope = b.scope /\ c.save = b.save /\ c.rev = b.rev
      BY <3>1 DEF Tab
    <3> QED BY <3>1, <3>2 DEF b
  <2> QED BY <1>2, <2>1, <2>2
<1>4. tab' \in [Tabs -> Tab]
  <2>1. tab' = [u \in Tabs |-> tab'[u]]
    BY <1>t DEF Deliver
  <2> QED BY <1>3, <2>1
<1>5. ASSUME NEW u \in Tabs PROVE TabInv(tab[u])'
  <2> DEFINE b == tab[u]
  <2>0. PICK a : a = b
    OBVIOUS
  <2>1. TabInv(a)'
    BY <1>t, <2>0, TabsStayRight
  <2>2. CASE tab'[u] = b
    BY <2>0, <2>1, <2>2 DEF TabInv, TabTypes, HoldsRevisions, KnowsItIsBehind, WaitsForOne,
                            PublishesAsConfirmed, Known
  <2>3. CASE b.active = q.id /\ tab'[u] = [b EXCEPT !.inbox = answer]
    <3>1. PICK c : c = [a EXCEPT !.inbox = answer]
      OBVIOUS
    <3>2. TabInv([a EXCEPT !.inbox = answer])'
      BY <1>1, <2>0, <2>1, <2>3, AnswersFit
    <3>3. TabInv(c)'
      BY <3>1, <3>2
    <3>4. tab'[u] = c
      BY <2>0, <2>3, <3>1
    <3> QED BY <3>3, <3>4 DEF TabInv, TabTypes, HoldsRevisions, KnowsItIsBehind, WaitsForOne,
                              PublishesAsConfirmed, Known
  <2> QED BY <1>2, <2>2, <2>3
<1>6. \A r \in wire' : Honest(r)'
  BY <1>t, RequestsStayRight
<1>7. \A r \in wire' : Honest(r)' /\ \A u \in Tabs : Matches(r, tab[u])'
  <2>1. ASSUME NEW r \in wire', NEW u \in Tabs PROVE Matches(r, tab[u])'
    <3>1. Matches(r, tab[u])
      BY <1>t
    <3> QED BY <1>3, <3>1 DEF Matches
  <2> QED BY <1>6, <2>1
<1>8. KeysInv'
  <2>1. Keyed' \subseteq Keyed
    <3>1. {r \in wire' : r.op = "publish"} \subseteq {r \in wire : r.op = "publish"}
      OBVIOUS
    <3>2. \A u \in Tabs : tab'[u].publish = tab[u].publish
      BY <1>3
    <3> QED BY <3>1, <3>2 DEF Keyed
  <2>2. \A k \in Keyed' : k.key <= sent'
    BY <1>t, <2>1 DEF KeysInv
  <2>3. \A k, l \in Keyed' : k.key = l.key => k.rev = l.rev
    BY <1>t, <2>1 DEF KeysInv
  <2>4. CASE published # None
    <3>1. published' = published /\ draft' = draft
      BY <2>4 DEF Grows
    <3> QED BY <1>t, <2>1, <2>2, <2>3, <3>1 DEF KeysInv
  <2>5. CASE published = None /\ published' # None
    <3> DEFINE one == [rev |-> q.scope.rev, key |-> q.key]
    <3>1. one \in Keyed
      BY <2>5 DEF Keyed
    <3>2. one.rev = draft'.rev /\ one.key = published'.key
      BY <2>5
    <3> HIDE DEF one
    <3>3. \A k \in Keyed' : k.key = published'.key => k.rev = draft'.rev
      BY <1>t, <2>1, <3>1, <3>2 DEF KeysInv
    <3>4. published'.key <= sent' /\ published'.text = draft'.text
      BY <1>t, <2>5, <3>1, <3>2 DEF KeysInv
    <3> QED BY <2>2, <2>3, <3>3, <3>4 DEF KeysInv
  <2>6. CASE published' = None
    BY <2>2, <2>3, <2>6 DEF KeysInv
  <2> QED BY <2>4, <2>5, <2>6
<1> QED BY <1>4, <1>5, <1>7, <1>8 DEF EditorInv

\* What is known of a request, and of the tab that waits for its answer.
LEMMA RequestFacts ==
    ASSUME EditorInv, NEW q \in wire
    PROVE  /\ ServerTypes /\ RevisionsInv /\ Honest(q) /\ draft \in Scope
           /\ q \in Request /\ q.scope \in Scope /\ q.id \in Nat /\ q.scope.rev \in Nat
           /\ draft.rev \in Nat /\ sent \in Nat /\ MaxRequests \in Nat /\ sent <= MaxRequests
           /\ saved[draft.rev] = draft.text
           /\ \A u \in Tabs : /\ TabInv(tab[u]) /\ tab[u] \in Tab /\ tab[u].rev \in Nat
                              /\ tab[u].active = q.id => Matches(q, tab[u])
<1>1. /\ ServerTypes /\ RevisionsInv /\ Honest(q)
      /\ \A u \in Tabs : TabInv(tab[u]) /\ tab[u] \in Tab /\ Matches(q, tab[u])
  BY DEF EditorInv
<1>2. draft.rev \in Nat /\ sent \in Nat /\ draft \in Scope
  BY <1>1, ServerFacts
<1>3. q \in Request /\ q.scope \in Scope /\ q.id \in Nat
  BY <1>1, NumberFacts DEF ServerTypes, Request
<1>4. q.scope.rev \in Nat
  BY <1>3, NumberFacts DEF Scope
<1>5. MaxRequests \in Nat /\ sent <= MaxRequests
  BY <1>1, NumberFacts DEF ServerTypes
<1>6. \A u \in Tabs : tab[u].rev \in Nat
  BY <1>1, NumberFacts DEF Tab
<1> QED BY <1>1, <1>2, <1>3, <1>4, <1>5, <1>6 DEF RevisionsInv

\* A request that is lost is not answered.
LEMMA AfterLoseRequest ==
    ASSUME EditorInv, NEW q \in wire, LoseRequest(q)
    PROVE  EditorInv'
<1>1. wire' = wire \ {q} /\ UNCHANGED <<draft, saved, published, tab, sent>>
  BY DEF LoseRequest, server
<1>2. /\ ServerTypes /\ RevisionsInv /\ KeysInv /\ tab \in [Tabs -> Tab]
      /\ \A u \in Tabs : TabInv(tab[u])
      /\ \A r \in wire : Honest(r) /\ \A u \in Tabs : Matches(r, tab[u])
  BY DEF EditorInv
<1>3. ServerTypes' /\ RevisionsInv'
  BY <1>1, <1>2 DEF ServerTypes, RevisionsInv
<1>4. \A u \in Tabs : TabInv(tab[u])'
  BY <1>1, <1>2 DEF TabInv, TabTypes, HoldsRevisions, KnowsItIsBehind, WaitsForOne,
                    PublishesAsConfirmed, Known
<1>5. \A r \in wire' : Honest(r)' /\ \A u \in Tabs : Matches(r, tab[u])'
  BY <1>1, <1>2 DEF Honest, Matches
<1>6. KeysInv'
  <2>1. Keyed' \subseteq Keyed
    BY <1>1 DEF Keyed
  <2> QED BY <1>1, <1>2, <2>1 DEF KeysInv
<1> QED BY <1>1, <1>2, <1>3, <1>4, <1>5, <1>6 DEF EditorInv

\* A save of the last revision makes the next; any other is refused.
LEMMA AfterTakeSave ==
    ASSUME EditorInv, NEW q \in wire, TakeSave(q)
    PROVE  EditorInv'
<1>t. /\ ServerTypes /\ RevisionsInv /\ Honest(q) /\ draft \in Scope
      /\ q \in Request /\ q.scope \in Scope /\ q.id \in Nat /\ q.scope.rev \in Nat
      /\ draft.rev \in Nat /\ sent \in Nat /\ MaxRequests \in Nat /\ sent <= MaxRequests
      /\ saved[draft.rev] = draft.text
      /\ \A u \in Tabs : /\ TabInv(tab[u]) /\ tab[u] \in Tab /\ tab[u].rev \in Nat
                         /\ tab[u].active = q.id => Matches(q, tab[u])
  BY RequestFacts
<1>1. /\ q.op = "save" /\ wire' = wire \ {q} /\ UNCHANGED <<published, sent>>
  BY DEF TakeSave
<1>2. CASE published = None /\ draft.rev = q.scope.rev
  <2> DEFINE next == draft.rev + 1
             text == q.scope.text
  <2>1. /\ draft' = [rev |-> next, text |-> text] /\ saved' = [saved EXCEPT ![next] = text]
        /\ Deliver(q, Ok)
    BY <1>2 DEF TakeSave, UpToDate
  <2>2. /\ next \in Revisions /\ next \in Nat /\ text \in Texts /\ next <= sent + 1
        /\ next > draft.rev
    <3>1. draft.rev <= sent
      BY <1>t, <1>2 DEF Honest
    <3> QED BY <1>t, <3>1 DEF Revisions, Scope
  <2> HIDE DEF next, text
  <2>3. draft' \in Scope /\ draft'.rev = next /\ draft'.text = text
    BY <2>1, <2>2 DEF Scope
  <2>4. /\ saved' \in [Revisions -> Texts \cup {None}] /\ saved'[next] = text
        /\ \A r \in Revisions : r # next => saved'[r] = saved[r]
    BY <1>t, <2>1, <2>2 DEF ServerTypes
  <2>5. Grows
    BY <1>t, <1>1, <1>2, <2>2, <2>3, <2>4, NumberFacts DEF Grows
  <2>6. ServerTypes'
    BY <1>t, <1>1, <2>3, <2>4 DEF ServerTypes
  <2>7. RevisionsInv'
    <3>1. \A r \in Revisions : r <= next => r = next \/ r <= draft.rev
      <4>1. next = draft.rev + 1
        BY DEF next
      <4> TAKE r \in Revisions
      <4>2. r \in Nat
        BY NumberFacts
      <4>3. draft.rev \in Nat
        BY <1>t
      <4> QED BY <4>1, <4>2, <4>3
    <3>2. \A r \in Revisions : r <= next => saved'[r] \in Texts
      BY <1>t, <2>2, <2>4, <3>1 DEF RevisionsInv
    <3> QED BY <1>t, <1>1, <2>2, <2>3, <2>4, <3>2 DEF RevisionsInv
  <2>8. PICK answer : answer = Ok
    OBVIOUS
  <2>9. /\ answer \in Answer /\ answer.kind = "ok" /\ answer.rev = next /\ answer.text = text
    BY <2>2, <2>3, <2>8 DEF Ok, Answer
  <2>10. Known(answer)'
    BY <2>2, <2>3, <2>4, <2>9 DEF Known
  <2>11. \A u \in Tabs : tab[u].active = q.id =>
            /\ tab[u].save = "saving" => tab[u].reload = None
            /\ tab[u].flow # "publishing"
    <3> TAKE u \in Tabs
    <3>1. tab[u].active = q.id => tab[u].flow # "publishing" /\ (tab[u].save = "saving" => tab[u].rev = draft.rev)
      BY <1>t, <1>1, <1>2 DEF Matches
    <3>2. tab[u].reload # None => tab[u].rev < draft.rev
      BY <1>t DEF TabInv, KnowsItIsBehind
    <3> QED BY <1>t, <3>1, <3>2
  <2>12. Deliver(q, answer)
    BY <2>1, <2>8
  <2> QED BY <1>1, <1>2, <2>5, <2>6, <2>7, <2>9, <2>10, <2>11, <2>12, ServerMoves
<1>3. CASE ~(published = None /\ draft.rev = q.scope.rev)
  <2>1. PICK kind \in {"conflict", "gone"} :
          /\ Deliver(q, No(kind)) /\ UNCHANGED <<draft, saved>>
          /\ kind = "conflict" => published = None
    BY <1>3 DEF TakeSave, UpToDate
  <2>2. PICK answer : answer = No(kind)
    OBVIOUS
  <2>3. answer \in Answer /\ answer.kind = kind /\ answer.rev = draft.rev /\ answer.text = draft.text
    BY <1>t, <2>2 DEF No, Answer, Scope
  <2>4. Grows
    BY <1>t, <1>1, <2>1 DEF Grows
  <2>5. ServerTypes' /\ RevisionsInv'
    BY <1>t, <1>1, <2>1 DEF ServerTypes, RevisionsInv
  <2>6. Known(answer)'
    BY <1>t, <2>1, <2>3 DEF Known
  <2>7. \A u \in Tabs : tab[u].active = q.id =>
            (tab[u].save = "saving" /\ kind = "conflict" => tab[u].rev < draft'.rev)
    <3> SUFFICES ASSUME NEW u \in Tabs, tab[u].active = q.id, tab[u].save = "saving",
                        kind = "conflict"
                 PROVE  tab[u].rev < draft.rev
      BY <2>1
    <3>1. tab[u].flow # "publishing"
      BY <1>t DEF TabInv, WaitsForOne
    <3>2. q.scope.rev = tab[u].rev
      BY <1>t, <3>1 DEF Matches
    <3>3. q.scope.rev <= draft.rev /\ q.scope.rev # draft.rev
      BY <1>t, <1>3, <2>1 DEF Honest
    <3> QED BY <1>t, <3>2, <3>3
  <2>8. Deliver(q, answer)
    BY <2>1, <2>2
  <2> QED BY <1>1, <2>1, <2>3, <2>4, <2>5, <2>6, <2>7, <2>8, ServerMoves
<1> QED BY <1>2, <1>3

\* A publication of the last revision is carried out once; its key answers those that repeat it.
LEMMA AfterTakePublish ==
    ASSUME EditorInv, NEW q \in wire, TakePublish(q)
    PROVE  EditorInv'
<1>t. /\ ServerTypes /\ RevisionsInv /\ Honest(q) /\ draft \in Scope
      /\ q \in Request /\ q.scope \in Scope /\ q.id \in Nat /\ q.scope.rev \in Nat
      /\ draft.rev \in Nat /\ sent \in Nat
      /\ saved[draft.rev] = draft.text
      /\ \A u \in Tabs : /\ TabInv(tab[u]) /\ tab[u] \in Tab
                         /\ tab[u].active = q.id => Matches(q, tab[u])
  BY RequestFacts
<1>1. /\ q.op = "publish" /\ wire' = wire \ {q} /\ UNCHANGED <<draft, saved, sent>>
      /\ published' = IF published = None /\ draft.rev = q.scope.rev
                      THEN [key |-> q.key, text |-> draft.text] ELSE published
      /\ \E kind \in {"ok", "conflict"} :
            /\ Deliver(q, No(kind))
            /\ kind = "ok" => published' # None /\ published'.key = q.key
  <2>1. UNCHANGED draft => Ok = No("ok")
    BY DEF Ok, No
  <2> QED BY <2>1 DEF TakePublish, UpToDate
<1>2. PICK kind \in {"ok", "conflict"} :
        /\ Deliver(q, No(kind))
        /\ kind = "ok" => published' # None /\ published'.key = q.key
  BY <1>1
<1>3. PICK answer : answer = No(kind)
  OBVIOUS
<1>4. answer \in Answer /\ answer.kind = kind /\ answer.rev = draft.rev /\ answer.text = draft.text
  BY <1>t, <1>3 DEF No, Answer, Scope
<1>5. q.key \in Numbers
  BY <1>t, <1>1 DEF Request, Honest
<1>6. ServerTypes' /\ RevisionsInv'
  <2>1. draft.text \in Texts
    BY <1>t DEF Scope
  <2> QED BY <1>t, <1>1, <1>5, <2>1 DEF ServerTypes, RevisionsInv
<1>7. Grows
  BY <1>t, <1>1 DEF Grows
<1>8. Known(answer)'
  BY <1>t, <1>1, <1>4 DEF Known
<1>9. \A u \in Tabs : tab[u].active = q.id =>
         /\ tab[u].save # "saving"
         /\ tab[u].flow = "publishing" /\ q.key = tab[u].publish.key
  <2> SUFFICES ASSUME NEW u \in Tabs, tab[u].active = q.id
               PROVE  /\ tab[u].save # "saving"
                      /\ tab[u].flow = "publishing" /\ q.key = tab[u].publish.key
    OBVIOUS
  <2>1. tab[u].flow = "publishing" /\ q.key = tab[u].publish.key
    BY <1>t, <1>1 DEF Matches
  <2>2. tab[u].save # "saving"
    BY <1>t, <2>1 DEF TabInv, WaitsForOne
  <2> QED BY <2>1, <2>2
<1>10. /\ published # None => published' = published
       /\ published' # None /\ published = None =>
            q.op = "publish" /\ q.scope.rev = draft'.rev /\ published'.key = q.key
            /\ published'.text = draft'.text
  BY <1>1
<1>11. Deliver(q, answer)
  BY <1>2, <1>3
<1>12. \A u \in Tabs : tab[u].active = q.id =>
         /\ tab[u].save = "saving" /\ answer.kind = "ok" => tab[u].reload = None
         /\ tab[u].save = "saving" /\ answer.kind = "conflict" => tab[u].rev < draft'.rev
         /\ tab[u].flow = "publishing" /\ answer.kind = "ok" =>
               published' # None /\ published'.key = tab[u].publish.key
  BY <1>2, <1>4, <1>9
<1> QED BY <1>1, <1>4, <1>6, <1>7, <1>8, <1>10, <1>11, <1>12, ServerMoves

-----------------------------------------------------------------------------
(* The theorems *)

\* Every step keeps the invariant.
LEMMA EditorPreserved == EditorInv /\ [Next]_vars => EditorInv'
<1> SUFFICES ASSUME EditorInv, [Next]_vars PROVE EditorInv'
  OBVIOUS
<1>1. CASE \E t \in Tabs : EditStep(t)
  BY <1>1, AfterOpenOrClose, AfterType, AfterSave, AfterSaveSucceeds, AfterSaveEnds, AfterReload
     DEF EditStep
<1>2. CASE \E t \in Tabs : PublishStep(t)
  BY <1>2, AfterReview, AfterPublish, AfterPublishAnswered, AfterPublishTimesOut DEF PublishStep
<1>3. CASE \E q \in wire : ServerStep(q)
  BY <1>3, AfterTakeSave, AfterTakePublish, AfterLoseRequest DEF ServerStep
<1>4. CASE UNCHANGED vars
  <2>1. UNCHANGED <<draft, saved, published, tab, wire, sent>>
    BY <1>4 DEF vars
  <2>2. ServerTypes' /\ RevisionsInv' /\ (\A t \in Tabs : TabInv(tab[t])')
    BY <2>1 DEF EditorInv, ServerTypes, RevisionsInv, TabInv, TabTypes, HoldsRevisions,
                KnowsItIsBehind, WaitsForOne, PublishesAsConfirmed, Known
  <2>3. \A q \in wire' : Honest(q)' /\ \A t \in Tabs : Matches(q, tab[t])'
    BY <2>1 DEF EditorInv, Honest, Matches
  <2>4. KeysInv'
    BY <2>1 DEF EditorInv, KeysInv, Keyed
  <2> QED BY <2>1, <2>2, <2>3, <2>4 DEF EditorInv
<1> QED BY <1>1, <1>2, <1>3, <1>4 DEF Next

\* The invariant holds of a draft just made, with no tab open.
LEMMA EditorStarts == Init => EditorInv
<1> SUFFICES ASSUME Init PROVE EditorInv
  OBVIOUS
<1>1. PICK x \in Texts : /\ draft = [rev |-> 1, text |-> x]
                         /\ saved = [r \in Revisions |-> IF r = 1 THEN x ELSE None]
  BY DEF Init
<1>2. published = None /\ tab = [t \in Tabs |-> Closed] /\ wire = {} /\ sent = 0
  BY DEF Init
<1>3. draft \in Scope /\ draft.rev = 1 /\ draft.text = x /\ saved[1] = x /\ Known(draft)
  BY <1>1, NumberFacts DEF Scope, Known
<1>4. Closed = [Fresh(draft) EXCEPT !.open = FALSE]
  <2>1. [rev |-> 1, text |-> saved[1]] = draft
    BY <1>1, <1>3
  <2> QED BY <2>1 DEF Closed
<1>5. TabInv(Closed) /\ Closed.active = None /\ Closed.publish = None
  BY <1>3, <1>4, FreshFacts
<1>6. tab \in [Tabs -> Tab] /\ \A t \in Tabs : TabInv(tab[t]) /\ tab[t].publish = None
  <2>1. Closed \in Tab
    BY <1>5 DEF TabInv, TabTypes
  <2> QED BY <1>2, <1>5, <2>1
<1>7. ServerTypes
  <2>1. sent \in 0..MaxRequests
    BY <1>2, NumberFacts
  <2>2. saved \in [Revisions -> Texts \cup {None}]
    BY <1>1
  <2> QED BY <1>2, <1>3, <2>1, <2>2 DEF ServerTypes
<1>8. RevisionsInv
  <2>1. \A r \in Revisions : r <= 1 => r = 1
    BY NumberFacts
  <2> QED BY <1>2, <1>3, <2>1 DEF RevisionsInv
<1>9. KeysInv
  <2>1. Keyed = {}
    BY <1>2, <1>6 DEF Keyed
  <2> QED BY <1>2, <2>1 DEF KeysInv
<1> QED BY <1>2, <1>6, <1>7, <1>8, <1>9 DEF EditorInv

\* The inductive invariant: what a tab holds and waits for, what a request says and what a
\* key stands for.
THEOREM Invariance == Spec => []EditorInv
BY EditorStarts, EditorPreserved, PTL DEF Spec

\* The draft, the publication, the tabs and the requests keep their shape.
THEOREM TypeCorrect == Spec => []TypeOK
<1>1. EditorInv => TypeOK
  BY DEF EditorInv, ServerTypes, TabInv, TabTypes, TypeOK
<1> QED BY <1>1, Invariance, PTL

\* A tab without unsaved changes shows the text saved under its revision
\* (recipe-draft-editor-state.ts, save-succeeded and reload-succeeded).
THEOREM CleanTabsShowTheSaved == Spec => []CleanTabsAreSaved
<1>1. EditorInv => CleanTabsAreSaved
  BY DEF EditorInv, TabInv, HoldsRevisions, CleanTabsAreSaved, Dirty
<1> QED BY <1>1, Invariance, PTL

\* A save that would replace a text its tab had not seen is refused
\* (replace_recipe_draft, expected revision).
THEOREM OverwritesAreSeen == Spec => NoSilentOverwrite
<1>1. EditorInv /\ [Next]_vars =>
        [draft'.rev # draft.rev =>
            \E q \in wire \ wire' : q.op = "save" /\ q.base = draft.text]_vars
  <2> SUFFICES ASSUME EditorInv, Next, draft'.rev # draft.rev
               PROVE  \E q \in wire \ wire' : q.op = "save" /\ q.base = draft.text
    BY DEF vars
  <2>1. PICK q \in wire : TakeSave(q)
    BY DEF Next, EditStep, PublishStep, ServerStep, Open, Close, Type, Save, SaveSucceeds, SaveFails,
           SaveTimesOut, Reload, Reloaded, Review, Checked, CheckFails, Publish, PublishAnswered,
           PublishTimesOut, KeepEditing, TakePublish, LoseRequest, server
  <2>2. q.op = "save" /\ q \in wire \ wire' /\ q.scope.rev = draft.rev
    BY <2>1 DEF TakeSave, UpToDate
  <2>3. q.base = saved[draft.rev] /\ saved[draft.rev] = draft.text
    BY <2>2 DEF EditorInv, Honest, RevisionsInv
  <2> QED BY <2>2, <2>3
<1> QED BY <1>1, Invariance, PTL DEF Spec, NoSilentOverwrite

\* What a member confirmed is what is published, and the tab that says so shows it
\* (recipe-draft-publication.tsx; publish_recipe_draft, expected revision).
THEOREM PublishesTheConfirmed == Spec => PublishedAsConfirmed
<1> DEFINE Shown == \A t \in Tabs : tab[t].flow = "published" =>
                       /\ published # None
                       /\ published.text = tab[t].scope.text /\ published.text = tab[t].text
<1>1. EditorInv /\ [Next]_vars =>
        [published # published' =>
            \E q \in wire \ wire' : q.op = "publish" /\ q.scope.text = published'.text]_vars
  <2> SUFFICES ASSUME EditorInv, Next, published # published'
               PROVE  \E q \in wire \ wire' : q.op = "publish" /\ q.scope.text = published'.text
    BY DEF vars
  <2>1. PICK q \in wire : TakePublish(q)
    BY DEF Next, EditStep, PublishStep, ServerStep, Open, Close, Type, Save, SaveSucceeds, SaveFails,
           SaveTimesOut, Reload, Reloaded, Review, Checked, CheckFails, Publish, PublishAnswered,
           PublishTimesOut, KeepEditing, TakeSave, LoseRequest, server
  <2>2. /\ q.op = "publish" /\ q \in wire \ wire' /\ q.scope.rev = draft.rev
        /\ published'.text = draft.text
    BY <2>1 DEF TakePublish, UpToDate
  <2>3. q.scope.text = saved[draft.rev] /\ saved[draft.rev] = draft.text
    BY <2>2 DEF EditorInv, Honest, RevisionsInv
  <2> QED BY <2>2, <2>3
<1>2. EditorInv => Shown
  <2> SUFFICES ASSUME EditorInv, NEW t \in Tabs, tab[t].flow = "published"
               PROVE  /\ published # None
                      /\ published.text = tab[t].scope.text /\ published.text = tab[t].text
    OBVIOUS
  <2>1. /\ published # None /\ tab[t].scope = [rev |-> tab[t].rev, text |-> tab[t].text]
        /\ tab[t].text = tab[t].base /\ tab[t].rev = draft.rev
    BY DEF EditorInv, TabInv, PublishesAsConfirmed
  <2>2. saved[draft.rev] = tab[t].base /\ saved[draft.rev] = draft.text /\ published.text = draft.text
    BY <2>1 DEF EditorInv, TabInv, HoldsRevisions, RevisionsInv, KeysInv
  <2>3. tab[t].scope.text = tab[t].text
    BY <2>1
  <2> QED BY <2>1, <2>2, <2>3
<1> HIDE DEF Shown
<1>3. Spec => [][published # published' =>
            \E q \in wire \ wire' : q.op = "publish" /\ q.scope.text = published'.text]_vars
  BY <1>1, Invariance, PTL DEF Spec
<1>4. Spec => []Shown
  BY <1>2, Invariance, PTL
<1> QED BY <1>3, <1>4 DEF PublishedAsConfirmed, Shown

===============================================================================
