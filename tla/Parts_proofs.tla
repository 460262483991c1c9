----------------------------- MODULE Parts_proofs -----------------------------
(***************************************************************************)
(* Proofs about the four small modules MemberInteractions, DraftCreation,   *)
(* AbuseLimits and SandboxSupervisor, one after the other: for every number *)
(* of pages, tabs, workers and supervisors, and however long they run.      *)
(***************************************************************************)
EXTENDS MemberInteractions, DraftCreation, AbuseLimits, SandboxSupervisor, FiniteSetTheorems,
        SequenceTheorems, TLAPS

-----------------------------------------------------------------------------
(* MemberInteractions: types *)

Stored == [save : {0, 1}, rating : Ratings \cup {0}]
Attempt == [value : Nat \cup {None}, key : Nat]
Page == [shown : Stored, attempt : [Kinds -> Attempt], pending : Nat, settled : BOOLEAN]

\* The values a page can ask for.
Values(kind) == IF kind = "save" THEN {0, 1} ELSE Ratings \cup {0}

\* What is stored, remembered and on its way is well formed, and its numbers were given.
InteractionTypes ==
    /\ row \in Stored /\ clicks \in Nat
    /\ pages \in [Pages -> Page]
    /\ \A p \in Pages, k \in Kinds : LET asked == pages[p].attempt[k] IN
          /\ asked.key <= clicks
          /\ IF asked.key = 0 THEN asked.value = None ELSE asked.value \in Values(k)
    /\ \A r \in requests : /\ r.page \in Pages /\ r.kind \in Kinds /\ r.value \in Values(r.kind)
                           /\ r.click \in 1..clicks /\ r.key \in 1..clicks
    /\ \A a \in answers : a.page \in Pages /\ a.row \in Stored /\ a.click \in 1..clicks
    /\ \A e \in events : e.key \in 1..clicks

-----------------------------------------------------------------------------
(* MemberInteractions: the invariant *)

SaveOf(p) == pages[p].attempt["save"]
Unsaving(p) == SaveOf(p).key = 0
Alone(p) == \A q \in Pages \ {p} : Unsaving(q)

\* The save last asked for was carried out.
Recorded(p) == \E e \in events : e.kind = "save" /\ e.key = SaveOf(p).key

\* Until it is, what is stored is what is shown; from then on it is what was asked for.
AskedOrShown(p) ==
    /\ Recorded(p) => row.save = SaveOf(p).value
    /\ ~Recorded(p) => /\ row.save = pages[p].shown.save /\ SaveOf(p).value # pages[p].shown.save
                       /\ ~pages[p].settled
    /\ pages[p].settled => row.save = pages[p].shown.save

\* A request that can still change what is stored repeats the save last asked for.
Repeats(p) ==
    \A r \in requests : r.kind = "save" =>
        /\ r.page = p
        /\ SameKey(r) = {} => r.key = SaveOf(p).key /\ r.value = SaveOf(p).value

\* The answer a page waits for shows what is stored, unless a save was carried out since,
\* which it cannot be after the answer to a save.
AnswersAreNew(p) ==
    \A a \in answers : a.page = p /\ a.click = pages[p].pending =>
        /\ ~Recorded(p) => a.row.save = row.save /\ a.kind # "save"
        /\ pages[p].settled \/ a.kind = "save" => a.row.save = row.save

\* The request a page waits for carries the key it remembers.
PendingInv ==
    \A r \in requests : r.click = pages[r.page].pending => r.key = pages[r.page].attempt[r.kind].key

SavesInv == /\ InteractionTypes
            /\ PendingInv
            /\ \A r \in requests : r.kind = "save" => ~Unsaving(r.page)
            /\ \A p \in Pages : Alone(p) => AskedOrShown(p) /\ Repeats(p) /\ AnswersAreNew(p)

-----------------------------------------------------------------------------
(* MemberInteractions: what the steps do *)

\* What a click does.
Clicked(p, kind, value, key) ==
    /\ \/ key = pages[p].attempt[kind].key /\ value = pages[p].attempt[kind].value
       \/ key = clicks + 1 /\ value # pages[p].attempt[kind].value
    /\ pages' \in [Pages -> Page]
    /\ \A q \in Pages \ {p} : pages'[q] = pages[q]
    /\ pages'[p].shown = pages[p].shown /\ pages'[p].pending = clicks + 1
    /\ pages'[p].settled = IF kind = "save" THEN FALSE ELSE pages[p].settled
    /\ pages'[p].attempt[kind].key = key /\ pages'[p].attempt[kind].value = value
    /\ \A k \in Kinds \ {kind} : pages'[p].attempt[k] = pages[p].attempt[k]
    /\ \E q : /\ requests' = requests \cup {q}
              /\ q.page = p /\ q.click = clicks + 1 /\ q.kind = kind
              /\ q.value = value /\ q.key = key
    /\ UNCHANGED <<row, events, answers>> /\ clicks' = clicks + 1

\* A click remembers a value under a key, and sends both.
LEMMA ClickFacts ==
    ASSUME SavesInv, NEW p \in Pages, NEW kind \in Kinds, NEW value \in Values(kind),
           Click(p, kind, value)
    PROVE  \E key \in 1..(clicks + 1) : Clicked(p, kind, value, key)
<1> DEFINE key == KeyFor(p, kind, value)
           new == [value |-> value, key |-> key]
           settled == IF kind = "save" THEN FALSE ELSE pages[p].settled
           tries == [pages[p].attempt EXCEPT ![kind] = new]
           t == [pages[p] EXCEPT !.attempt = tries, !.pending = clicks + 1, !.settled = settled]
           q == [page |-> p, click |-> clicks + 1, kind |-> kind, value |-> value, key |-> key]
<1>t. /\ clicks \in Nat /\ pages[p] \in Page /\ pages \in [Pages -> Page]
      /\ pages[p].attempt[kind].key <= clicks /\ pages[p].attempt[kind].key \in Nat
      /\ pages[p].attempt[kind].key = 0 => pages[p].attempt[kind].value = None
  BY DEF SavesInv, InteractionTypes, Page, Attempt
<1>v. value \in Nat /\ value # None
  BY RatingsAssumption DEF Values
<1>1. \/ key = pages[p].attempt[kind].key /\ value = pages[p].attempt[kind].value
      \/ key = clicks + 1 /\ value # pages[p].attempt[kind].value
  BY DEF KeyFor
<1>2. key \in 1..(clicks + 1)
  <2> HIDE DEF key
  <2> QED BY <1>t, <1>v, <1>1
<1>3. pages' = [pages EXCEPT ![p] = t] /\ requests' = requests \cup {q} /\ clicks' = clicks + 1
      /\ UNCHANGED <<row, events, answers>>
  BY DEF Click
<1> HIDE DEF key
<1>4. new \in Attempt /\ new.key = key /\ new.value = value
  BY <1>2, <1>v, <1>t DEF Attempt
<1> HIDE DEF new
<1>5. settled \in BOOLEAN
  BY <1>t DEF Page
<1>a. tries \in [Kinds -> Attempt] /\ tries[kind] = new
      /\ \A k \in Kinds \ {kind} : tries[k] = pages[p].attempt[k]
  BY <1>t, <1>4 DEF Page
<1> HIDE DEF settled, tries
<1>b. clicks + 1 \in Nat
  BY <1>t
<1>6. /\ t \in Page /\ t.shown = pages[p].shown /\ t.pending = clicks + 1 /\ t.settled = settled
      /\ t.attempt = tries
  BY <1>t, <1>b, <1>5, <1>a DEF Page
<1> HIDE DEF t
<1>7. pages'[p] = t /\ pages' \in [Pages -> Page] /\ \A o \in Pages \ {p} : pages'[o] = pages[o]
  BY <1>t, <1>3, <1>6
<1>8. q.page = p /\ q.click = clicks + 1 /\ q.kind = kind /\ q.value = value /\ q.key = key
  OBVIOUS
<1> HIDE DEF q
<1>9. settled = IF kind = "save" THEN FALSE ELSE pages[p].settled
  BY DEF settled
<1> QED BY <1>1, <1>2, <1>3, <1>4, <1>a, <1>6, <1>7, <1>8, <1>9 DEF Clicked

\* A page that shows something else, or waits no longer, remembers what it asked for.
LEMMA ShowFacts ==
    ASSUME SavesInv, NEW p \in Pages, NEW state \in Stored, NEW flag \in BOOLEAN, NEW number \in Nat,
           pages' = [pages EXCEPT ![p].shown = state, ![p].pending = number, ![p].settled = flag]
    PROVE  /\ pages' \in [Pages -> Page]
           /\ pages'[p].shown = state /\ pages'[p].pending = number /\ pages'[p].settled = flag
           /\ pages'[p].attempt = pages[p].attempt
           /\ \A q \in Pages \ {p} : pages'[q] = pages[q]
<1> DEFINE t == [pages[p] EXCEPT !.shown = state, !.pending = number, !.settled = flag]
<1>1. pages[p] \in Page /\ pages \in [Pages -> Page]
  BY DEF SavesInv, InteractionTypes
<1>2. pages' = [pages EXCEPT ![p] = t]
  OBVIOUS
<1>3. t \in Page /\ t.shown = state /\ t.pending = number /\ t.settled = flag
      /\ t.attempt = pages[p].attempt
  BY <1>1 DEF Page
<1> HIDE DEF t
<1> QED BY <1>1, <1>2, <1>3

\* The three steps by which a page comes to show something else, or waits no longer.
LEMMA PageSteps ==
    ASSUME SavesInv, NEW p \in Pages, Receive(p) \/ GiveUp(p) \/ FetchViewerState(p)
    PROVE  /\ pages' \in [Pages -> Page]
           /\ pages'[p].attempt = pages[p].attempt /\ pages'[p].pending = 0
           /\ \A q \in Pages \ {p} : pages'[q] = pages[q]
           /\ \/ pages'[p].shown = row /\ pages'[p].settled = pages[p].settled
              \/ pages'[p].shown = pages[p].shown /\ pages'[p].settled = pages[p].settled
              \/ \E a \in answers :
                   /\ a.page = p /\ a.click = pages[p].pending
                   /\ pages'[p].shown = a.row
                   /\ pages'[p].settled = (pages[p].settled \/ a.kind = "save")
           /\ answers' \subseteq answers
           /\ UNCHANGED <<row, events, requests, clicks>>
<1>t. pages[p] \in Page /\ pages \in [Pages -> Page] /\ row \in Stored
      /\ \A a \in answers : a.row \in Stored
  BY DEF SavesInv, InteractionTypes
<1>1. ASSUME NEW a \in answers, a.page = p, a.click = pages[p].pending,
             pages' = [pages EXCEPT ![p].shown = a.row, ![p].pending = 0,
                                    ![p].settled = @ \/ a.kind = "save"]
      PROVE  /\ pages' \in [Pages -> Page]
             /\ pages'[p].attempt = pages[p].attempt /\ pages'[p].pending = 0
             /\ \A q \in Pages \ {p} : pages'[q] = pages[q]
             /\ pages'[p].shown = a.row
             /\ pages'[p].settled = (pages[p].settled \/ a.kind = "save")
  <2> DEFINE flag == pages[p].settled \/ a.kind = "save"
  <2>1. flag \in BOOLEAN /\ a.row \in Stored /\ 0 \in Nat
    BY <1>t
  <2>2. pages' = [pages EXCEPT ![p].shown = a.row, ![p].pending = 0, ![p].settled = flag]
    BY <1>1
  <2> HIDE DEF flag
  <2>3. /\ pages' \in [Pages -> Page]
        /\ pages'[p].shown = a.row /\ pages'[p].pending = 0 /\ pages'[p].settled = flag
        /\ pages'[p].attempt = pages[p].attempt
        /\ \A q \in Pages \ {p} : pages'[q] = pages[q]
    BY <2>1, <2>2, ShowFacts
  <2> QED BY <2>3 DEF flag
<1>2. CASE Receive(p)
  <2>1. PICK a \in answers :
          /\ a.page = p /\ a.click = pages[p].pending
          /\ pages' = [pages EXCEPT ![p].shown = a.row, ![p].pending = 0,
                                    ![p].settled = @ \/ a.kind = "save"]
          /\ answers' = answers \ {a}
          /\ UNCHANGED <<row, events, requests, clicks>>
    BY <1>2 DEF Receive
  <2> QED BY <1>1, <2>1
<1>3. CASE GiveUp(p)
  <2> DEFINE t == [pages[p] EXCEPT !.pending = 0]
  <2>1. pages' = [pages EXCEPT ![p] = t] /\ answers' \subseteq answers
        /\ UNCHANGED <<row, events, requests, clicks>>
    BY <1>3 DEF GiveUp
  <2>2. t \in Page /\ t.attempt = pages[p].attempt /\ t.pending = 0
        /\ t.shown = pages[p].shown /\ t.settled = pages[p].settled
    BY <1>t DEF Page
  <2> HIDE DEF t
  <2> QED BY <1>t, <2>1, <2>2
<1>4. CASE FetchViewerState(p)
  <2> DEFINE t == [pages[p] EXCEPT !.shown = row]
  <2>1. pages' = [pages EXCEPT ![p] = t] /\ pages[p].pending = 0 /\ answers' \subseteq answers
        /\ UNCHANGED <<row, events, requests, clicks>>
    BY <1>4 DEF FetchViewerState
  <2>2. t \in Page /\ t.attempt = pages[p].attempt /\ t.pending = pages[p].pending
        /\ t.shown = row /\ t.settled = pages[p].settled
    BY <1>t DEF Page
  <2> HIDE DEF t
  <2> QED BY <1>t, <2>1, <2>2
<1> QED BY <1>2, <1>3, <1>4

\* Carrying out a request stores its value under its key, once.
LEMMA ExecuteFacts ==
    ASSUME SavesInv, Execute
    PROVE  \E r \in requests :
             /\ row' \in Stored
             /\ SameKey(r) # {} \/ r.kind # "save" => row'.save = row.save
             /\ SameKey(r) = {} /\ r.kind = "save" => row'.save = r.value
             /\ \E e : /\ events' = events \cup {e} /\ e.kind = r.kind /\ e.key = r.key
             /\ requests' = requests \ {r}
             /\ \/ answers' = answers
                \/ \E a : /\ answers' = answers \cup {a}
                          /\ r.click = pages[r.page].pending
                          /\ a.page = r.page /\ a.click = r.click /\ a.kind = r.kind /\ a.row = row'
             /\ UNCHANGED <<pages, clicks>>
<1>1. PICK r \in requests :
        /\ row' = IF SameKey(r) # {} THEN row ELSE [row EXCEPT ![r.kind] = r.value]
        /\ events' = events \cup {[kind |-> r.kind, key |-> r.key, value |-> r.value]}
        /\ answers' = IF pages[r.page].pending # r.click THEN answers
                      ELSE answers \cup {[page |-> r.page, click |-> r.click, kind |-> r.kind,
                                          row |-> IF SameKey(r) # {} THEN row
                                                  ELSE [row EXCEPT ![r.kind] = r.value]]}
        /\ requests' = requests \ {r}
        /\ UNCHANGED <<pages, clicks>>
  BY DEF Execute
<1> DEFINE new == [row EXCEPT ![r.kind] = r.value]
<1>2. /\ new \in Stored
      /\ r.kind = "save" => new.save = r.value
      /\ r.kind # "save" => new.save = row.save
  <2>1. row \in Stored /\ r.kind \in Kinds /\ r.value \in Values(r.kind)
    BY DEF SavesInv, InteractionTypes
  <2>2. CASE r.kind = "save"
    BY <2>1, <2>2 DEF Stored, Values
  <2>3. CASE r.kind = "rating"
    BY <2>1, <2>3 DEF Stored, Values
  <2> QED BY <2>1, <2>2, <2>3 DEF Kinds
<1> DEFINE e == [kind |-> r.kind, key |-> r.key, value |-> r.value]
           a == [page |-> r.page, click |-> r.click, kind |-> r.kind, row |-> row']
<1>3. e.kind = r.kind /\ e.key = r.key
  OBVIOUS
<1>4. a.page = r.page /\ a.click = r.click /\ a.kind = r.kind /\ a.row = row'
  OBVIOUS
<1>5. events' = events \cup {e}
  BY <1>1
<1>6. answers' = answers \/ (answers' = answers \cup {a} /\ r.click = pages[r.page].pending)
  BY <1>1
<1>7. row' = IF SameKey(r) # {} THEN row ELSE new
  BY <1>1
<1> HIDE DEF e, a, new
<1>8. row \in Stored
  BY DEF SavesInv, InteractionTypes
<1> QED BY <1>1, <1>2, <1>3, <1>4, <1>5, <1>6, <1>7, <1>8

\* Steps are clicks, of one of three kinds, and the others.
LEMMA InteractionSteps ==
    ASSUME SavesInv, [Next]_vars
    PROVE  \/ UNCHANGED vars
           \/ \E p \in Pages, kind \in Kinds : \E value \in Values(kind) :
                 /\ Click(p, kind, value)
                 /\ kind = "save" => value = 1 - pages[p].shown.save
           \/ \E p \in Pages : Receive(p) \/ GiveUp(p) \/ FetchViewerState(p)
           \/ Execute \/ Drop
<1>1. ASSUME NEW p \in Pages
      PROVE  1 - pages[p].shown.save \in Values("save") /\ Ratings \cup {0} = Values("rating")
  BY DEF SavesInv, InteractionTypes, Page, Stored, Values
<1>2. "save" \in Kinds /\ "rating" \in Kinds
  BY DEF Kinds
<1> QED BY <1>1, <1>2 DEF Next, ToggleSave, Rate, RemoveRating

\* Rows, pages and requests keep their shape.
LEMMA InteractionTypesPreserved == SavesInv /\ [Next]_vars => InteractionTypes'
<1> SUFFICES ASSUME SavesInv, [Next]_vars PROVE InteractionTypes'
  OBVIOUS
<1>t. InteractionTypes
  BY DEF SavesInv
<1>1. CASE UNCHANGED vars \/ Drop
  BY <1>t, <1>1 DEF vars, Drop, InteractionTypes
<1>2. ASSUME NEW p \in Pages, NEW kind \in Kinds, NEW value \in Values(kind), Click(p, kind, value)
      PROVE  InteractionTypes'
  <2>0. PICK key \in 1..(clicks + 1) : Clicked(p, kind, value, key)
    BY <1>2, ClickFacts
  <2>1. /\ key = clicks + 1 \/ key = pages[p].attempt[kind].key
        /\ pages' \in [Pages -> Page]
        /\ \A q \in Pages \ {p} : pages'[q] = pages[q]
        /\ pages'[p].attempt[kind].key = key /\ pages'[p].attempt[kind].value = value
        /\ \A k \in Kinds \ {kind} : pages'[p].attempt[k] = pages[p].attempt[k]
        /\ \E q : /\ requests' = requests \cup {q}
                  /\ q.page = p /\ q.click = clicks + 1 /\ q.kind = kind
                  /\ q.value = value /\ q.key = key
        /\ UNCHANGED <<row, events, answers>> /\ clicks' = clicks + 1
    BY <2>0 DEF Clicked
  <2>2. clicks \in Nat
    BY <1>t DEF InteractionTypes
  <2>3. ASSUME NEW o \in Pages, NEW k \in Kinds
        PROVE  LET asked == pages'[o].attempt[k] IN
               /\ asked.key <= clicks'
               /\ IF asked.key = 0 THEN asked.value = None ELSE asked.value \in Values(k)
    <3>1. CASE o = p /\ k = kind
      BY <2>1, <2>2, <3>1
    <3>2. CASE ~(o = p /\ k = kind)
      <4>1. pages'[o].attempt[k] = pages[o].attempt[k]
        BY <2>1, <3>2
      <4>2. pages[o].attempt[k].key \in Nat
        BY <1>t DEF InteractionTypes, Page, Attempt
      <4> QED BY <1>t, <2>1, <2>2, <4>1, <4>2 DEF InteractionTypes
    <3> QED BY <3>1, <3>2
  <2>4. \A r \in requests' : /\ r.page \in Pages /\ r.kind \in Kinds /\ r.value \in Values(r.kind)
                             /\ r.click \in 1..clicks' /\ r.key \in 1..clicks'
    BY <1>t, <2>1, <2>2 DEF InteractionTypes
  <2>5. (\A a \in answers' : a.page \in Pages /\ a.row \in Stored /\ a.click \in 1..clicks')
        /\ (\A e \in events' : e.key \in 1..clicks')
    BY <1>t, <2>1, <2>2 DEF InteractionTypes
  <2>6. \A o \in Pages, k \in Kinds :
          /\ pages'[o].attempt[k].key <= clicks'
          /\ IF pages'[o].attempt[k].key = 0 THEN pages'[o].attempt[k].value = None
             ELSE pages'[o].attempt[k].value \in Values(k)
    BY <2>3
  <2> QED BY <1>t, <2>1, <2>2, <2>4, <2>5, <2>6 DEF InteractionTypes, Values
<1>3. ASSUME NEW p \in Pages, Receive(p) \/ GiveUp(p) \/ FetchViewerState(p)
      PROVE  InteractionTypes'
  <2>1. /\ pages' \in [Pages -> Page] /\ answers' \subseteq answers
        /\ UNCHANGED <<row, events, requests, clicks>>
        /\ \A q \in Pages : pages'[q].attempt = pages[q].attempt
    BY <1>3, PageSteps
  <2> QED BY <1>t, <2>1 DEF InteractionTypes
<1>4. CASE Execute
  <2>1. PICK r \in requests :
             /\ row' \in Stored
             /\ \E e : /\ events' = events \cup {e} /\ e.kind = r.kind /\ e.key = r.key
             /\ requests' = requests \ {r}
             /\ \/ answers' = answers
                \/ \E a : /\ answers' = answers \cup {a}
                          /\ a.page = r.page /\ a.click = r.click /\ a.row = row'
             /\ UNCHANGED <<pages, clicks>>
    BY <1>4, ExecuteFacts
  <2>2. /\ \A a \in answers' : a.page \in Pages /\ a.row \in Stored /\ a.click \in 1..clicks
        /\ \A e \in events' : e.key \in 1..clicks
    BY <1>t, <2>1 DEF InteractionTypes
  <2> QED BY <1>t, <2>1, <2>2 DEF InteractionTypes
<1> QED BY <1>1, <1>2, <1>3, <1>4, InteractionSteps

\* The part about the page that saves alone: what a step of any page or of the server
\* leaves true of it.
AloneInv(p) == Alone(p) => AskedOrShown(p) /\ Repeats(p) /\ AnswersAreNew(p)

\* A click leaves a page that is alone right about its save: it repeats its last choice
\* with its key, or has a new key.
LEMMA AloneAfterClick ==
    ASSUME SavesInv, NEW p \in Pages, NEW o \in Pages, NEW kind \in Kinds, NEW value \in Values(kind),
           Click(o, kind, value), kind = "save" => value = 1 - pages[o].shown.save
    PROVE  AloneInv(p)'
<1> SUFFICES ASSUME Alone(p)' PROVE (AskedOrShown(p) /\ Repeats(p) /\ AnswersAreNew(p))'
  BY DEF AloneInv
<1>0. PICK key \in 1..(clicks + 1) : Clicked(o, kind, value, key)
  BY ClickFacts
<1>1. /\ \/ key = pages[o].attempt[kind].key /\ value = pages[o].attempt[kind].value
         \/ key = clicks + 1 /\ value # pages[o].attempt[kind].value
      /\ pages' \in [Pages -> Page]
      /\ \A q \in Pages \ {o} : pages'[q] = pages[q]
      /\ pages'[o].shown = pages[o].shown /\ pages'[o].pending = clicks + 1
      /\ pages'[o].settled = IF kind = "save" THEN FALSE ELSE pages[o].settled
      /\ pages'[o].attempt[kind].key = key /\ pages'[o].attempt[kind].value = value
      /\ \A k \in Kinds \ {kind} : pages'[o].attempt[k] = pages[o].attempt[k]
      /\ \E q : /\ requests' = requests \cup {q}
                /\ q.page = o /\ q.click = clicks + 1 /\ q.kind = kind
                /\ q.value = value /\ q.key = key
      /\ UNCHANGED <<row, events, answers>> /\ clicks' = clicks + 1
  BY <1>0 DEF Clicked
<1>t. /\ clicks \in Nat /\ "save" \in Kinds
      /\ \A q \in Pages : pages[q].attempt["save"].key \in Nat /\ pages[q].shown.save \in {0, 1}
      /\ \A q \in Pages : /\ SaveOf(q).key <= clicks
                          /\ SaveOf(q).key = 0 => SaveOf(q).value = None
                          /\ SaveOf(q).key # 0 => SaveOf(q).value \in {0, 1}
      /\ \A a \in answers : a.click \in 1..clicks
      /\ \A e \in events : e.key \in 1..clicks
  BY DEF SavesInv, InteractionTypes, Page, Attempt, Stored, Kinds, SaveOf, Values
<1>2. kind = "save" => o = p
  BY <1>1, <1>t DEF Alone, Unsaving, SaveOf
<1>3. Alone(p)
  BY <1>1, <1>2, <1>t DEF Alone, Unsaving, SaveOf
<1>4. AskedOrShown(p) /\ Repeats(p) /\ AnswersAreNew(p)
  BY <1>3 DEF SavesInv
<1>5. CASE kind # "save"
  <2>1. SaveOf(p)' = SaveOf(p) /\ pages'[p].shown = pages[p].shown
        /\ pages'[p].settled = pages[p].settled
    BY <1>1, <1>5, <1>t DEF SaveOf
  <2>2. Recorded(p)' = Recorded(p)
    BY <1>1, <2>1 DEF Recorded
  <2>3. AskedOrShown(p)'
    BY <1>1, <1>4, <2>1, <2>2 DEF AskedOrShown
  <2>4. Repeats(p)'
    BY <1>1, <1>4, <1>5, <2>1 DEF Repeats, SameKey
  <2>5. AnswersAreNew(p)'
    BY <1>1, <1>4, <1>t, <2>1, <2>2 DEF AnswersAreNew
  <2> QED BY <2>3, <2>4, <2>5
<1>6. CASE kind = "save"
  <2>1. o = p /\ SaveOf(p)'.key = key /\ SaveOf(p)'.value = value /\ value = 1 - pages[p].shown.save
        /\ pages'[p].settled = FALSE /\ pages'[p].shown = pages[p].shown
    BY <1>1, <1>2, <1>6 DEF SaveOf
  <2>2. value # pages[p].shown.save /\ value \in {0, 1}
    BY <1>t, <2>1
  <2>3. AnswersAreNew(p)'
    BY <1>1, <1>t, <2>1 DEF AnswersAreNew
  <2>4. CASE key = SaveOf(p).key /\ value = SaveOf(p).value
    <3>1. Recorded(p)' = Recorded(p)
      BY <1>1, <2>1, <2>4 DEF Recorded
    <3>2. AskedOrShown(p)'
      BY <1>1, <1>4, <2>1, <2>2, <2>4, <3>1 DEF AskedOrShown
    <3>3. Repeats(p)'
      BY <1>1, <1>4, <2>1, <2>4 DEF Repeats, SameKey
    <3> QED BY <2>3, <3>2, <3>3
  <2>5. CASE key = clicks + 1 /\ value # SaveOf(p).value
    <3>1. ~Recorded(p)'
      <4>1. \A e \in events : e.key # key
        BY <1>t, <2>5
      <4> QED BY <1>1, <2>1, <4>1 DEF Recorded
    <3>2. Recorded(p) \/ SaveOf(p).key = 0
      <4>1. ~Recorded(p) => SaveOf(p).value # pages[p].shown.save
        BY <1>4 DEF AskedOrShown
      <4> QED BY <1>t, <2>1, <2>5, <4>1
    <3>3. row.save = pages[p].shown.save
      <4>1. CASE Recorded(p)
        <5>1. row.save = SaveOf(p).value /\ SaveOf(p).key # 0
          BY <1>4, <1>t, <4>1 DEF AskedOrShown, Recorded
        <5> QED BY <1>t, <2>1, <2>5, <5>1
      <4>2. CASE ~Recorded(p)
        BY <1>4, <4>2 DEF AskedOrShown
      <4> QED BY <4>1, <4>2
    <3>4. AskedOrShown(p)'
      BY <1>1, <2>1, <2>2, <3>1, <3>3 DEF AskedOrShown
    <3>5. \A r \in requests : r.kind = "save" => r.page = p /\ SameKey(r) # {}
      <4> SUFFICES ASSUME NEW r \in requests, r.kind = "save" PROVE r.page = p /\ SameKey(r) # {}
        OBVIOUS
      <4>1. r.page = p /\ ~Unsaving(p)
        BY <1>4 DEF Repeats, SavesInv
      <4>2. PICK e \in events : e.kind = "save" /\ e.key = SaveOf(p).key
        BY <3>2, <4>1 DEF Recorded, Unsaving
      <4>3. SameKey(r) = {} => r.key = SaveOf(p).key
        BY <1>4 DEF Repeats
      <4> QED BY <4>1, <4>2, <4>3 DEF SameKey
    <3>6. Repeats(p)'
      BY <1>1, <2>1, <3>5 DEF Repeats, SameKey
    <3> QED BY <2>3, <3>4, <3>6
  <2> QED BY <1>1, <2>1, <2>4, <2>5, <1>6 DEF SaveOf
<1> QED BY <1>5, <1>6

\* An answer, a page that gives up and a state fetched leave it so.
LEMMA AloneAfterPageStep ==
    ASSUME SavesInv, NEW p \in Pages, NEW o \in Pages,
           Receive(o) \/ GiveUp(o) \/ FetchViewerState(o)
    PROVE  AloneInv(p)'
<1> SUFFICES ASSUME Alone(p)' PROVE (AskedOrShown(p) /\ Repeats(p) /\ AnswersAreNew(p))'
  BY DEF AloneInv
<1>1. /\ pages'[o].attempt = pages[o].attempt /\ pages'[o].pending = 0
      /\ \A q \in Pages \ {o} : pages'[q] = pages[q]
      /\ \/ pages'[o].shown = row /\ pages'[o].settled = pages[o].settled
         \/ pages'[o].shown = pages[o].shown /\ pages'[o].settled = pages[o].settled
         \/ \E a \in answers :
              /\ a.page = o /\ a.click = pages[o].pending
              /\ pages'[o].shown = a.row
              /\ pages'[o].settled = (pages[o].settled \/ a.kind = "save")
      /\ answers' \subseteq answers
      /\ UNCHANGED <<row, events, requests, clicks>>
  BY PageSteps
<1>2. \A q \in Pages : SaveOf(q)' = SaveOf(q)
  BY <1>1 DEF SaveOf
<1>3. Alone(p) /\ (Recorded(p)' <=> Recorded(p))
  BY <1>1, <1>2 DEF Alone, Unsaving, Recorded
<1>4. AskedOrShown(p) /\ Repeats(p) /\ AnswersAreNew(p)
  BY <1>3 DEF SavesInv
<1>5. Repeats(p)'
  BY <1>1, <1>2, <1>4 DEF Repeats, SameKey
<1>6. \A a \in answers : a.click # 0
  BY DEF SavesInv, InteractionTypes
<1>7. AskedOrShown(p)'
  <2>1. CASE o # p
    BY <1>1, <1>2, <1>3, <1>4, <2>1 DEF AskedOrShown
  <2>2. CASE /\ o = p /\ pages'[o].settled = pages[o].settled
             /\ pages'[o].shown = row \/ pages'[o].shown = pages[o].shown
    BY <1>1, <1>2, <1>3, <1>4, <2>2 DEF AskedOrShown
  <2>3. ASSUME o = p, NEW a \in answers, a.page = o, a.click = pages[o].pending,
               pages'[o].shown = a.row, pages'[o].settled = (pages[o].settled \/ a.kind = "save")
        PROVE  AskedOrShown(p)'
    <3>1. /\ ~Recorded(p) => a.row.save = row.save /\ a.kind # "save"
          /\ pages[p].settled \/ a.kind = "save" => a.row.save = row.save
      BY <1>4, <2>3 DEF AnswersAreNew
    <3> QED BY <1>1, <1>2, <1>3, <1>4, <2>3, <3>1 DEF AskedOrShown
  <2> QED BY <1>1, <2>1, <2>2, <2>3
<1>8. AnswersAreNew(p)'
  BY <1>1, <1>3, <1>4, <1>6 DEF AnswersAreNew
<1> QED BY <1>5, <1>7, <1>8

\* The server does what the page asked last, or answers with what it did for the same key.
LEMMA AloneAfterExecute ==
    ASSUME SavesInv, NEW p \in Pages, Execute
    PROVE  AloneInv(p)'
<1> SUFFICES ASSUME Alone(p)' PROVE (AskedOrShown(p) /\ Repeats(p) /\ AnswersAreNew(p))'
  BY DEF AloneInv
<1>1. PICK r \in requests :
        /\ SameKey(r) # {} \/ r.kind # "save" => row'.save = row.save
        /\ SameKey(r) = {} /\ r.kind = "save" => row'.save = r.value
        /\ \E e : /\ events' = events \cup {e} /\ e.kind = r.kind /\ e.key = r.key
        /\ requests' = requests \ {r}
        /\ \/ answers' = answers
           \/ \E a : /\ answers' = answers \cup {a}
                     /\ r.click = pages[r.page].pending
                     /\ a.page = r.page /\ a.click = r.click /\ a.kind = r.kind /\ a.row = row'
        /\ UNCHANGED <<pages, clicks>>
  BY ExecuteFacts
<1>2. SaveOf(p)' = SaveOf(p) /\ pages' = pages
  BY <1>1 DEF SaveOf
<1>3. Alone(p)
  BY <1>1 DEF Alone, Unsaving, SaveOf
<1>4. AskedOrShown(p) /\ Repeats(p) /\ AnswersAreNew(p)
  BY <1>3 DEF SavesInv
<1>5. Recorded(p) => Recorded(p)'
  BY <1>1, <1>2 DEF Recorded
<1>6. \A q : SameKey(q) # {} => SameKey(q)' # {}
  BY <1>1 DEF SameKey
<1>7. Repeats(p)'
  BY <1>1, <1>2, <1>4, <1>6 DEF Repeats
<1>8. CASE r.kind = "save" /\ SameKey(r) = {}
  <2>1. r.key = SaveOf(p).key /\ r.value = SaveOf(p).value /\ r.page = p
    BY <1>4, <1>8 DEF Repeats
  <2>2. Recorded(p)' /\ row'.save = SaveOf(p).value
    BY <1>1, <1>2, <1>8, <2>1 DEF Recorded
  <2>3. ~Recorded(p)
    BY <1>8, <2>1 DEF Recorded, SameKey
  <2>4. ~pages[p].settled
    BY <1>4, <2>3 DEF AskedOrShown
  <2>5. AskedOrShown(p)'
    BY <1>2, <2>2, <2>4 DEF AskedOrShown
  <2>6. AnswersAreNew(p)'
    BY <1>1, <1>2, <1>4, <2>2, <2>3, <2>4 DEF AnswersAreNew
  <2> QED BY <1>7, <2>5, <2>6
<1>9. CASE ~(r.kind = "save" /\ SameKey(r) = {})
  <2>1. row'.save = row.save
    BY <1>1, <1>9
  <2>2. Recorded(p)' => Recorded(p)
    BY <1>1, <1>2, <1>9 DEF Recorded, SameKey
  <2>3. AskedOrShown(p)'
    BY <1>2, <1>4, <1>5, <2>1, <2>2 DEF AskedOrShown
  <2>4. r.kind = "save" /\ r.click = pages[r.page].pending => Recorded(p)
    <3> SUFFICES ASSUME r.kind = "save", r.click = pages[r.page].pending PROVE Recorded(p)
      OBVIOUS
    <3>1. r.page = p /\ r.key = SaveOf(p).key
      BY <1>4 DEF Repeats, SavesInv, PendingInv, SaveOf
    <3> QED BY <1>9, <3>1 DEF Recorded, SameKey
  <2>5. AnswersAreNew(p)'
    <3> SUFFICES ASSUME NEW a \in answers', a.page = p, a.click = pages[p].pending
                 PROVE  /\ ~Recorded(p) => a.row.save = row'.save /\ a.kind # "save"
                        /\ pages[p].settled \/ a.kind = "save" => a.row.save = row'.save
      BY <1>2, <1>5, <2>2 DEF AnswersAreNew
    <3>1. CASE a \in answers
      BY <1>4, <2>1, <3>1 DEF AnswersAreNew
    <3>2. CASE a \notin answers
      BY <1>1, <2>4, <3>2
    <3> QED BY <3>1, <3>2
  <2> QED BY <1>7, <2>3, <2>5
<1> QED BY <1>8, <1>9

-----------------------------------------------------------------------------
(* MemberInteractions: the theorem *)

\* Every step keeps the invariant.
LEMMA SavesPreserved == SavesInv /\ [Next]_vars => SavesInv'
<1> SUFFICES ASSUME SavesInv, [Next]_vars PROVE SavesInv'
  OBVIOUS
<1> DEFINE Asked == \A r \in requests : r.kind = "save" => ~Unsaving(r.page)
<1>t. InteractionTypes'
  BY InteractionTypesPreserved
<1>i. /\ PendingInv /\ Asked /\ "save" \in Kinds
      /\ \A p \in Pages : AloneInv(p)
      /\ \A r \in requests : r.page \in Pages /\ r.kind \in Kinds /\ r.click \in 1..clicks
      /\ clicks \in Nat
  BY DEF SavesInv, AloneInv, InteractionTypes, Kinds
<1>1. CASE UNCHANGED vars
  BY <1>t, <1>1 DEF vars, SavesInv, PendingInv, Unsaving, SaveOf, Alone, AskedOrShown, Recorded,
                    Repeats, SameKey, AnswersAreNew
<1>2. CASE Drop
  <2>1. requests' \subseteq requests /\ UNCHANGED <<row, events, answers, pages, clicks>>
    BY <1>2 DEF Drop
  <2> QED BY <1>t, <2>1 DEF SavesInv, PendingInv, Unsaving, SaveOf, Alone, AskedOrShown, Recorded,
                            Repeats, SameKey, AnswersAreNew
<1>3. ASSUME NEW p \in Pages, NEW kind \in Kinds, NEW value \in Values(kind), Click(p, kind, value),
             kind = "save" => value = 1 - pages[p].shown.save
      PROVE  SavesInv'
  <2>0. PICK key \in 1..(clicks + 1) : Clicked(p, kind, value, key)
    BY <1>3, ClickFacts
  <2>1. PICK q : /\ requests' = requests \cup {q}
                 /\ q.page = p /\ q.click = clicks + 1 /\ q.kind = kind /\ q.key = key
    BY <2>0 DEF Clicked
  <2>2. /\ \A o \in Pages \ {p} : pages'[o] = pages[o]
        /\ pages'[p].pending = clicks + 1 /\ pages'[p].attempt[kind].key = key
        /\ \A k \in Kinds \ {kind} : pages'[p].attempt[k] = pages[p].attempt[k]
    BY <2>0 DEF Clicked
  <2>3. PendingInv'
    <3> SUFFICES ASSUME NEW r \in requests', r.click = pages'[r.page].pending
                 PROVE  r.key = pages'[r.page].attempt[r.kind].key
      BY DEF PendingInv
    <3>1. CASE r = q
      BY <2>1, <2>2, <3>1
    <3>2. CASE r \in requests /\ r.page # p
      BY <1>i, <2>2, <3>2 DEF PendingInv
    <3>3. CASE r \in requests /\ r.page = p
      BY <1>i, <2>2, <3>3
    <3> QED BY <2>1, <3>1, <3>2, <3>3
  <2>4. Asked'
    <3> SUFFICES ASSUME NEW r \in requests', r.kind = "save" PROVE pages'[r.page].attempt["save"].key # 0
      BY DEF Unsaving, SaveOf
    <3>1. CASE r = q
      BY <1>i, <2>1, <2>2, <3>1
    <3>2. CASE r \in requests
      BY <1>i, <2>2, <3>2 DEF Unsaving, SaveOf
    <3> QED BY <2>1, <3>1, <3>2
  <2>5. \A o \in Pages : AloneInv(o)'
    BY <1>3, AloneAfterClick
  <2> QED BY <1>t, <2>3, <2>4, <2>5 DEF SavesInv, AloneInv
<1>4. ASSUME NEW p \in Pages, Receive(p) \/ GiveUp(p) \/ FetchViewerState(p)
      PROVE  SavesInv'
  <2>1. /\ requests' = requests
        /\ \A q \in Pages \ {p} : pages'[q] = pages[q]
        /\ pages'[p].attempt = pages[p].attempt /\ pages'[p].pending = 0
    BY <1>4, PageSteps
  <2>2. PendingInv' /\ Asked'
    BY <1>i, <2>1 DEF PendingInv, Unsaving, SaveOf
  <2>3. \A o \in Pages : AloneInv(o)'
    BY <1>4, AloneAfterPageStep
  <2> QED BY <1>t, <2>2, <2>3 DEF SavesInv, AloneInv
<1>5. CASE Execute
  <2>1. requests' \subseteq requests /\ pages' = pages
    BY <1>5, ExecuteFacts
  <2>2. PendingInv' /\ Asked'
    BY <1>i, <2>1 DEF PendingInv, Unsaving, SaveOf
  <2>3. \A o \in Pages : AloneInv(o)'
    BY <1>5, AloneAfterExecute
  <2> QED BY <1>t, <2>2, <2>3 DEF SavesInv, AloneInv
<1> QED BY <1>1, <1>2, <1>3, <1>4, <1>5, InteractionSteps

\* It holds before anybody clicked.
LEMMA SavesInit == Init => SavesInv
<1> SUFFICES ASSUME Init PROVE SavesInv
  OBVIOUS
<1> DEFINE start == [save |-> 0, rating |-> 0]
           attempts == [k \in Kinds |-> [value |-> None, key |-> 0]]
           page == [shown |-> start, attempt |-> attempts, pending |-> 0, settled |-> FALSE]
<1>1. start \in Stored /\ start.save = 0 /\ row = start
  BY DEF Init, Stored
<1>2. attempts \in [Kinds -> Attempt] /\ \A k \in Kinds : attempts[k].key = 0 /\ attempts[k].value = None
  BY DEF Attempt
<1>3. pages = [p \in Pages |-> page]
  BY DEF Init
<1> HIDE DEF start, attempts
<1>4. page \in Page /\ page.shown = start /\ page.attempt = attempts /\ page.pending = 0
      /\ page.settled = FALSE
  BY <1>1, <1>2 DEF Page
<1> HIDE DEF page
<1>5. requests = {} /\ answers = {} /\ events = {} /\ clicks = 0
  BY DEF Init
<1>6. InteractionTypes
  BY <1>1, <1>2, <1>3, <1>4, <1>5 DEF InteractionTypes
<1>7. \A p \in Pages : AskedOrShown(p)
  <2> TAKE p \in Pages
  <2>1. pages[p].shown.save = 0 /\ ~pages[p].settled /\ SaveOf(p).value = None
    BY <1>1, <1>2, <1>3, <1>4 DEF SaveOf, Kinds
  <2>2. None # 0 /\ ~Recorded(p) /\ row.save = 0
    BY <1>1, <1>5, RatingsAssumption DEF Recorded
  <2> QED BY <2>1, <2>2 DEF AskedOrShown
<1> QED BY <1>5, <1>6, <1>7 DEF SavesInv, PendingInv, Repeats, AnswersAreNew

\* Whatever clicks, answers, losses and delays cross, what a page that saves alone shows
\* after an answer is what is stored.
THEOREM SavesAreSettled == Spec => []SavesSettle
<1>1. SavesInv => SavesSettle
  BY DEF SavesInv, Alone, AskedOrShown, Unsaving, SaveOf, SavesSettle
<1> QED BY SavesInit, SavesPreserved, <1>1, PTL DEF Spec

-----------------------------------------------------------------------------
(* DraftCreation: types and the invariant *)

Visiting == [stage : {"nowhere", "look", "ask", "wait", "failed"}, tab : Tabs \cup {Nil},
             intent : Intents \cup {Nil}, shown : BOOLEAN, again : BOOLEAN,
             key : 0..MaxCalls, call : 0..MaxCalls, answer : {Nil, "ok", "conflict"}]

\* Only a page that waits expects an answer, or has one.
Waits(state) == state.call # 0 \/ state.answer # Nil => state.stage = "wait"

CreationTypes ==
    /\ calls \in 0..MaxCalls
    /\ rows \in [Calls -> Drafts \cup {Nil}]
    /\ stored \in [Tabs -> [Intents -> 0..MaxCalls]]
    /\ visit \in [Visits -> Visiting]
    /\ \A v \in Visits : /\ visit[v].stage # "nowhere" => visit[v].tab \in Tabs /\ visit[v].intent \in Intents
                         /\ visit[v].call <= calls
                         /\ Waits(visit[v])
    /\ \A t \in Tabs, i \in Intents : stored[t][i] <= calls
    /\ \A post \in posts : post.call \in 1..calls /\ post.key \in 1..calls /\ post.intent \in Intents

\* What a page is told of its key is true, and a refusal stays true.
Told(state) ==
    /\ state.answer = "ok" => state.key \in Calls /\ rows[state.key] # Nil
    /\ state.answer = "conflict" =>
          /\ state.key \in Calls /\ rows[state.key] # Nil
          /\ ~(rows[state.key].intent = state.intent /\ rows[state.key].active)

\* An answer comes to the page that asked with its key.
AskedWith(state) ==
    \A post \in posts : post.call = state.call => post.key = state.key /\ post.intent = state.intent

\* The key of a draft still to be created is kept.
KeysAreKept ==
    \A post \in posts : rows[post.key] = Nil => \E t \in Tabs : stored[t][post.intent] = post.key

CreationInv == /\ CreationTypes
               /\ \A v \in Visits : Told(visit[v]) /\ AskedWith(visit[v])
               /\ KeysAreKept
               /\ NoDraftIsLost

-----------------------------------------------------------------------------
(* DraftCreation: the steps *)

\* A page that goes on as new keeps what it asked and was told, or forgets it.
Follows(new, old) ==
    /\ new.answer = Nil \/ (new.answer = old.answer /\ new.key = old.key /\ new.intent = old.intent)
    /\ new.call = 0 \/ (new.call = old.call /\ new.key = old.key /\ new.intent = old.intent)

\* What a page is at, after a step of its own.
LEMMA VisitWrite ==
    ASSUME CreationInv, NEW v \in Visits, NEW page \in Visiting,
           page.stage # "nowhere" => page.tab \in Tabs /\ page.intent \in Intents,
           Becomes(v, page)
    PROVE  /\ visit' \in [Visits -> Visiting] /\ visit'[v] = page
           /\ \A u \in Visits \ {v} : visit'[u] = visit[u]
           /\ \A u \in Visits : visit'[u].stage # "nowhere" => visit'[u].tab \in Tabs
                                                              /\ visit'[u].intent \in Intents
BY DEF CreationInv, CreationTypes, Becomes

\* Writing one stored key changes no other.
LEMMA StoredWrite ==
    ASSUME CreationInv, NEW t \in Tabs, NEW i \in Intents, NEW k \in 0..MaxCalls,
           stored' = [stored EXCEPT ![t][i] = k]
    PROVE  /\ stored' \in [Tabs -> [Intents -> 0..MaxCalls]] /\ stored'[t][i] = k
           /\ \A u \in Tabs, j \in Intents : ~(u = t /\ j = i) => stored'[u][j] = stored[u][j]
<1> DEFINE keys == [stored[t] EXCEPT ![i] = k]
<1>1. stored \in [Tabs -> [Intents -> 0..MaxCalls]]
  BY DEF CreationInv, CreationTypes
<1>2. keys \in [Intents -> 0..MaxCalls] /\ keys[i] = k /\ \A j \in Intents \ {i} : keys[j] = stored[t][j]
  BY <1>1
<1>3. stored' = [stored EXCEPT ![t] = keys]
  OBVIOUS
<1> HIDE DEF keys
<1> QED BY <1>1, <1>2, <1>3

\* The steps of a page that send nothing and touch no key.
Quietly(v) == Begin(v) \/ Leave(v) \/ Look(v) \/ LookFails(v) \/ GivesUp(v) \/ TryAgain(v)

\* A page that was refused, or failed.
LEMMA FailedFacts ==
    ASSUME CreationInv, NEW v \in Visits
    PROVE  /\ Nowhere \in Visiting /\ Nowhere.stage = "nowhere" /\ Nowhere.call = 0 /\ Nowhere.answer = Nil
           /\ Failed(v) \in Visiting /\ Failed(v).call = 0 /\ Failed(v).answer = Nil
           /\ Failed(v).stage # "nowhere" /\ visit[v].stage # "nowhere" =>
                 Failed(v).tab \in Tabs /\ Failed(v).intent \in Intents
<1>1. 0 \in 0..MaxCalls
  BY CreationAssumption
<1>2. Nowhere \in Visiting /\ Nowhere.stage = "nowhere" /\ Nowhere.call = 0 /\ Nowhere.answer = Nil
  BY <1>1 DEF Nowhere, Visiting
<1>3. /\ visit[v] \in Visiting
      /\ visit[v].stage # "nowhere" => visit[v].tab \in Tabs /\ visit[v].intent \in Intents
  BY DEF CreationInv, CreationTypes
<1> DEFINE t == [visit[v] EXCEPT !.stage = "failed", !.call = 0, !.answer = Nil]
<1>4. /\ t \in Visiting /\ t.call = 0 /\ t.answer = Nil /\ t.stage = "failed"
      /\ t.tab = visit[v].tab /\ t.intent = visit[v].intent
  BY <1>1, <1>3 DEF Visiting
<1>5. Failed(v) = t \/ Failed(v) = Nowhere
  BY DEF Failed
<1> HIDE DEF t
<1> QED BY <1>2, <1>3, <1>4, <1>5

\* A page's step that neither calls nor stores follows from where the page was.
LEMMA QuietFacts ==
    ASSUME CreationInv, NEW v \in Visits, Quietly(v)
    PROVE  /\ \E page \in Visiting :
                /\ Becomes(v, page) /\ Follows(page, visit[v]) /\ Waits(page)
                /\ page.stage # "nowhere" => page.tab \in Tabs /\ page.intent \in Intents
           /\ learnt \subseteq learnt'
           /\ UNCHANGED <<rows, stored, posts, calls>>
<1>t. /\ visit[v] \in Visiting /\ Waits(visit[v])
      /\ visit[v].stage # "nowhere" => visit[v].tab \in Tabs /\ visit[v].intent \in Intents
  BY DEF CreationInv, CreationTypes
<1>n. Nowhere \in Visiting /\ Nowhere.stage = "nowhere" /\ Follows(Nowhere, visit[v]) /\ Waits(Nowhere)
  BY FailedFacts DEF Follows, Waits
<1>u. learnt \subseteq learnt' /\ UNCHANGED <<rows, stored, posts, calls>>
  BY DEF Quietly, Begin, Leave, Look, LookFails, GivesUp, TryAgain
<1>1. CASE Begin(v)
  <2>1. PICK t \in Tabs, i \in Intents :
          Becomes(v, [Nowhere EXCEPT !.stage = First(i), !.tab = t, !.intent = i, !.shown = TRUE])
    BY <1>1 DEF Begin
  <2> DEFINE page == [Nowhere EXCEPT !.stage = First(i), !.tab = t, !.intent = i, !.shown = TRUE]
  <2>2. First(i) \in {"ask", "look"}
    BY DEF First
  <2>3. page \in Visiting /\ page.call = 0 /\ page.answer = Nil /\ page.tab = t /\ page.intent = i
    BY <1>n, <2>2, CreationAssumption DEF Nowhere, Visiting
  <2> HIDE DEF page
  <2>4. Becomes(v, page)
    BY <2>1 DEF page
  <2> QED BY <1>u, <2>3, <2>4 DEF Follows, Waits
<1>2. CASE Leave(v)
  <2> DEFINE page == [visit[v] EXCEPT !.shown = FALSE]
  <2>1. /\ page \in Visiting /\ page.stage = visit[v].stage /\ page.tab = visit[v].tab
        /\ page.intent = visit[v].intent /\ page.key = visit[v].key /\ page.call = visit[v].call
        /\ page.answer = visit[v].answer
    BY <1>t DEF Visiting
  <2>2. Becomes(v, Nowhere) \/ Becomes(v, page)
    BY <1>2 DEF Leave
  <2> HIDE DEF page
  <2> QED BY <1>t, <1>n, <1>u, <2>1, <2>2 DEF Follows, Waits
<1>3. ASSUME NEW stage \in {"ask", "look"}, NEW again \in BOOLEAN,
             visit[v].stage # "nowhere", visit[v].stage # "wait",
             Becomes(v, [visit[v] EXCEPT !.stage = stage, !.again = again])
      PROVE  \E page \in Visiting :
                /\ Becomes(v, page) /\ Follows(page, visit[v]) /\ Waits(page)
                /\ page.stage # "nowhere" => page.tab \in Tabs /\ page.intent \in Intents
  <2> DEFINE page == [visit[v] EXCEPT !.stage = stage, !.again = again]
  <2>1. /\ page \in Visiting /\ page.tab = visit[v].tab
        /\ page.intent = visit[v].intent /\ page.key = visit[v].key /\ page.call = visit[v].call
        /\ page.answer = visit[v].answer
    BY <1>t DEF Visiting
  <2>2. Becomes(v, page)
    BY <1>3
  <2> HIDE DEF page
  <2> QED BY <1>t, <1>3, <2>1, <2>2 DEF Follows, Waits
<1>4. CASE Look(v)
  <2>1. CASE Becomes(v, Nowhere)
    BY <1>n, <1>u, <2>1
  <2>2. CASE Becomes(v, [visit[v] EXCEPT !.stage = "ask"])
    <3>1. visit[v].again \in BOOLEAN /\ visit[v].stage # "nowhere" /\ visit[v].stage # "wait"
      BY <1>t, <1>4 DEF Visiting, Look
    <3>2. [visit[v] EXCEPT !.stage = "ask"] = [visit[v] EXCEPT !.stage = "ask", !.again = visit[v].again]
      BY <1>t DEF Visiting
    <3> QED BY <1>3, <1>u, <2>2, <3>1, <3>2
  <2> QED BY <1>4, <2>1, <2>2 DEF Look
<1>5. CASE LookFails(v) \/ GivesUp(v)
  <2>1. Becomes(v, Failed(v)) /\ visit[v].stage # "nowhere"
    BY <1>5 DEF LookFails, GivesUp
  <2>2. Failed(v) \in Visiting /\ Follows(Failed(v), visit[v]) /\ Waits(Failed(v))
    BY FailedFacts DEF Follows, Waits
  <2> QED BY <1>u, <2>1, <2>2, FailedFacts
<1>6. CASE TryAgain(v)
  <2>1. First(visit[v].intent) \in {"ask", "look"} /\ visit[v].stage = "failed"
        /\ Becomes(v, [visit[v] EXCEPT !.stage = First(visit[v].intent), !.again = FALSE])
    BY <1>6 DEF TryAgain, First
  <2> QED BY <1>3, <1>u, <2>1
<1> QED BY <1>1, <1>2, <1>4, <1>5, <1>6 DEF Quietly

\* Such a step keeps the invariant.
LEMMA AfterQuiet ==
    ASSUME CreationInv, NEW v \in Visits, Quietly(v)
    PROVE  CreationInv'
<1>1. PICK page \in Visiting :
        /\ Becomes(v, page) /\ Follows(page, visit[v]) /\ Waits(page)
        /\ page.stage # "nowhere" => page.tab \in Tabs /\ page.intent \in Intents
  BY QuietFacts
<1>2. learnt \subseteq learnt' /\ UNCHANGED <<rows, stored, posts, calls>>
  BY QuietFacts
<1>3. /\ visit' \in [Visits -> Visiting] /\ visit'[v] = page
      /\ \A u \in Visits \ {v} : visit'[u] = visit[u]
      /\ \A u \in Visits : visit'[u].stage # "nowhere" => visit'[u].tab \in Tabs
                                                         /\ visit'[u].intent \in Intents
  BY <1>1, VisitWrite
<1>t. /\ CreationTypes /\ KeysAreKept /\ NoDraftIsLost
      /\ \A u \in Visits : Told(visit[u]) /\ AskedWith(visit[u])
  BY DEF CreationInv
<1>4. CreationTypes'
  <2>1. \A u \in Visits : visit'[u].call <= calls /\ Waits(visit'[u])
    BY <1>t, <1>1, <1>3 DEF CreationTypes, Follows
  <2> QED BY <1>t, <1>2, <1>3, <2>1 DEF CreationTypes, Waits
<1>5. \A post \in posts : post.call # 0
  BY <1>t DEF CreationTypes
<1>6. \A u \in Visits : Told(visit[u])' /\ AskedWith(visit[u])'
  <2> TAKE u \in Visits
  <2>1. CASE u # v
    BY <1>t, <1>2, <1>3, <2>1 DEF Told, AskedWith
  <2>2. CASE u = v
    <3>1. (page.answer # "ok" /\ page.answer # "conflict") \/ Told(page)
      BY <1>t, <1>1, CreationAssumption DEF Follows, Told
    <3>2. AskedWith(page)
      BY <1>t, <1>1, <1>5 DEF Follows, AskedWith
    <3> QED BY <1>2, <1>3, <2>2, <3>1, <3>2 DEF Told, AskedWith
  <2> QED BY <2>1, <2>2
<1>7. KeysAreKept' /\ NoDraftIsLost'
  BY <1>t, <1>2 DEF KeysAreKept, NoDraftIsLost
<1> QED BY <1>4, <1>6, <1>7 DEF CreationInv

\* A key is new or the one that was kept, and is kept from then on.
LEMMA AfterAsk ==
    ASSUME CreationInv, NEW v \in Visits, Ask(v)
    PROVE  CreationInv'
<1>t. /\ CreationTypes /\ KeysAreKept /\ NoDraftIsLost
      /\ \A u \in Visits : Told(visit[u]) /\ AskedWith(visit[u])
  BY DEF CreationInv
<1> DEFINE key == KeyOf(v)
           tb == visit[v].tab
           it == visit[v].intent
           page == [visit[v] EXCEPT !.stage = "wait", !.key = key, !.call = calls + 1]
           p == [call |-> calls + 1, key |-> key, intent |-> it]
<1>1. /\ visit[v].stage = "ask" /\ calls < MaxCalls /\ calls' = calls + 1
      /\ stored' = [stored EXCEPT ![tb][it] = key]
      /\ posts' = posts \cup {p} /\ Becomes(v, page)
      /\ UNCHANGED <<rows, learnt>>
  BY DEF Ask
<1>2. tb \in Tabs /\ it \in Intents /\ calls \in Nat /\ MaxCalls \in Nat /\ visit[v] \in Visiting
      /\ visit[v].answer = Nil
  BY <1>t, <1>1, CreationAssumption DEF CreationTypes, Waits
<1>3. \/ key = stored[tb][it] /\ stored[tb][it] # 0
      \/ key = calls + 1 /\ stored[tb][it] = 0
  BY DEF KeyOf
<1>4. stored[tb][it] \in 0..MaxCalls /\ stored[tb][it] <= calls
  BY <1>t, <1>2 DEF CreationTypes
<1> HIDE DEF key, tb, it
<1>5. key \in 1..calls' /\ key \in 0..MaxCalls /\ calls + 1 \in 0..MaxCalls /\ calls' \in 0..MaxCalls
  BY <1>1, <1>2, <1>3, <1>4
<1>6. /\ page \in Visiting /\ page.key = key /\ page.call = calls + 1
      /\ page.stage = "wait" /\ page.answer = Nil
      /\ page.tab = tb /\ page.intent = it
  BY <1>2, <1>5 DEF Visiting, tb, it
<1>7. p.call = calls + 1 /\ p.key = key /\ p.intent = it
  OBVIOUS
<1> HIDE DEF page, p
<1>8. /\ visit' \in [Visits -> Visiting] /\ visit'[v] = page
      /\ \A u \in Visits \ {v} : visit'[u] = visit[u]
      /\ \A u \in Visits : visit'[u].stage # "nowhere" => visit'[u].tab \in Tabs
                                                         /\ visit'[u].intent \in Intents
  BY <1>1, <1>2, <1>6, VisitWrite
<1>9. /\ stored' \in [Tabs -> [Intents -> 0..MaxCalls]] /\ stored'[tb][it] = key
      /\ \A u \in Tabs, j \in Intents : ~(u = tb /\ j = it) => stored'[u][j] = stored[u][j]
  BY <1>1, <1>2, <1>5, StoredWrite
<1>10. \A u \in Tabs, j \in Intents, k \in Calls : stored[u][j] = k => stored'[u][j] = k
  BY <1>3, <1>9 DEF Calls
<1>11. CreationTypes'
  <2>0. \A u \in Visits : Waits(visit'[u])
    BY <1>t, <1>6, <1>8 DEF CreationTypes, Waits
  <2>1. \A u \in Visits : visit'[u].call <= calls'
    <3>1. \A u \in Visits : visit[u].call <= calls /\ visit[u].call \in Nat
      BY <1>t DEF CreationTypes, Visiting
    <3> QED BY <1>1, <1>2, <1>6, <1>8, <3>1
  <2>2. \A u \in Tabs, j \in Intents : stored'[u][j] <= calls'
    <3>1. \A u \in Tabs, j \in Intents : stored[u][j] <= calls /\ stored[u][j] \in Nat
      BY <1>t DEF CreationTypes
    <3> QED BY <1>1, <1>2, <1>5, <1>9, <3>1
  <2>3. \A post \in posts' : post.call \in 1..calls' /\ post.key \in 1..calls' /\ post.intent \in Intents
    BY <1>t, <1>1, <1>2, <1>5, <1>7 DEF CreationTypes
  <2> QED BY <1>t, <1>1, <1>5, <1>8, <1>9, <2>0, <2>1, <2>2, <2>3 DEF CreationTypes, Waits
<1>12. \A post \in posts : post.call # calls + 1 /\ post.call \in 1..calls /\ post.key \in Calls
  BY <1>t, <1>2 DEF CreationTypes, Calls
<1>13. \A u \in Visits : Told(visit[u])' /\ AskedWith(visit[u])'
  <2> TAKE u \in Visits
  <2>1. CASE u # v
    <3>1. visit[u].call # calls + 1
      BY <1>t, <1>2 DEF CreationTypes, Visiting
    <3> QED BY <1>t, <1>1, <1>7, <1>8, <2>1, <3>1 DEF Told, AskedWith
  <2>2. CASE u = v
    <3>1. Nil # "ok" /\ Nil # "conflict"
      BY CreationAssumption
    <3> QED BY <1>1, <1>6, <1>7, <1>8, <1>12, <2>2, <3>1 DEF Told, AskedWith
  <2> QED BY <2>1, <2>2
<1>14. KeysAreKept'
  BY <1>t, <1>1, <1>2, <1>7, <1>9, <1>10, <1>12 DEF KeysAreKept, CreationTypes
<1>15. NoDraftIsLost'
  <2>1. \A k \in Calls : rows[k] # Nil => rows[k].intent \in Intents
    BY <1>t DEF CreationTypes, Drafts
  <2> QED BY <1>t, <1>1, <1>10, <2>1 DEF NoDraftIsLost
<1> QED BY <1>11, <1>13, <1>14, <1>15 DEF CreationInv

\* A key is forgotten only when some draft was made under it: one the page was told of, or
\* one that is over.
LEMMA AfterAnswer ==
    ASSUME CreationInv, NEW v \in Visits, Opens(v) \/ StartsOver(v)
    PROVE  CreationInv'
<1>t. /\ CreationTypes /\ KeysAreKept /\ NoDraftIsLost
      /\ \A u \in Visits : Told(visit[u]) /\ AskedWith(visit[u])
      /\ visit[v] \in Visiting /\ Waits(visit[v]) /\ Nil # "ok" /\ Nil # "conflict"
  BY CreationAssumption DEF CreationInv, CreationTypes
<1> DEFINE tb == visit[v].tab
           it == visit[v].intent
           key == visit[v].key
           kept == IF stored[tb][it] = key THEN 0 ELSE stored[tb][it]
           retry == [visit[v] EXCEPT !.stage = "ask", !.again = TRUE, !.call = 0, !.answer = Nil]
<1>1. /\ UNCHANGED <<rows, posts, calls>> /\ learnt \subseteq learnt'
      /\ stored' = [stored EXCEPT ![tb][it] = kept]
      /\ visit[v].answer = "ok" \/ visit[v].answer = "conflict"
      /\ visit[v].answer = "ok" => key \in learnt'
  BY DEF Opens, StartsOver, Cleared
<1>2. tb \in Tabs /\ it \in Intents /\ visit[v].stage = "wait"
  BY <1>t, <1>1 DEF CreationTypes, Waits
<1>3. /\ key \in Calls /\ rows[key] # Nil
      /\ visit[v].answer = "conflict" => ~(rows[key].intent = it /\ rows[key].active)
  BY <1>t, <1>1 DEF Told
<1>4. \E page \in Visiting :
        /\ Becomes(v, page) /\ page.call = 0 /\ page.answer = Nil
        /\ page.stage # "nowhere" => page.tab \in Tabs /\ page.intent \in Intents
  <2>0. 0 \in 0..MaxCalls
    BY CreationAssumption
  <2>1. /\ retry \in Visiting /\ retry.call = 0 /\ retry.answer = Nil
        /\ retry.tab = visit[v].tab /\ retry.intent = visit[v].intent
    BY <1>t, <2>0 DEF Visiting
  <2>2. Becomes(v, Nowhere) \/ Becomes(v, Failed(v)) \/ Becomes(v, retry)
    BY DEF Opens, StartsOver
  <2> HIDE DEF retry
  <2> QED BY <1>2, <2>1, <2>2, FailedFacts
<1> HIDE DEF tb, it, key
<1>5. stored[tb][it] \in 0..MaxCalls /\ kept \in 0..MaxCalls /\ stored[tb][it] <= calls /\ calls \in Nat
  BY <1>t, <1>2, CreationAssumption DEF CreationTypes
<1>k. kept = IF stored[tb][it] = key THEN 0 ELSE stored[tb][it]
  OBVIOUS
<1> HIDE DEF kept
<1>6. /\ stored' \in [Tabs -> [Intents -> 0..MaxCalls]] /\ stored'[tb][it] = kept
      /\ \A u \in Tabs, j \in Intents : ~(u = tb /\ j = it) => stored'[u][j] = stored[u][j]
  BY <1>1, <1>2, <1>5, StoredWrite
<1>7. \A u \in Tabs, j \in Intents, k \in Calls :
        stored[u][j] = k /\ ~(j = it /\ k = key) => stored'[u][j] = k
  BY <1>6, <1>k
<1>8. PICK page \in Visiting :
        /\ Becomes(v, page) /\ page.call = 0 /\ page.answer = Nil
        /\ page.stage # "nowhere" => page.tab \in Tabs /\ page.intent \in Intents
  BY <1>4
<1>9. /\ visit' \in [Visits -> Visiting] /\ visit'[v] = page
      /\ \A u \in Visits \ {v} : visit'[u] = visit[u]
      /\ \A u \in Visits : visit'[u].stage # "nowhere" => visit'[u].tab \in Tabs
                                                         /\ visit'[u].intent \in Intents
  BY <1>8, VisitWrite
<1>10. CreationTypes'
  <2>1. \A u \in Visits : visit'[u].call <= calls /\ Waits(visit'[u])
    BY <1>t, <1>5, <1>8, <1>9 DEF CreationTypes, Waits
  <2>2. \A u \in Tabs, j \in Intents : stored'[u][j] <= calls
    BY <1>t, <1>5, <1>k, <1>6 DEF CreationTypes
  <2> QED BY <1>t, <1>1, <1>6, <1>9, <2>1, <2>2 DEF CreationTypes, Waits
<1>11. \A u \in Visits : Told(visit[u])' /\ AskedWith(visit[u])'
  <2>1. \A post \in posts : post.call # 0
    BY <1>t DEF CreationTypes
  <2> QED BY <1>t, <1>1, <1>8, <1>9, <2>1 DEF Told, AskedWith
<1>12. KeysAreKept'
  <2> SUFFICES ASSUME NEW post \in posts, rows[post.key] = Nil
               PROVE  \E t \in Tabs : stored'[t][post.intent] = post.key
    BY <1>1 DEF KeysAreKept
  <2>1. post.key \in Calls /\ post.intent \in Intents /\ post.key # key
    BY <1>t, <1>3, CreationAssumption DEF CreationTypes, Calls
  <2> QED BY <1>t, <1>7, <2>1 DEF KeysAreKept
<1>13. NoDraftIsLost'
  <2> SUFFICES ASSUME NEW k \in Calls, rows[k] # Nil, rows[k].active, k \notin learnt'
               PROVE  \E t \in Tabs : stored'[t][rows[k].intent] = k
    BY <1>1 DEF NoDraftIsLost
  <2>1. rows[k].intent \in Intents
    BY <1>t DEF CreationTypes, Drafts
  <2>2. ~(rows[k].intent = it /\ k = key)
    BY <1>1, <1>3
  <2>3. \E t \in Tabs : stored[t][rows[k].intent] = k
    BY <1>t, <1>1 DEF NoDraftIsLost
  <2> QED BY <1>7, <2>1, <2>2, <2>3
<1> QED BY <1>10, <1>11, <1>12, <1>13 DEF CreationInv

\* The server makes a draft under a key once; the key is kept then.
LEMMA AfterCreate ==
    ASSUME CreationInv, Create
    PROVE  CreationInv'
<1>t. /\ CreationTypes /\ KeysAreKept /\ NoDraftIsLost
      /\ \A u \in Visits : Told(visit[u]) /\ AskedWith(visit[u])
  BY DEF CreationInv
<1>1. PICK post \in posts :
        /\ rows' = Created(post)
        /\ \/ visit' = [v \in Visits |-> IF visit[v].call # post.call THEN visit[v]
                                         ELSE [visit[v] EXCEPT !.answer = Verdict(post)]]
           \/ UNCHANGED visit
        /\ posts' = posts \ {post}
        /\ UNCHANGED <<stored, calls, learnt>>
  BY DEF Create
<1>2. /\ post.call \in Nat /\ post.call # 0 /\ post.key \in Calls /\ post.intent \in Intents
      /\ calls \in Nat
  BY <1>t, CreationAssumption DEF CreationTypes, Calls
<1> DEFINE draft == [intent |-> post.intent, active |-> TRUE]
<1>3. draft \in Drafts /\ draft # Nil /\ draft.intent = post.intent
  <2>1. draft \in Drafts /\ draft.intent = post.intent
    BY <1>2 DEF Drafts
  <2> HIDE DEF draft
  <2> QED BY <2>1, CreationAssumption
<1>n. Nil # "ok" /\ Nil # "conflict" /\ \A q \in posts : q.key \in Calls
  BY <1>t, CreationAssumption DEF CreationTypes, Calls
<1>4. /\ rows \in [Calls -> Drafts \cup {Nil}] /\ rows' \in [Calls -> Drafts \cup {Nil}]
      /\ rows'[post.key] # Nil
      /\ \A k \in Calls : rows[k] # Nil \/ k # post.key => rows'[k] = rows[k]
      /\ rows[post.key] = Nil => rows'[post.key].intent = post.intent
  <2>1. rows' = IF rows[post.key] = Nil THEN [rows EXCEPT ![post.key] = draft] ELSE rows
    BY <1>1 DEF Created
  <2> HIDE DEF draft
  <2> QED BY <1>t, <1>2, <1>3, <2>1 DEF CreationTypes
<1>5. /\ Verdict(post) = "ok" \/ Verdict(post) = "conflict"
      /\ Verdict(post) = "conflict" => /\ rows[post.key] # Nil
                                       /\ ~(rows[post.key].intent = post.intent /\ rows[post.key].active)
  <2>1. rows[post.key] # Nil => rows[post.key] \in Drafts
    BY <1>2, <1>4
  <2>2. rows[post.key] # Nil /\ rows[post.key].intent = post.intent /\ rows[post.key].active
          => rows[post.key] = draft
    BY <2>1 DEF Drafts
  <2> HIDE DEF draft
  <2> QED BY <2>2 DEF Verdict, draft
<1> HIDE DEF draft
<1>6. ASSUME NEW u \in Visits
      PROVE  /\ visit'[u] \in Visiting
             /\ visit'[u].call = visit[u].call /\ visit'[u].stage = visit[u].stage
             /\ visit'[u].tab = visit[u].tab /\ visit'[u].intent = visit[u].intent
             /\ visit'[u].key = visit[u].key
             /\ \/ visit'[u].answer = visit[u].answer
                \/ visit[u].call = post.call /\ visit'[u].answer = Verdict(post)
  <2>1. visit[u] \in Visiting
    BY <1>t DEF CreationTypes
  <2>2. CASE visit'[u] = visit[u]
    BY <2>1, <2>2
  <2>3. CASE visit[u].call = post.call /\ visit'[u] = [visit[u] EXCEPT !.answer = Verdict(post)]
    BY <1>5, <2>1, <2>3 DEF Visiting
  <2> QED BY <1>1, <2>2, <2>3
<1>7. visit' \in [Visits -> Visiting]
  <2>1. visit' = [v \in Visits |-> visit'[v]]
    BY <1>t, <1>1 DEF CreationTypes
  <2> QED BY <1>6, <2>1
<1>8. CreationTypes'
  <2>1. \A u \in Visits : Waits(visit'[u])
    BY <1>t, <1>2, <1>6 DEF CreationTypes, Waits
  <2> QED BY <1>t, <1>1, <1>4, <1>6, <1>7, <2>1 DEF CreationTypes, Waits
<1>9. \A u \in Visits : Told(visit[u])' /\ AskedWith(visit[u])'
  <2> TAKE u \in Visits
  <2>1. AskedWith(visit[u])'
    BY <1>t, <1>1, <1>6 DEF AskedWith
  <2>2. CASE visit'[u].answer = visit[u].answer
    BY <1>t, <1>4, <1>6, <2>1, <2>2 DEF Told
  <2>3. CASE visit[u].call = post.call /\ visit'[u].answer = Verdict(post)
    <3>1. visit[u].key = post.key /\ visit[u].intent = post.intent
      BY <1>t, <2>3 DEF AskedWith
    <3> QED BY <1>2, <1>4, <1>5, <1>6, <2>1, <2>3, <3>1, <1>n DEF Told
  <2> QED BY <1>6, <2>1, <2>2, <2>3 DEF Told
<1>10. KeysAreKept'
  BY <1>t, <1>1, <1>4, <1>n DEF KeysAreKept
<1>11. NoDraftIsLost'
  <2>1. rows[post.key] = Nil => \E t \in Tabs : stored[t][post.intent] = post.key
    BY <1>t DEF KeysAreKept
  <2> QED BY <1>t, <1>1, <1>2, <1>4, <2>1 DEF NoDraftIsLost
<1> QED BY <1>8, <1>9, <1>10, <1>11 DEF CreationInv

\* A lost request, and a draft that is over, take nothing away.
LEMMA AfterLoss ==
    ASSUME CreationInv, Lose \/ Finish
    PROVE  CreationInv'
<1>t. /\ CreationTypes /\ KeysAreKept /\ NoDraftIsLost
      /\ \A u \in Visits : Told(visit[u]) /\ AskedWith(visit[u])
  BY DEF CreationInv
<1>1. posts' \subseteq posts /\ UNCHANGED <<stored, visit, calls, learnt>>
  BY DEF Lose, Finish
<1>n. /\ \A q \in posts : q.key \in Calls
      /\ Nil \notin Drafts
  BY <1>t, CreationAssumption DEF CreationTypes, Calls
<1>2. /\ rows' \in [Calls -> Drafts \cup {Nil}]
      /\ \A k \in Calls : /\ rows'[k] = Nil <=> rows[k] = Nil
                          /\ rows'[k] # Nil => rows'[k].intent = rows[k].intent
                                               /\ (rows'[k].active => rows[k].active)
  <2>1. CASE Lose
    BY <1>t, <2>1 DEF Lose, CreationTypes
  <2>2. CASE Finish
    <3>1. PICK k \in Calls : rows[k] # Nil /\ rows' = [rows EXCEPT ![k].active = FALSE]
      BY <2>2 DEF Finish
    <3> DEFINE t == [rows[k] EXCEPT !.active = FALSE]
    <3>2. t \in Drafts /\ t.intent = rows[k].intent /\ ~t.active /\ rows' = [rows EXCEPT ![k] = t]
      BY <1>t, <3>1 DEF CreationTypes, Drafts
    <3> HIDE DEF t
    <3>3. t # Nil
      BY <1>n, <3>2
    <3> QED BY <1>t, <3>1, <3>2, <3>3 DEF CreationTypes
  <2> QED BY <2>1, <2>2
<1>3. CreationTypes'
  BY <1>t, <1>1, <1>2 DEF CreationTypes, Waits
<1>4. \A u \in Visits : Told(visit[u])' /\ AskedWith(visit[u])'
  BY <1>t, <1>1, <1>2 DEF Told, AskedWith
<1>5. KeysAreKept' /\ NoDraftIsLost'
  BY <1>t, <1>1, <1>2, <1>n DEF KeysAreKept, NoDraftIsLost
<1> QED BY <1>3, <1>4, <1>5 DEF CreationInv

\* Every step keeps the invariant.
LEMMA CreationPreserved == CreationInv /\ [CreationNext]_creationVars => CreationInv'
<1> SUFFICES ASSUME CreationInv, [CreationNext]_creationVars PROVE CreationInv'
  OBVIOUS
<1>1. CASE UNCHANGED creationVars
  BY <1>1 DEF creationVars, CreationInv, CreationTypes, Waits, Told, AskedWith, KeysAreKept, NoDraftIsLost
<1>2. CASE CreationNext
  BY <1>2, AfterQuiet, AfterAsk, AfterAnswer, AfterCreate, AfterLoss DEF CreationNext, Quietly
<1> QED BY <1>1, <1>2

\* It holds with no page open and no draft.
LEMMA CreationStarts == CreationInit => CreationInv
<1> SUFFICES ASSUME CreationInit PROVE CreationInv
  OBVIOUS
<1>1. 0 \in 0..MaxCalls
  BY CreationAssumption
<1>2. Nowhere \in Visiting /\ Nowhere.stage = "nowhere" /\ Nowhere.call = 0 /\ Nowhere.answer = Nil
  BY <1>1 DEF Nowhere, Visiting
<1>3. CreationTypes
  BY <1>1, <1>2 DEF CreationInit, CreationTypes, Waits
<1>4. \A v \in Visits : Told(visit[v]) /\ AskedWith(visit[v])
  BY <1>2, CreationAssumption DEF CreationInit, Told, AskedWith
<1> QED BY <1>3, <1>4 DEF CreationInit, CreationInv, KeysAreKept, NoDraftIsLost

\* Whatever creations are lost, delayed, answered late or refused, a draft no page knows of
\* is found again by the key that was kept.
THEOREM DraftsAreKept == CreationSpec => []NoDraftIsLost
<1>1. CreationInv => NoDraftIsLost
  BY DEF CreationInv
<1> QED BY CreationStarts, CreationPreserved, <1>1, PTL DEF CreationSpec

-----------------------------------------------------------------------------
(* AbuseLimits: the invariant *)

Attempts == [stage : {"rest", "prune", "count", "commit"}, dims : Seq(Subjects), left : Seq(Subjects),
             now : 0..MaxTime, expired : SUBSET Keys, own : [Keys -> Nat \cup {Untouched}],
             over : BOOLEAN]

KeysOf(subjects, now) == {<<s, Window(now)>> : s \in subjects}

\* What is still to be counted of an attempt is some of its dimensions, by the time it arrived.
Underway(a) ==
    /\ a.stage = "rest" => a = Resting
    /\ a.stage \in {"prune", "count"} => a.left # <<>>
    /\ a.stage = "commit" => a.left = <<>>
    /\ Range(a.left) \subseteq Range(a.dims)
    /\ a.now <= clock
    /\ \A key \in a.expired : key[2] < Window(a.now)

\* What a transaction wrote is a deletion of an old bucket, or the count of one dimension of its
\* attempt, one more than was committed; nothing is over its limit unless it was noticed.
Writes(a) ==
    \A key \in Keys : a.own[key] # Untouched =>
        IF key[2] = Window(a.now)
        THEN /\ a.own[key] = buckets[key] + 1
             /\ key \in KeysOf(Range(a.dims), a.now)
             /\ ~a.over => a.own[key] <= Limit[key[1]]
        ELSE a.own[key] = 0 /\ key[2] < Window(a.now)

\* Every dimension is counted already, or still to be.
AllCounted(a) ==
    \A s \in Range(a.dims) : s \in Range(a.left) \/ a.own[<<s, Window(a.now)>>] # Untouched

OneWriter ==
    \A w, x \in Workers : w # x =>
        \A key \in Keys : attempt[w].own[key] = Untouched \/ attempt[x].own[key] = Untouched

\* The bucket of the window that lasts is what was answered, and later windows have none.
BooksInv ==
    \A key \in Keys :
        /\ admitted[key] <= Limit[key[1]]
        /\ key[2] = Window(clock) => /\ buckets[key] = counted[key]
                                     /\ admitted[key] <= counted[key]
        /\ key[2] > Window(clock) => buckets[key] = 0 /\ counted[key] = 0 /\ admitted[key] = 0

LimitsInv ==
    /\ clock \in 0..MaxTime
    /\ buckets \in [Keys -> Nat] /\ counted \in [Keys -> Nat] /\ admitted \in [Keys -> Nat]
    /\ attempt \in [Workers -> Attempts]
    /\ \A w \in Workers : LET a == attempt[w] IN Underway(a) /\ Writes(a) /\ AllCounted(a)
    /\ OneWriter
    /\ BooksInv

-----------------------------------------------------------------------------
(* AbuseLimits: windows, and what is left of a sequence *)

\* What \div and % are.
LEMMA DivisionFacts ==
    ASSUME NEW w \in Nat \ {0}, NEW n \in Nat
    PROVE  n \div w \in Nat /\ n = w * (n \div w) + (n % w) /\ n % w \in 0..(w - 1)
OBVIOUS

\* The multiples of the width around a time.
LEMMA WindowBounds ==
    ASSUME NEW w \in Nat \ {0}, NEW n \in Nat
    PROVE  n \div w \in Nat /\ w * (n \div w) <= n /\ n < w * (n \div w) + w
<1> DEFINE b == n \div w
<1>1. b \in Nat /\ n = w * b + (n % w) /\ n % w \in 0..(w - 1)
  BY DivisionFacts
<1> HIDE DEF b
<1>2. w * b \in Nat
  BY <1>1
<1>3. w * b <= n /\ n < w * b + w
  BY <1>1, <1>2
<1> QED BY <1>1, <1>3 DEF b

\* Windows do not go back.
LEMMA WindowsGrow ==
    ASSUME NEW n \in Nat, NEW m \in Nat, n <= m
    PROVE  Window(n) \in Nat /\ Window(m) \in Nat /\ Window(n) <= Window(m)
<1> DEFINE w == Width
           a == n \div w
           b == m \div w
<1>0. w \in Nat \ {0}
  BY LimitsAssumption
<1> HIDE DEF w
<1>1. a \in Nat /\ b \in Nat /\ w * a <= n /\ m < w * b + w
  BY <1>0, WindowBounds
<1> HIDE DEF a, b
<1>2. a <= b
  <2> SUFFICES ASSUME ~(a <= b) PROVE FALSE
    OBVIOUS
  <2>1. b + 1 <= a
    BY <1>1
  <2>2. w * (b + 1) <= w * a /\ w * (b + 1) = w * b + w
    BY <1>0, <1>1, <2>1
  <2> QED BY <1>0, <1>1, <2>2
<1> QED BY <1>1, <1>2 DEF Window, a, b, w

\* A bucket that has ended is one of an earlier window.
LEMMA EndedIsEarlier ==
    ASSUME NEW n \in Nat, NEW key \in Keys, Ends(key) <= n
    PROVE  key[2] < Window(n)
<1> DEFINE w == Width
           b == n \div w
           k == key[2]
<1>w. w \in Nat \ {0}
  BY LimitsAssumption
<1>0. k \in Nat /\ (k + 1) * w <= n
  <2>1. Window(MaxTime) \in Nat
    BY LimitsAssumption, WindowsGrow
  <2> QED BY <2>1, LimitsAssumption DEF Keys, Ends
<1> HIDE DEF w, k
<1>1. b \in Nat /\ n < w * b + w
  BY <1>w, WindowBounds
<1> HIDE DEF b
<1>2. k < b
  <2> SUFFICES ASSUME b <= k PROVE FALSE
    BY <1>w, <1>0, <1>1
  <2>1. w * (b + 1) <= w * (k + 1)
    BY <1>w, <1>0, <1>1
  <2>2. w * (b + 1) = w * b + w /\ (k + 1) * w = w * (k + 1)
    BY <1>w, <1>0, <1>1
  <2> QED BY <1>w, <1>0, <1>1, <2>1, <2>2
<1> QED BY <1>2 DEF Window, b, k, w

\* A sequence is its head and the rest.
LEMMA RangeOfTail ==
    ASSUME NEW S, NEW s \in Seq(S), s # <<>>
    PROVE  /\ Head(s) \in S /\ Tail(s) \in Seq(S)
           /\ Range(s) = {Head(s)} \cup Range(Tail(s))
<1>1. /\ Head(s) \in S /\ Tail(s) \in Seq(S) /\ Len(Tail(s)) = Len(s) - 1
      /\ \A i \in 1 .. Len(Tail(s)) : Tail(s)[i] = s[i + 1]
  BY HeadTailProperties
<1>2. /\ Len(s) \in Nat \ {0} /\ DOMAIN s = 1..Len(s) /\ Head(s) = s[1]
      /\ DOMAIN Tail(s) = 1..Len(Tail(s))
  BY <1>1
<1>3. ASSUME NEW x \in Range(s) PROVE x \in {Head(s)} \cup Range(Tail(s))
  <2>1. PICK i \in 1..Len(s) : x = s[i]
    BY <1>2 DEF Range
  <2>2. CASE i = 1
    BY <1>2, <2>1, <2>2
  <2>3. CASE i # 1
    <3>1. i - 1 \in 1..Len(Tail(s)) /\ Tail(s)[i - 1] = s[i]
      BY <1>1, <1>2, <2>3
    <3> QED BY <1>2, <2>1, <3>1 DEF Range
  <2> QED BY <2>2, <2>3
<1>4. ASSUME NEW x \in Range(Tail(s)) PROVE x \in Range(s)
  <2>1. PICK i \in 1..Len(Tail(s)) : x = Tail(s)[i]
    BY <1>2 DEF Range
  <2>2. i + 1 \in 1..Len(s) /\ x = s[i + 1]
    BY <1>1, <1>2, <2>1
  <2> QED BY <1>2, <2>2 DEF Range
<1>5. Head(s) \in Range(s)
  BY <1>2 DEF Range
<1> QED BY <1>1, <1>3, <1>4, <1>5

\* Nothing is in the empty sequence, and what is in a sequence is of its elements.
LEMMA RangeFacts == Range(<<>>) = {} /\ \A S : \A s \in Seq(S) : Range(s) \subseteq S
<1>1. ASSUME NEW S, NEW s \in Seq(S) PROVE Range(s) \subseteq S
  BY DEF Range
<1> QED BY <1>1 DEF Range

\* An attempt counts by one or two things.
LEMMA DimensionsAreSubjects == \A d \in Dimensions : d \in Seq(Subjects) /\ d # <<>>
<1> TAKE d \in Dimensions
<1>1. CASE \E n \in Networks : d = <<n>>
  BY <1>1 DEF Subjects
<1>2. CASE \E n \in Identities : d = <<n>>
  BY <1>2 DEF Subjects
<1>3. CASE d \in Networks \X Accounts
  <2>1. PICK n \in Networks, m \in Accounts : d = <<n, m>>
    BY <1>3
  <2> QED BY <2>1 DEF Subjects
<1> QED BY <1>1, <1>2, <1>3 DEF Dimensions

\* The buckets of an attempt are buckets.
LEMMA KeysOfAttempts ==
    ASSUME LimitsInv, NEW now \in 0..MaxTime, NEW s \in Subjects
    PROVE  <<s, Window(now)>> \in Keys
<1>1. Window(now) \in Nat /\ Window(MaxTime) \in Nat /\ Window(now) <= Window(MaxTime)
  BY WindowsGrow, LimitsAssumption
<1> QED BY <1>1 DEF Keys

-----------------------------------------------------------------------------
(* AbuseLimits: the steps *)

\* Where a worker comes to another point of an attempt that is as it should be, and owns no row
\* that another does, everything is as it should be.
LEMMA WorkerMoves ==
    ASSUME LimitsInv, NEW w \in Workers, NEW a \in Attempts, Is(w, a), UNCHANGED <<clock, books>>,
           Underway(a), Writes(a), AllCounted(a),
           \A key \in Keys : \/ a.own[key] = Untouched \/ attempt[w].own[key] # Untouched
                             \/ ~Locked(w, key)
    PROVE  LimitsInv'
<1>1. /\ attempt' \in [Workers -> Attempts] /\ attempt'[w] = a
      /\ \A x \in Workers \ {w} : attempt'[x] = attempt[x]
      /\ UNCHANGED <<clock, buckets, counted, admitted>>
  BY DEF LimitsInv, Is, books
<1>2. ASSUME NEW x \in Workers
      PROVE  Underway(attempt[x])' /\ Writes(attempt[x])' /\ AllCounted(attempt[x])'
  <2>1. CASE x = w
    BY <1>1, <2>1 DEF Underway, Writes, AllCounted
  <2>2. CASE x # w
    <3>1. Underway(attempt[x]) /\ Writes(attempt[x]) /\ AllCounted(attempt[x])
      BY DEF LimitsInv
    <3> QED BY <1>1, <2>2, <3>1 DEF Underway, Writes, AllCounted
  <2> QED BY <2>1, <2>2
<1>3. OneWriter'
  <2> SUFFICES ASSUME NEW x \in Workers, NEW y \in Workers, x # y, NEW key \in Keys,
                      attempt'[x].own[key] # Untouched, attempt'[y].own[key] # Untouched
               PROVE  FALSE
    BY DEF OneWriter
  <2>0. \A u, v \in Workers : u # v =>
            attempt[u].own[key] = Untouched \/ attempt[v].own[key] = Untouched
    BY DEF LimitsInv, OneWriter
  <2>1. CASE x # w /\ y # w
    BY <1>1, <2>0, <2>1
  <2>2. CASE x = w \/ y = w
    <3>1. PICK z \in Workers \ {w} : attempt[z].own[key] # Untouched /\ a.own[key] # Untouched
      BY <1>1, <2>2
    <3>2. Locked(w, key) /\ attempt[w].own[key] = Untouched
      BY <2>0, <3>1 DEF Locked
    <3> QED BY <3>1, <3>2
  <2> QED BY <2>1, <2>2
<1>4. BooksInv'
  BY <1>1 DEF LimitsInv, BooksInv
<1> QED BY <1>1, <1>2, <1>3, <1>4 DEF LimitsInv

\* Before anything is counted no row is owned.
LEMMA RestingIsQuiet ==
    ASSUME clock \in 0..MaxTime
    PROVE  /\ Resting \in Attempts /\ Underway(Resting) /\ Writes(Resting) /\ AllCounted(Resting)
           /\ \A key \in Keys : Resting.own[key] = Untouched
<1>1. 0 \in 0..MaxTime /\ clock >= 0
  BY LimitsAssumption
<1>2. Resting \in Attempts
  BY <1>1 DEF Resting, Attempts
<1>3. /\ Resting.stage = "rest" /\ Resting.left = <<>> /\ Resting.dims = <<>> /\ Resting.now = 0
      /\ Resting.expired = {} /\ \A key \in Keys : Resting.own[key] = Untouched
  BY DEF Resting
<1> QED BY <1>1, <1>2, <1>3, RangeFacts DEF Underway, Writes, AllCounted

\* An attempt arrives: nothing is counted yet.
LEMMA AfterArrive ==
    ASSUME LimitsInv, NEW w \in Workers, Arrive(w)
    PROVE  LimitsInv'
<1>1. PICK dims \in Dimensions :
        /\ Is(w, [Resting EXCEPT !.stage = "prune", !.dims = dims, !.left = dims, !.now = clock])
        /\ UNCHANGED <<clock, books>>
  BY DEF Arrive
<1> DEFINE a == [Resting EXCEPT !.stage = "prune", !.dims = dims, !.left = dims, !.now = clock]
<1>2. clock \in 0..MaxTime /\ dims \in Seq(Subjects) /\ dims # <<>>
  BY DimensionsAreSubjects DEF LimitsInv
<1>3. Resting \in Attempts /\ \A key \in Keys : Resting.own[key] = Untouched
  BY <1>2, RestingIsQuiet
<1>4. /\ a \in Attempts /\ a.stage = "prune" /\ a.dims = dims /\ a.left = dims /\ a.now = clock
      /\ a.expired = {} /\ \A key \in Keys : a.own[key] = Untouched
  BY <1>2, <1>3 DEF Attempts, Resting
<1>5. Is(w, a)
  BY <1>1
<1> HIDE DEF a
<1>6. Underway(a) /\ Writes(a) /\ AllCounted(a)
  <2>1. clock <= clock
    BY <1>2
  <2> QED BY <1>2, <1>4, <2>1 DEF Underway, Writes, AllCounted
<1> QED BY <1>1, <1>4, <1>5, <1>6, WorkerMoves

\* A failed attempt is forgotten.
LEMMA AfterFail ==
    ASSUME LimitsInv, NEW w \in Workers, Fail(w)
    PROVE  LimitsInv'
<1>1. clock \in 0..MaxTime
  BY DEF LimitsInv
<1> QED BY <1>1, RestingIsQuiet, WorkerMoves DEF Fail

\* The buckets it sets out to delete are of earlier windows.
LEMMA AfterPrune ==
    ASSUME LimitsInv, NEW w \in Workers, Prune(w)
    PROVE  LimitsInv'
<1> DEFINE b == attempt[w]
<1>t. /\ b \in Attempts /\ Underway(b) /\ Writes(b) /\ AllCounted(b) /\ b.stage = "prune"
      /\ UNCHANGED <<clock, books>>
  BY DEF LimitsInv, Prune
<1>1. PICK keys \in Prunings(w) : Is(w, [b EXCEPT !.stage = "count", !.expired = keys])
  BY DEF Prune
<1> DEFINE a == [b EXCEPT !.stage = "count", !.expired = keys]
<1>2. keys \subseteq Expired(w)
  BY <1>1 DEF Prunings, kSubset
<1>3. \A key \in keys : key \in Keys /\ key[2] < Window(b.now)
  <2>1. b.now \in Nat
    BY <1>t DEF Attempts
  <2> QED BY <1>2, <2>1, EndedIsEarlier DEF Expired
<1>4. /\ a \in Attempts /\ a.stage = "count" /\ a.expired = keys
      /\ a.dims = b.dims /\ a.left = b.left /\ a.now = b.now /\ a.own = b.own /\ a.over = b.over
  BY <1>t, <1>3 DEF Attempts
<1> HIDE DEF a, b
<1>5. Underway(a) /\ Writes(a) /\ AllCounted(a)
  BY <1>t, <1>3, <1>4 DEF Underway, Writes, AllCounted
<1>6. Is(w, a)
  BY <1>1 DEF a
<1> QED BY <1>t, <1>4, <1>5, <1>6, WorkerMoves DEF b

\* It deletes old buckets only.
LEMMA AfterDelete ==
    ASSUME LimitsInv, NEW w \in Workers, Delete(w)
    PROVE  LimitsInv'
<1> DEFINE b == attempt[w]
<1>t. /\ b \in Attempts /\ Underway(b) /\ Writes(b) /\ AllCounted(b)
      /\ buckets \in [Keys -> Nat] /\ UNCHANGED <<clock, books>>
  BY DEF LimitsInv, Delete
<1>1. PICK old \in b.expired :
        /\ ~Locked(w, old)
        /\ Is(w, [b EXCEPT !.expired = @ \ {old},
                           !.own[old] = IF buckets[old] = 0 THEN @ ELSE 0])
  BY DEF Delete
<1> DEFINE gone == [b.own EXCEPT ![old] = IF buckets[old] = 0 THEN @ ELSE 0]
           a == [b EXCEPT !.expired = @ \ {old}, !.own = gone]
<1>2. old \in Keys /\ old[2] < Window(b.now) /\ b.own \in [Keys -> Nat \cup {Untouched}]
  BY <1>t DEF Attempts, Underway
<1>3. /\ gone \in [Keys -> Nat \cup {Untouched}]
      /\ gone[old] = 0 \/ gone[old] = b.own[old]
      /\ \A key \in Keys \ {old} : gone[key] = b.own[key]
  BY <1>2
<1>4. Is(w, a)
  BY <1>1
<1> HIDE DEF gone, b
<1>5. /\ a \in Attempts /\ a.stage = b.stage /\ a.expired = b.expired \ {old}
      /\ a.dims = b.dims /\ a.left = b.left /\ a.now = b.now /\ a.own = gone /\ a.over = b.over
  BY <1>t, <1>3 DEF Attempts
<1> HIDE DEF a
<1>6. Underway(a)
  <2>1. b.stage # "rest"
    <3>1. Resting.expired = {}
      BY DEF Resting
    <3> QED BY <1>t, <1>1, <3>1 DEF Underway
  <2> QED BY <1>t, <1>5, <2>1 DEF Underway
<1>n. old[2] \in Nat /\ Window(b.now) \in Nat
  <2>1. b.now \in Nat /\ MaxTime \in Nat
    BY <1>t, LimitsAssumption DEF Attempts
  <2>2. Window(b.now) \in Nat /\ Window(MaxTime) \in Nat
    BY <2>1, WindowsGrow
  <2> QED BY <1>2, <2>2 DEF Keys
<1>7. Writes(a)
  <2> SUFFICES ASSUME NEW key \in Keys, a.own[key] # Untouched
               PROVE  IF key[2] = Window(a.now)
                      THEN /\ a.own[key] = buckets[key] + 1
                           /\ key \in KeysOf(Range(a.dims), a.now)
                           /\ ~a.over => a.own[key] <= Limit[key[1]]
                      ELSE a.own[key] = 0 /\ key[2] < Window(a.now)
    BY DEF Writes
  <2>1. CASE gone[key] = b.own[key]
    BY <1>t, <1>5, <2>1 DEF Writes
  <2>2. CASE key = old /\ gone[key] = 0
    BY <1>n, <1>2, <1>5, <2>2
  <2> QED BY <1>3, <2>1, <2>2
<1>8. AllCounted(a)
  <2>1. 0 # Untouched
    BY LimitsAssumption
  <2>2. \A key \in Keys : b.own[key] # Untouched => gone[key] # Untouched
    BY <1>3, <2>1
  <2>3. \A s \in Range(b.dims) : <<s, Window(b.now)>> \in Keys
    <3>1. b.dims \in Seq(Subjects) /\ b.now \in 0..MaxTime
      BY <1>t DEF Attempts
    <3> QED BY <3>1, KeysOfAttempts, RangeFacts
  <2> QED BY <1>t, <1>5, <2>2, <2>3 DEF AllCounted
<1>9. \A key \in Keys : a.own[key] = Untouched \/ b.own[key] # Untouched \/ ~Locked(w, key)
  BY <1>1, <1>3, <1>5
<1> QED BY <1>t, <1>4, <1>5, <1>6, <1>7, <1>8, <1>9, WorkerMoves DEF b

\* It counts one dimension, and notices when it is over its limit.
LEMMA AfterCount ==
    ASSUME LimitsInv, NEW w \in Workers, Count(w)
    PROVE  LimitsInv'
<1> DEFINE b == attempt[w]
           subject == Head(b.left)
           one == <<subject, Window(b.now)>>
           more == Tail(b.left)
           n == buckets[one] + 1
           over == b.over \/ n > Limit[subject]
           stage == IF more = <<>> THEN "commit" ELSE "prune"
           own == [b.own EXCEPT ![one] = n]
           a == [b EXCEPT !.own = own, !.over = over, !.left = more, !.stage = stage]
<1>t. /\ b \in Attempts /\ Underway(b) /\ Writes(b) /\ AllCounted(b) /\ b.stage = "count"
      /\ b.expired = {} /\ ~Locked(w, one)
      /\ buckets \in [Keys -> Nat] /\ UNCHANGED <<clock, books>>
  BY DEF LimitsInv, Count
<1>1. Is(w, a)
  BY DEF Count
<1>2. /\ b.left \in Seq(Subjects) /\ b.left # <<>> /\ b.now \in 0..MaxTime
      /\ b.own \in [Keys -> Nat \cup {Untouched}] /\ b.dims \in Seq(Subjects) /\ b.over \in BOOLEAN
  BY <1>t DEF Attempts, Underway
<1> HIDE DEF b
<1>3. /\ subject \in Subjects /\ more \in Seq(Subjects)
      /\ Range(b.left) = {subject} \cup Range(more)
  BY <1>2, RangeOfTail
<1> HIDE DEF subject, more
<1>4. one \in Keys /\ one[1] = subject /\ one[2] = Window(b.now)
  BY <1>2, <1>3, KeysOfAttempts
<1>5. n \in Nat /\ n # Untouched
  <2>1. n \in Nat
    BY <1>t, <1>4
  <2> HIDE DEF n
  <2> QED BY <2>1, LimitsAssumption
<1>k. \A s : <<s, Window(b.now)>> = one => s = subject
  OBVIOUS
<1>m. \A key \in Keys : key[2] = Window(b.now) /\ key[1] = subject => key = one
  BY DEF Keys
<1>6. ~over => ~b.over /\ n <= Limit[subject]
  BY <1>t, <1>2, <1>3, <1>4, LimitsAssumption
<1>v. n = buckets[one] + 1
  OBVIOUS
<1> HIDE DEF one, n, over
<1>7. /\ own \in [Keys -> Nat \cup {Untouched}] /\ own[one] = n
      /\ \A key \in Keys \ {one} : own[key] = b.own[key]
  BY <1>2, <1>4, <1>5
<1>8. stage \in {"commit", "prune"} /\ (stage = "commit" <=> more = <<>>)
  OBVIOUS
<1> HIDE DEF own, stage
<1>o. over \in BOOLEAN
  BY <1>2 DEF over
<1>9. /\ a \in Attempts /\ a.stage = stage /\ a.expired = {}
      /\ a.dims = b.dims /\ a.left = more /\ a.now = b.now /\ a.own = own /\ a.over = over
  BY <1>t, <1>3, <1>7, <1>8, <1>o DEF Attempts
<1> HIDE DEF a
<1>10. Underway(a)
  BY <1>t, <1>3, <1>8, <1>9 DEF Underway
<1>11. Writes(a)
  <2> SUFFICES ASSUME NEW key \in Keys, a.own[key] # Untouched
               PROVE  IF key[2] = Window(a.now)
                      THEN /\ a.own[key] = buckets[key] + 1
                           /\ key \in KeysOf(Range(a.dims), a.now)
                           /\ ~a.over => a.own[key] <= Limit[key[1]]
                      ELSE a.own[key] = 0 /\ key[2] < Window(a.now)
    BY DEF Writes
  <2>1. CASE key # one
    BY <1>t, <1>6, <1>7, <1>9, <2>1 DEF Writes
  <2>2. CASE key = one
    <3>1. subject \in Range(b.dims)
      BY <1>t, <1>3 DEF Underway
    <3>2. one \in KeysOf(Range(b.dims), b.now)
      BY <3>1 DEF KeysOf, one
    <3> QED BY <1>4, <1>6, <1>7, <1>9, <1>v, <2>2, <3>2
  <2> QED BY <2>1, <2>2
<1>12. AllCounted(a)
  <2> SUFFICES ASSUME NEW s \in Range(b.dims), s \notin Range(more)
               PROVE  own[<<s, Window(b.now)>>] # Untouched
    BY <1>9 DEF AllCounted
  <2>1. CASE s = subject
    <3>1. <<s, Window(b.now)>> = one
      BY <2>1 DEF one
    <3> QED BY <1>5, <1>7, <3>1
  <2>2. CASE s # subject
    <3>1. b.own[<<s, Window(b.now)>>] # Untouched
      BY <1>t, <1>3, <2>2 DEF AllCounted
    <3>2. <<s, Window(b.now)>> \in Keys \ {one}
      BY <1>2, <1>k, <2>2, KeysOfAttempts, RangeFacts
    <3> QED BY <1>7, <3>1, <3>2
  <2> QED BY <2>1, <2>2
<1>13. \A key \in Keys : a.own[key] = Untouched \/ b.own[key] # Untouched \/ ~Locked(w, key)
  BY <1>t, <1>7, <1>9
<1> QED BY <1>t, <1>1, <1>9, <1>10, <1>11, <1>12, <1>13, WorkerMoves DEF b

\* What an attempt that is counted wrote: the count of each of its buckets, and no other of the
\* window it arrived in.
LEMMA CommittedFacts ==
    ASSUME LimitsInv, NEW w \in Workers, attempt[w].stage = "commit", NEW key \in Keys
    PROVE  LET a == attempt[w] IN
           /\ Buckets(a) = KeysOf(Range(a.dims), a.now)
           /\ key \in Buckets(a) => /\ Written(w)[key] = buckets[key] + 1
                                    /\ ~a.over => buckets[key] + 1 <= Limit[key[1]]
                                    /\ key[2] = Window(a.now)
           /\ key \notin Buckets(a) => \/ Written(w)[key] = buckets[key]
                                       \/ Written(w)[key] = 0 /\ key[2] < Window(a.now)
           /\ Written(w)[key] \in Nat
           /\ Window(a.now) \in Nat /\ Window(a.now) <= Window(clock)
<1> DEFINE a == attempt[w]
<1>t. /\ a \in Attempts /\ Underway(a) /\ Writes(a) /\ AllCounted(a)
      /\ clock \in 0..MaxTime /\ buckets \in [Keys -> Nat]
  BY DEF LimitsInv
<1>1. Buckets(a) = KeysOf(Range(a.dims), a.now)
  BY DEF Buckets, KeysOf, Range
<1>2. Written(w)[key] = IF a.own[key] = Untouched THEN buckets[key] ELSE a.own[key]
  BY DEF Written
<1>3. a.own[key] \in Nat \cup {Untouched} /\ buckets[key] \in Nat
  BY <1>t DEF Attempts
<1>4. key \in Buckets(a) => a.own[key] # Untouched /\ key[2] = Window(a.now)
  <2> SUFFICES ASSUME key \in Buckets(a)
               PROVE  a.own[key] # Untouched /\ key[2] = Window(a.now)
    OBVIOUS
  <2>1. PICK s \in Range(a.dims) : key = <<s, Window(a.now)>>
    BY <1>1 DEF KeysOf
  <2>2. Range(a.left) = {}
    BY <1>t, RangeFacts DEF Underway
  <2> QED BY <1>t, <2>1, <2>2 DEF AllCounted
<1>5. a.own[key] # Untouched =>
        IF key[2] = Window(a.now)
        THEN /\ a.own[key] = buckets[key] + 1 /\ key \in Buckets(a)
             /\ ~a.over => a.own[key] <= Limit[key[1]]
        ELSE a.own[key] = 0 /\ key[2] < Window(a.now)
  BY <1>t, <1>1 DEF Writes
<1>6. Window(a.now) \in Nat /\ Window(a.now) <= Window(clock)
  <2>1. a.now \in Nat /\ clock \in Nat /\ a.now <= clock
    BY <1>t DEF Attempts, Underway
  <2> QED BY <2>1, WindowsGrow
<1> HIDE DEF a
<1>7. /\ Buckets(a) = KeysOf(Range(a.dims), a.now)
      /\ key \in Buckets(a) => /\ Written(w)[key] = buckets[key] + 1
                               /\ ~a.over => buckets[key] + 1 <= Limit[key[1]]
                               /\ key[2] = Window(a.now)
      /\ key \notin Buckets(a) => \/ Written(w)[key] = buckets[key]
                                  \/ Written(w)[key] = 0 /\ key[2] < Window(a.now)
      /\ Written(w)[key] \in Nat
  BY <1>1, <1>2, <1>3, <1>4, <1>5
<1> QED BY <1>6, <1>7 DEF a

\* The books stay right when an attempt is committed, in its window or after it.
LEMMA AfterCommit ==
    ASSUME LimitsInv, NEW w \in Workers, Commit(w)
    PROVE  LimitsInv'
<1> DEFINE a == attempt[w]
           let == ~(a.over \/ Window(clock) # Window(a.now))
<1>t. /\ clock \in 0..MaxTime /\ buckets \in [Keys -> Nat] /\ counted \in [Keys -> Nat]
      /\ admitted \in [Keys -> Nat] /\ attempt \in [Workers -> Attempts]
      /\ OneWriter /\ BooksInv /\ a.stage = "commit"
      /\ \A x \in Workers : Underway(attempt[x]) /\ Writes(attempt[x]) /\ AllCounted(attempt[x])
  BY DEF LimitsInv, Commit
<1>1. /\ buckets' = Written(w) /\ counted' = Once(counted, Buckets(a))
      /\ admitted' = IF let THEN Once(admitted, Buckets(a)) ELSE admitted
      /\ attempt' = [attempt EXCEPT ![w] = Resting] /\ UNCHANGED clock
  BY DEF Commit, Is
<1>2. /\ Resting \in Attempts /\ Underway(Resting)
      /\ Resting.stage = "rest" /\ \A key \in Keys : Resting.own[key] = Untouched
  BY <1>t, RestingIsQuiet DEF Resting
<1>3. /\ attempt' \in [Workers -> Attempts] /\ attempt'[w] = Resting
      /\ \A x \in Workers \ {w} : attempt'[x] = attempt[x]
  BY <1>t, <1>1, <1>2
<1>4. ASSUME NEW key \in Keys
      PROVE  /\ buckets'[key] \in Nat /\ counted'[key] \in Nat /\ admitted'[key] \in Nat
             /\ counted'[key] = IF key \in Buckets(a) THEN counted[key] + 1 ELSE counted[key]
             /\ admitted'[key] = IF let /\ key \in Buckets(a) THEN admitted[key] + 1
                                 ELSE admitted[key]
  <2>1. counted[key] \in Nat /\ admitted[key] \in Nat
    BY <1>t
  <2>2. buckets'[key] \in Nat
    BY <1>t, <1>1, CommittedFacts
  <2> HIDE DEF let
  <2> QED BY <1>1, <2>1, <2>2 DEF Once
<1>5. buckets' \in [Keys -> Nat] /\ counted' \in [Keys -> Nat] /\ admitted' \in [Keys -> Nat]
  <2>1. /\ buckets' = [key \in Keys |-> buckets'[key]]
        /\ counted' = [key \in Keys |-> counted'[key]]
        /\ admitted' = [key \in Keys |-> admitted'[key]]
    <3> HIDE DEF let
    <3>1. buckets' = [key \in Keys |-> buckets'[key]]
      BY <1>1 DEF Written
    <3>2. counted' = [key \in Keys |-> counted'[key]]
      BY <1>1 DEF Once
    <3>3. admitted' = [key \in Keys |-> admitted'[key]]
      BY <1>t, <1>1 DEF Once
    <3> QED BY <3>1, <3>2, <3>3
  <2> QED BY <1>4, <2>1
<1>6. ASSUME NEW x \in Workers
      PROVE  Underway(attempt[x])' /\ Writes(attempt[x])' /\ AllCounted(attempt[x])'
  <2>1. CASE x = w
    <3>1. Range(Resting.dims) = {} /\ Range(Resting.left) = {}
      BY RangeFacts DEF Resting
    <3> QED BY <1>1, <1>2, <1>3, <2>1, <3>1 DEF Underway, Writes, AllCounted
  <2>2. CASE x # w
    <3> DEFINE b == attempt[x]
    <3>1. attempt'[x] = b /\ Underway(b) /\ Writes(b) /\ AllCounted(b)
      BY <1>t, <1>3, <2>2
    <3> HIDE DEF b
    <3>2. \A key \in Keys : b.own[key] # Untouched => buckets'[key] = buckets[key]
      <4> SUFFICES ASSUME NEW key \in Keys, b.own[key] # Untouched
                   PROVE  buckets'[key] = buckets[key]
        OBVIOUS
      <4>1. a.own[key] = Untouched
        BY <1>t, <2>2 DEF OneWriter, b
      <4> QED BY <1>1, <4>1 DEF Written
    <3>3. Writes(b)'
      BY <3>1, <3>2 DEF Writes, b
    <3> QED BY <1>1, <3>1, <3>2, <3>3 DEF Underway, AllCounted, Writes, b
  <2> QED BY <2>1, <2>2
<1>7. OneWriter'
  BY <1>t, <1>2, <1>3 DEF OneWriter
<1>8. BooksInv'
  <2> SUFFICES ASSUME NEW key \in Keys
               PROVE  /\ admitted'[key] <= Limit[key[1]]
                      /\ key[2] = Window(clock) => /\ buckets'[key] = counted'[key]
                                                   /\ admitted'[key] <= counted'[key]
                      /\ key[2] > Window(clock) => /\ buckets'[key] = 0 /\ counted'[key] = 0
                                                   /\ admitted'[key] = 0
    BY <1>1 DEF BooksInv, Window
  <2> DEFINE n == key[2]
             m == Window(a.now)
             here == Window(clock)
             c == counted[key]
             b == buckets[key]
             d == admitted[key]
             top == Limit[key[1]]
             in == key \in Buckets(a)
  <2>1. /\ in => /\ buckets'[key] = b + 1
                 /\ ~a.over => b + 1 <= top
                 /\ n = m
        /\ ~in => \/ buckets'[key] = b
                  \/ buckets'[key] = 0 /\ n < m
        /\ m \in Nat /\ m <= here
    BY <1>t, <1>1, CommittedFacts
  <2>2. /\ d <= top
        /\ n = here => b = c /\ d <= c
        /\ n > here => b = 0 /\ c = 0 /\ d = 0
    BY <1>t DEF BooksInv
  <2>3. /\ counted'[key] = IF in THEN c + 1 ELSE c
        /\ admitted'[key] = IF let /\ in THEN d + 1 ELSE d
        /\ let => ~a.over /\ here = m
    BY <1>4
  <2>4. c \in Nat /\ b \in Nat /\ d \in Nat /\ top \in Nat /\ n \in Nat /\ here \in Nat
    <3>1. key[1] \in Subjects /\ n \in 0..Window(MaxTime)
      BY DEF Keys
    <3>2. here \in Nat /\ Window(MaxTime) \in Nat
      BY <1>t, LimitsAssumption, WindowsGrow
    <3> QED BY <1>t, <3>1, <3>2, LimitsAssumption
  <2> HIDE DEF n, m, here, c, b, d, top, in, let
  <2>5. /\ admitted'[key] <= top
        /\ n = here => buckets'[key] = counted'[key] /\ admitted'[key] <= counted'[key]
        /\ n > here => buckets'[key] = 0 /\ counted'[key] = 0 /\ admitted'[key] = 0
    <3>1. CASE in
      <4>1. CASE n = here
        BY <2>1, <2>2, <2>3, <2>4, <3>1, <4>1
      <4>2. CASE n # here
        BY <2>1, <2>2, <2>3, <2>4, <3>1, <4>2
      <4> QED BY <4>1, <4>2
    <3>2. CASE ~in
      BY <2>1, <2>2, <2>3, <2>4, <3>2
    <3> QED BY <3>1, <3>2
  <2> QED BY <2>5 DEF n, here, top
<1> QED BY <1>t, <1>1, <1>3, <1>5, <1>6, <1>7, <1>8 DEF LimitsInv

\* Time goes on: a window that begins has nothing counted in it.
LEMMA AfterTick ==
    ASSUME LimitsInv, Tick
    PROVE  LimitsInv'
<1>1. /\ clock \in 0..MaxTime /\ clock < MaxTime /\ clock' = clock + 1
      /\ UNCHANGED <<buckets, counted, admitted, attempt>>
  BY DEF LimitsInv, Tick, books
<1>2. clock' \in 0..MaxTime /\ clock \in Nat /\ clock' \in Nat /\ clock <= clock'
  BY <1>1, LimitsAssumption
<1>3. Window(clock) \in Nat /\ Window(clock') \in Nat /\ Window(clock) <= Window(clock')
  BY <1>2, WindowsGrow
<1>4. BooksInv'
  <2> SUFFICES ASSUME NEW key \in Keys
               PROVE  /\ admitted[key] <= Limit[key[1]]
                      /\ key[2] = Window(clock') => /\ buckets[key] = counted[key]
                                                    /\ admitted[key] <= counted[key]
                      /\ key[2] > Window(clock') => /\ buckets[key] = 0 /\ counted[key] = 0
                                                    /\ admitted[key] = 0
    BY <1>1 DEF BooksInv, Window
  <2> DEFINE here == Window(clock)
             next == Window(clock')
             n == key[2]
  <2>1. /\ admitted[key] <= Limit[key[1]]
        /\ n = here => buckets[key] = counted[key] /\ admitted[key] <= counted[key]
        /\ n > here => buckets[key] = 0 /\ counted[key] = 0 /\ admitted[key] = 0
    BY DEF LimitsInv, BooksInv
  <2>2. n \in Nat
    <3>1. Window(MaxTime) \in Nat
      BY LimitsAssumption, WindowsGrow
    <3> QED BY <3>1 DEF Keys
  <2> HIDE DEF here, next, n
  <2>3. here \in Nat /\ next \in Nat /\ here <= next
    BY <1>3 DEF here, next
  <2>4. n = next => n = here \/ n > here
    BY <2>2, <2>3
  <2>5. n > next => n > here
    BY <2>2, <2>3
  <2>6. /\ n = next => buckets[key] = counted[key] /\ admitted[key] <= counted[key]
        /\ n > next => buckets[key] = 0 /\ counted[key] = 0 /\ admitted[key] = 0
    BY <2>1, <2>4, <2>5
  <2> QED BY <2>1, <2>6 DEF n, next
<1>5. ASSUME NEW x \in Workers
      PROVE  Underway(attempt[x])' /\ Writes(attempt[x])' /\ AllCounted(attempt[x])'
  <2>1. /\ Underway(attempt[x]) /\ Writes(attempt[x]) /\ AllCounted(attempt[x])
        /\ attempt[x].now \in Nat
    BY DEF LimitsInv, Attempts
  <2> QED BY <1>1, <1>2, <2>1 DEF Underway, Writes, AllCounted
<1>6. OneWriter'
  BY <1>1 DEF LimitsInv, OneWriter
<1> QED BY <1>1, <1>2, <1>4, <1>5, <1>6 DEF LimitsInv

\* Every step keeps the books right.
LEMMA LimitsPreserved == LimitsInv /\ [LimitsNext]_limitVars => LimitsInv'
<1> SUFFICES ASSUME LimitsInv, [LimitsNext]_limitVars PROVE LimitsInv'
  OBVIOUS
<1>1. CASE UNCHANGED limitVars
  BY <1>1 DEF limitVars, LimitsInv, Underway, Writes, AllCounted, OneWriter, BooksInv
<1>2. CASE LimitsNext
  BY <1>2, AfterTick, AfterArrive, AfterPrune, AfterDelete, AfterCount, AfterCommit, AfterFail
     DEF LimitsNext
<1> QED BY <1>1, <1>2

\* At first nothing is counted.
LEMMA LimitsStart == LimitsInit => LimitsInv
<1> SUFFICES ASSUME LimitsInit PROVE LimitsInv
  OBVIOUS
<1>1. clock \in 0..MaxTime
  BY LimitsAssumption DEF LimitsInit
<1>2. /\ Resting \in Attempts /\ Underway(Resting) /\ Writes(Resting) /\ AllCounted(Resting)
      /\ \A key \in Keys : Resting.own[key] = Untouched
  BY <1>1, RestingIsQuiet
<1>3. \A w \in Workers : attempt[w] = Resting
  BY DEF LimitsInit
<1>4. BooksInv
  <2>1. \A key \in Keys : Limit[key[1]] \in Nat
    BY LimitsAssumption DEF Keys
  <2> QED BY <2>1 DEF LimitsInit, BooksInv
<1>5. attempt \in [Workers -> Attempts]
  BY <1>2 DEF LimitsInit
<1> QED BY <1>1, <1>2, <1>3, <1>4, <1>5 DEF LimitsInit, LimitsInv, OneWriter

\* Limits hold however attempts, prunings, failures and the end of a window cross.
THEOREM LimitsAreKept == LimitsSpec => []LimitsHold
<1>1. LimitsInv => LimitsHold
  BY DEF LimitsInv, BooksInv, LimitsHold
<1> QED BY LimitsStart, LimitsPreserved, <1>1, PTL DEF LimitsSpec

\* The bucket of the window that lasts is the number of attempts answered: no answer is given
\* that is not counted, and no failed attempt is.
THEOREM AnswersAreCounted == LimitsSpec => []AnsweredAttemptsCount
<1>1. LimitsInv => AnsweredAttemptsCount
  BY DEF LimitsInv, BooksInv, AnsweredAttemptsCount
<1> QED BY LimitsStart, LimitsPreserved, <1>1, PTL DEF LimitsSpec

-----------------------------------------------------------------------------
(* SandboxSupervisor: the invariant *)

Roles == {"network", "db", "initialize", "backend", "ingress", "frontend"}
Watching == {"start", "watch", "withdraw"}
Tending == Watching \cup {"destroy"}

Things == Generations \X Roles

\* What a supervisor that is at work creates are roles, and what it removes is a generation's.
Creating == [stage : Watching, generation : Generations, todo : Seq(Roles),
             failed : BOOLEAN, trouble : BOOLEAN]
Destroying == [stage : {"destroy"}, generation : Generations, todo : Seq(Things),
               failed : BOOLEAN, trouble : BOOLEAN]
Beginning == [stage : {"off", "lock", "heartbeats", "marker", "discover", "reconcile", "open"},
              generation : {0}, todo : Seq(Things), failed : BOOLEAN, trouble : BOOLEAN]
Supervisors == Creating \cup Destroying \cup Beginning

\* Everything there is belongs to the generation a supervisor tends, and will be gone when it
\* has removed what it has to remove.
Clears(rs, r) == /\ r.stage = "open" => rs = {}
                 /\ r.stage = "reconcile" => rs \subseteq Range(r.todo)
                 /\ r.stage = "destroy" /\ ~r.trouble => rs \subseteq Range(r.todo)
                 /\ r.stage \in Tending => \A x \in rs : x[1] = r.generation

\* One at most holds the lock, and who is past it does.
LockInv == /\ holder \subseteq Processes
           /\ \A p, q \in holder : p = q
           /\ \A p \in Processes : process[p].stage \notin {"off", "lock"} => p \in holder

WatchedInv == \A g \in Generations : beat[g] # 0 =>
                 \/ \E p \in Processes : process[p].generation = g /\ process[p].stage \in Watching
                 \/ g \in abandoned

SupervisorInv ==
    /\ process \in [Processes -> Supervisors] /\ resources \subseteq Things
    /\ beat \in [Generations -> Nat] /\ time \in Nat
    /\ LockInv /\ OneGeneration /\ WatchedInv
    /\ \A p \in Processes : Clears(resources, process[p])

-----------------------------------------------------------------------------
(* SandboxSupervisor: the steps *)

\* A step by which one supervisor gets to where r is, and leaves all others alone: what is created
\* is its own, and a heartbeat it stops watching is invalidated, or its generation given up.
Moves(p, r) ==
    /\ Sets(p, r) /\ r \in Supervisors /\ UNCHANGED time
    /\ holder \ {p} \subseteq holder' /\ holder' \subseteq holder \cup {p}
    /\ p \in holder' => p \in holder \/ holder = {}
    /\ r.stage \notin {"off", "lock"} => p \in holder'
    /\ Clears(resources', r)
    /\ \/ resources' \subseteq resources
       \/ p \in holder /\ resources' \subseteq Things /\ \A x, y \in resources' : x[1] = y[1]
    /\ beat' \in [Generations -> Nat] /\ abandoned \subseteq abandoned'
    /\ \A g \in Generations :
          beat'[g] # 0 => beat[g] # 0 \/ (r.stage \in Watching /\ r.generation = g)
    /\ process[p].stage \in Watching => \/ r.stage \in Watching /\ r.generation = process[p].generation
                                        \/ process[p].generation \in abandoned'
                                        \/ beat'[process[p].generation] = 0

\* Such a step keeps everything as it should be.
LEMMA AfterMove ==
    ASSUME SupervisorInv, NEW p \in Processes, NEW r, Moves(p, r)
    PROVE  SupervisorInv'
<1>t. /\ process \in [Processes -> Supervisors] /\ resources \subseteq Things /\ time \in Nat
      /\ LockInv /\ OneGeneration /\ WatchedInv
      /\ \A q \in Processes : Clears(resources, process[q])
  BY DEF SupervisorInv
<1>1. /\ process' \in [Processes -> Supervisors] /\ process'[p] = r
      /\ \A q \in Processes \ {p} : process'[q] = process[q]
  BY <1>t DEF Moves, Sets
<1>2. LockInv'
  <2>1. holder' \subseteq Processes
    BY <1>t DEF Moves, LockInv
  <2>2. \A q, o \in holder' : q = o
    BY <1>t DEF Moves, LockInv
  <2>3. \A q \in Processes : process'[q].stage \notin {"off", "lock"} => q \in holder'
    BY <1>t, <1>1 DEF Moves, LockInv
  <2> QED BY <2>1, <2>2, <2>3 DEF LockInv
<1>3. OneGeneration' /\ resources' \subseteq Things
  BY <1>t DEF Moves, OneGeneration
<1>4. WatchedInv'
  <2> SUFFICES ASSUME NEW g \in Generations, beat'[g] # 0, g \notin abandoned'
               PROVE  \E q \in Processes : /\ process'[q].generation = g
                                           /\ process'[q].stage \in Watching
    BY DEF WatchedInv
  <2>1. CASE r.stage \in Watching /\ r.generation = g
    BY <1>1, <2>1
  <2>2. CASE beat[g] # 0
    <3>1. PICK q \in Processes : process[q].generation = g /\ process[q].stage \in Watching
      BY <1>t, <2>2 DEF WatchedInv, Moves
    <3>2. CASE q = p
      BY <1>1, <3>1, <3>2 DEF Moves
    <3>3. CASE q # p
      BY <1>1, <3>1, <3>3
    <3> QED BY <3>2, <3>3
  <2> QED BY <2>1, <2>2 DEF Moves
<1>5. ASSUME NEW q \in Processes PROVE Clears(resources', process'[q])
  <2>1. CASE q = p
    BY <1>1, <2>1 DEF Moves
  <2>2. CASE q # p /\ resources' \subseteq resources
    BY <1>t, <1>1, <2>2 DEF Clears
  <2>3. CASE q # p /\ p \in holder
    <3>1. process[q].stage \in {"off", "lock"}
      BY <1>t, <2>3 DEF LockInv
    <3> QED BY <1>1, <2>3, <3>1 DEF Clears, Tending, Watching
  <2> QED BY <2>1, <2>2, <2>3 DEF Moves
<1>6. time' \in Nat /\ beat' \in [Generations -> Nat]
  BY <1>t DEF Moves
<1> QED BY <1>1, <1>2, <1>3, <1>4, <1>5, <1>6 DEF SupervisorInv

\* A supervisor at one of its first stages tends nothing.
LEMMA BeginningFacts ==
    /\ Beginning \subseteq Supervisors
    /\ \A r \in Beginning : r.stage \notin Tending /\ r.stage \notin Watching
BY DEF Beginning, Supervisors, Tending, Watching

\* And has nothing to remove but what it is given.
LEMMA OffFacts ==
    /\ Off \in Beginning /\ Off.stage = "off" /\ Off.todo = <<>>
    /\ \A s \in {"lock", "heartbeats", "marker", "discover", "reconcile", "open"} :
         /\ [Off EXCEPT !.stage = s] \in Beginning
         /\ [Off EXCEPT !.stage = s].stage = s
         /\ \A todo \in Seq(Things) :
              /\ [Off EXCEPT !.stage = s, !.todo = todo] \in Beginning
              /\ [Off EXCEPT !.stage = s, !.todo = todo].stage = s
              /\ [Off EXCEPT !.stage = s, !.todo = todo].todo = todo
<1>1. <<>> \in Seq(Things)
  OBVIOUS
<1>2. Off \in Beginning /\ Off.stage = "off" /\ Off.todo = <<>>
  BY <1>1 DEF Off, Beginning
<1>3. ASSUME NEW s \in {"lock", "heartbeats", "marker", "discover", "reconcile", "open"}
      PROVE  /\ [Off EXCEPT !.stage = s] \in Beginning
             /\ [Off EXCEPT !.stage = s].stage = s
             /\ \A todo \in Seq(Things) :
                  /\ [Off EXCEPT !.stage = s, !.todo = todo] \in Beginning
                  /\ [Off EXCEPT !.stage = s, !.todo = todo].stage = s
                  /\ [Off EXCEPT !.stage = s, !.todo = todo].todo = todo
  BY <1>2 DEF Beginning
<1> QED BY <1>2, <1>3

\* A supervisor that ends tends nothing more, and says so of what it watched.
LEMMA AfterExit ==
    ASSUME SupervisorInv, NEW p \in Processes, Exits(p), UNCHANGED <<resources, time>>,
           beat' \in [Generations -> Nat], \A g \in Generations : beat'[g] # 0 => beat[g] # 0,
           abandoned \subseteq abandoned',
           process[p].stage \in Watching => process[p].generation \in abandoned'
    PROVE  SupervisorInv'
<1>2. Off \in Supervisors /\ Off.stage = "off"
  BY OffFacts, BeginningFacts
<1>3. Clears(resources', Off)
  BY <1>2 DEF Clears, Tending, Watching
<1>4. /\ Sets(p, Off) /\ holder' = holder \ {p}
  BY DEF Exits
<1>5. Moves(p, Off)
  <2>1. /\ holder \ {p} \subseteq holder' /\ holder' \subseteq holder \cup {p} /\ p \notin holder'
    BY <1>4
  <2> QED BY <1>2, <1>3, <1>4, <2>1 DEF Moves
<1> QED BY <1>5, AfterMove

\* A supervisor that tends nothing goes on to another of its first stages.
LEMMA AfterStage ==
    ASSUME SupervisorInv, NEW p \in Processes, NEW r \in Beginning,
           Sets(p, r), UNCHANGED <<resources, time>>,
           holder \ {p} \subseteq holder', holder' \subseteq holder \cup {p},
           p \in holder' => p \in holder \/ holder = {}, r.stage # "lock" => p \in holder',
           r.stage = "reconcile" => resources \subseteq Range(r.todo),
           r.stage = "open" => resources = {},
           beat' \in [Generations -> Nat], \A g \in Generations : beat'[g] # 0 => beat[g] # 0,
           abandoned \subseteq abandoned', process[p].stage \notin Watching
    PROVE  SupervisorInv'
<1>1. r \in Supervisors /\ r.stage \notin Tending /\ r.stage \notin Watching
  BY BeginningFacts
<1>2. r.stage # "destroy"
  BY <1>1 DEF Tending
<1>3. Clears(resources', r)
  BY <1>1, <1>2 DEF Clears
<1>4. Moves(p, r)
  BY <1>1, <1>3 DEF Moves
<1> QED BY <1>4, AfterMove

\* Heartbeats that are invalidated are none.
LEMMA InvalidatedFacts ==
    ASSUME SupervisorInv, NEW gs
    PROVE  /\ Invalidated(gs) \in [Generations -> Nat]
           /\ \A g \in Generations : /\ Invalidated(gs)[g] # 0 => beat[g] # 0
                                     /\ g \in gs => Invalidated(gs)[g] = 0
<1>1. beat \in [Generations -> Nat]
  BY DEF SupervisorInv
<1> QED BY <1>1 DEF Invalidated

\* What every supervisor there is looks like.
LEMMA ProcessFacts ==
    ASSUME SupervisorInv, NEW p \in Processes
    PROVE  /\ process[p] \in Supervisors /\ Clears(resources, process[p])
           /\ process[p].stage \in Watching => process[p] \in Creating
           /\ process[p].stage = "destroy" => process[p] \in Destroying
           /\ process[p].stage \notin Tending => process[p] \in Beginning
           /\ process[p].stage \notin {"off", "lock"} => p \in holder
           /\ beat \in [Generations -> Nat] /\ time \in Nat /\ resources \subseteq Things
<1>1. /\ process[p] \in Supervisors /\ Clears(resources, process[p])
      /\ process[p].stage \notin {"off", "lock"} => p \in holder
      /\ beat \in [Generations -> Nat] /\ time \in Nat /\ resources \subseteq Things
  BY DEF SupervisorInv, LockInv
<1>2. \A r \in Supervisors : /\ r.stage \in Watching => r \in Creating
                             /\ r.stage = "destroy" => r \in Destroying
                             /\ r.stage \notin Tending => r \in Beginning
  BY DEF Supervisors, Creating, Destroying, Beginning, Tending, Watching
<1> QED BY <1>1, <1>2

\* Up to the lock, and past the fail-stop marker.
LEMMA AfterBeginning ==
    ASSUME SupervisorInv, NEW p \in Processes,
           StartProcess(p) \/ Lock(p) \/ InvalidateOrphans(p) \/ CheckMarker(p)
    PROVE  SupervisorInv'
<1> DEFINE At(s) == [Off EXCEPT !.stage = s]
<1>t. /\ beat \in [Generations -> Nat]
      /\ process[p].stage \notin {"off", "lock"} => p \in holder
  BY ProcessFacts
<1>n. \A s \in {"off", "lock", "heartbeats", "marker"} : s \notin Watching
  BY DEF Watching
<1>f. \A s \in {"lock", "heartbeats", "marker", "discover"} : At(s) \in Beginning /\ At(s).stage = s
  <2>1. Off \in Beginning
    BY OffFacts
  <2> QED BY <2>1 DEF Beginning
<1>1. CASE StartProcess(p)
  <2>1. process[p].stage = "off" /\ Sets(p, At("lock")) /\ UNCHANGED <<holder, resources, beat, abandoned, time>>
    BY <1>1 DEF StartProcess, In, host
  <2> HIDE DEF At
  <2>2. /\ p \in holder' => p \in holder \/ holder = {}
        /\ holder \ {p} \subseteq holder' /\ holder' \subseteq holder \cup {p}
    BY <2>1
  <2> QED BY <1>t, <1>n, <1>f, <2>1, <2>2, AfterStage
<1>2. CASE Lock(p)
  <2>1. process[p].stage = "lock" /\ UNCHANGED <<resources, beat, abandoned, time>>
    BY <1>2 DEF Lock, In, host
  <2>2. CASE Exits(p)
    BY <1>t, <1>n, <2>1, <2>2, AfterExit
  <2>3. CASE holder = {} /\ holder' = holder \cup {p} /\ Sets(p, At("heartbeats"))
    <3> HIDE DEF At
    <3> QED BY <1>t, <1>n, <1>f, <2>1, <2>3, AfterStage
  <2> QED BY <1>2, <2>2, <2>3 DEF Lock, LockFree
<1>3. CASE InvalidateOrphans(p)
  <2>1. /\ process[p].stage = "heartbeats" /\ Sets(p, At("marker"))
        /\ beat' = Invalidated(files) /\ UNCHANGED <<holder, resources, abandoned, time>>
    BY <1>3 DEF InvalidateOrphans, In
  <2> HIDE DEF At
  <2>2. beat' \in [Generations -> Nat] /\ \A g \in Generations : beat'[g] # 0 => beat[g] # 0
    BY <2>1, InvalidatedFacts
  <2>3. p \in holder /\ holder \ {p} \subseteq holder' /\ holder' \subseteq holder \cup {p}
    BY <1>t, <2>1
  <2> QED BY <1>t, <1>n, <1>f, <2>1, <2>2, <2>3, AfterStage
<1>4. CASE CheckMarker(p)
  <2>1. process[p].stage = "marker" /\ UNCHANGED <<resources, beat, abandoned, time>>
    BY <1>4 DEF CheckMarker, In, host
  <2>2. CASE Exits(p)
    BY <1>t, <1>n, <2>1, <2>2, AfterExit
  <2>3. CASE Sets(p, At("discover")) /\ UNCHANGED holder
    <3> HIDE DEF At
    <3>1. p \in holder /\ holder \ {p} \subseteq holder' /\ holder' \subseteq holder \cup {p}
      BY <1>t, <2>1, <2>3
    <3> QED BY <1>t, <1>n, <1>f, <2>1, <2>3, <3>1, AfterStage
  <2> QED BY <1>4, <2>2, <2>3 DEF CheckMarker
<1> QED BY <1>1, <1>2, <1>3, <1>4

\* Removal is all of six roles.
LEMMA RemovalFacts == /\ Removal \in Seq(Roles) /\ Len(Removal) = 6
                      /\ Range(Removal) = Roles /\ Creation \in Seq(Roles)
<1>1. Removal \in Seq(Roles) /\ Len(Removal) = 6 /\ Creation \in Seq(Roles)
  BY DEF Removal, Roles, Creation
<1>2. /\ Removal[1] = "frontend" /\ Removal[2] = "backend" /\ Removal[3] = "initialize"
      /\ Removal[4] = "db" /\ Removal[5] = "ingress" /\ Removal[6] = "network"
  BY DEF Removal
<1>3. Roles \subseteq Range(Removal)
  <2>1. DOMAIN Removal = 1..6
    BY <1>1
  <2>2. ASSUME NEW x \in Roles PROVE \E i \in 1..6 : Removal[i] = x
    BY <1>2 DEF Roles
  <2> QED BY <2>1, <2>2 DEF Range
<1>4. Range(Removal) \subseteq Roles
  BY <1>1, RangeFacts
<1> QED BY <1>1, <1>3, <1>4

\* A generation's removal is of everything it can have.
LEMMA OfFacts ==
    ASSUME NEW g \in Generations
    PROVE  Of(g, Removal) \in Seq(Things) /\ Range(Of(g, Removal)) = {g} \X Roles
<1>1. Removal \in Seq(Roles) /\ Range(Removal) = Roles
  BY RemovalFacts
<1>2. Of(g, Removal) \in Seq(Things)
  BY <1>1 DEF Of, Things
<1>3. Range(Of(g, Removal)) = {<<g, x>> : x \in Range(Removal)}
  BY DEF Of, Range
<1> QED BY <1>1, <1>2, <1>3

\* In whatever order generations are listed, all that is found is removed.
LEMMA RemovalCovers ==
    ASSUME resources \subseteq Things, NEW list \in Listings(Found)
    PROVE  RemovalOf(list) \in Seq(Things) /\ resources \subseteq Range(RemovalOf(list))
<1> DEFINE k == Cardinality(Found)
           At(i) == <<list[1 + ((i - 1) \div 6)], Removal[1 + ((i - 1) % 6)]>>
<1>1. Found \subseteq Generations /\ k \in Nat
  <2>1. Found \subseteq Generations
    BY DEF Found, Things
  <2> QED BY <2>1, SupervisorAssumption, FS_Subset, FS_CardinalityType
<1>2. /\ list \in [1..k -> Found] /\ list \in Seq(Generations) /\ Len(list) = k
      /\ \A g \in Found : \E i \in 1..k : list[i] = g
  BY <1>1 DEF Listings
<1>3. RemovalOf(list) = [i \in 1..(6 * k) |-> At(i)]
  BY <1>2, RemovalFacts DEF RemovalOf
<1> HIDE DEF k
<1>4. \A i \in 1..(6 * k) : /\ 1 + ((i - 1) \div 6) \in 1..k
                            /\ 1 + ((i - 1) % 6) \in 1..6
  BY <1>1
<1>5. \A i \in 1..(6 * k) : At(i) \in Things
  <2>1. \A j \in 1..6 : Removal[j] \in Roles
    BY RemovalFacts, ElementOfSeq
  <2>2. \A i \in 1..k : list[i] \in Generations
    BY <1>1, <1>2
  <2> QED BY <1>4, <2>1, <2>2 DEF Things
<1>6. ASSUME NEW x \in resources PROVE \E i \in 1..(6 * k) : At(i) = x
  <2>1. PICK g \in Found, role \in Roles : x = <<g, role>>
    BY DEF Found, Things
  <2>2. PICK m \in 1..k : list[m] = g
    BY <1>2
  <2>3. PICK j \in 1..6 : Removal[j] = role
    BY RemovalFacts DEF Range
  <2> DEFINE i == 6 * (m - 1) + j
  <2>4. i \in 1..(6 * k) /\ (i - 1) \div 6 = m - 1 /\ (i - 1) % 6 = j - 1
    BY <1>1
  <2> HIDE DEF i
  <2>5. 1 + (m - 1) = m /\ 1 + (j - 1) = j
    OBVIOUS
  <2>6. At(i) = x
    BY <2>1, <2>2, <2>3, <2>4, <2>5
  <2> QED BY <2>4, <2>6
<1> HIDE DEF At
<1>7. 6 * k \in Nat
  BY <1>1
<1>8. RemovalOf(list) \in Seq(Things) /\ DOMAIN RemovalOf(list) = 1..(6 * k)
  BY <1>3, <1>5, <1>7
<1>9. resources \subseteq Range(RemovalOf(list))
  BY <1>3, <1>6, <1>8 DEF Range
<1> QED BY <1>8, <1>9

\* The earliest of the generations that are left is one of them.
LEMMA FreshFacts == Fresh # {} => Min(Fresh) \in Generations
<1> SUFFICES ASSUME Fresh # {} PROVE Min(Fresh) \in Generations
  OBVIOUS
<1>1. Fresh \subseteq Nat /\ Fresh \subseteq Generations
  BY SupervisorAssumption DEF Fresh
<1>2. PICK g \in Fresh : \A h \in Fresh : ~(<<h, g>> \in OpToRel(<, Nat))
  BY <1>1, NatLessThanWellFounded, WFMin
<1>3. \A h \in Fresh : ~(h < g)
  BY <1>1, <1>2, Zenon DEF OpToRel
<1>5. \A h \in Fresh : g =< h
  BY <1>1, <1>3
<1>4. Min(Fresh) \in Fresh
  BY <1>5 DEF Min
<1> QED BY <1>1, <1>4

\* Reconciling removes all that was found before it opens a generation.
LEMMA AfterReconciling ==
    ASSUME SupervisorInv, NEW p \in Processes, Discover(p) \/ Reconciled(p) \/ FailReconciling(p)
    PROVE  SupervisorInv'
<1>t. /\ beat \in [Generations -> Nat] /\ resources \subseteq Things
      /\ process[p].stage \notin {"off", "lock"} => p \in holder
      /\ Clears(resources, process[p])
  BY ProcessFacts
<1>n. \A s \in {"heartbeats", "discover", "reconcile"} : s \notin Watching
  BY DEF Watching
<1>1. CASE Discover(p)
  <2>1. PICK list \in Listings(Found) :
          /\ process[p].stage = "discover"
          /\ Sets(p, [Off EXCEPT !.stage = "reconcile", !.todo = RemovalOf(list)])
          /\ UNCHANGED <<holder, resources, beat, abandoned, time>>
    BY <1>1 DEF Discover, In, host
  <2> DEFINE todo == RemovalOf(list)
             r == [Off EXCEPT !.stage = "reconcile", !.todo = todo]
  <2>2. todo \in Seq(Things) /\ resources \subseteq Range(todo)
    BY <1>t, RemovalCovers
  <2>3. Sets(p, r)
    BY <2>1
  <2> HIDE DEF todo
  <2>4. r \in Beginning /\ r.stage = "reconcile" /\ r.todo = todo
    <3>1. Off \in Beginning
      BY OffFacts
    <3> QED BY <2>2, <3>1 DEF Beginning
  <2> HIDE DEF r
  <2>5. p \in holder /\ holder \ {p} \subseteq holder' /\ holder' \subseteq holder \cup {p}
    BY <1>t, <2>1
  <2> QED BY <1>t, <1>n, <2>1, <2>2, <2>3, <2>4, <2>5, AfterStage
<1>2. CASE Reconciled(p)
  <2> DEFINE r == [Off EXCEPT !.stage = "open"]
  <2>1. /\ process[p].stage = "reconcile" /\ process[p].todo = <<>> /\ Sets(p, r)
        /\ UNCHANGED <<holder, resources, beat, abandoned, time>>
    BY <1>2 DEF Reconciled, In, host
  <2>2. r \in Beginning /\ r.stage = "open"
    <3>1. Off \in Beginning
      BY OffFacts
    <3> QED BY <3>1 DEF Beginning
  <2> HIDE DEF r
  <2>3. resources = {}
    BY <1>t, <2>1, RangeFacts DEF Clears
  <2>4. p \in holder /\ holder \ {p} \subseteq holder' /\ holder' \subseteq holder \cup {p}
    BY <1>t, <2>1
  <2> QED BY <1>t, <1>n, <2>1, <2>2, <2>3, <2>4, AfterStage
<1>3. CASE FailReconciling(p)
  <2>1. /\ process[p].stage \in {"heartbeats", "discover", "reconcile"} /\ Exits(p)
        /\ UNCHANGED <<resources, abandoned, time>>
        /\ beat' = beat \/ \E gs \in SUBSET files : beat' = Invalidated(gs)
    BY <1>3 DEF FailReconciling, In, MarksAndExits
  <2>2. beat' \in [Generations -> Nat] /\ \A g \in Generations : beat'[g] # 0 => beat[g] # 0
    BY <1>t, <2>1, InvalidatedFacts
  <2> QED BY <1>n, <2>1, <2>2, AfterExit
<1> QED BY <1>1, <1>2, <1>3

\* What is removed is no longer to be removed.
LEMMA AfterRemoveNext ==
    ASSUME SupervisorInv, NEW p \in Processes, RemoveNext(p)
    PROVE  SupervisorInv'
<1> DEFINE b == process[p]
           rest == Tail(b.todo)
           r == [b EXCEPT !.todo = rest]
<1>t. /\ beat \in [Generations -> Nat] /\ resources \subseteq Things
      /\ b.stage \notin {"off", "lock"} => p \in holder
      /\ Clears(resources, b)
      /\ b.stage = "destroy" => b \in Destroying
      /\ b.stage \notin Tending => b \in Beginning
  BY ProcessFacts
<1>1. /\ b.stage = "reconcile" \/ b.stage = "destroy"
      /\ b.todo # <<>> /\ resources' = resources \ {Head(b.todo)}
      /\ Sets(p, r) /\ UNCHANGED <<holder, beat, abandoned, time>>
  BY DEF RemoveNext, In
<1>n. /\ "reconcile" \notin Tending /\ "reconcile" \notin Watching /\ "destroy" \notin Watching
  BY DEF Tending, Watching
<1>2. b.todo \in Seq(Things) /\ (b \in Destroying \/ b \in Beginning)
  BY <1>t, <1>1, <1>n DEF Destroying, Beginning
<1> HIDE DEF b
<1>3. rest \in Seq(Things) /\ Range(b.todo) = {Head(b.todo)} \cup Range(rest)
  BY <1>1, <1>2, RangeOfTail
<1> HIDE DEF rest
<1>4. /\ r \in Supervisors /\ r.stage = b.stage /\ r.todo = rest /\ r.trouble = b.trouble
      /\ r.generation = b.generation
  <2>1. CASE b \in Destroying
    BY <1>3, <2>1 DEF Supervisors, Destroying
  <2>2. CASE b \in Beginning
    BY <1>3, <2>2 DEF Supervisors, Beginning
  <2> QED BY <1>2, <2>1, <2>2
<1> HIDE DEF r
<1>5. Clears(resources', r)
  BY <1>t, <1>1, <1>3, <1>4 DEF Clears
<1>6. p \in holder
  BY <1>t, <1>1
<1>7. Moves(p, r)
  <2>1. b.stage \notin Watching /\ resources' \subseteq resources
    BY <1>1, <1>n
  <2>2. holder \ {p} \subseteq holder' /\ holder' \subseteq holder \cup {p}
    BY <1>1
  <2> QED BY <1>t, <1>1, <1>4, <1>5, <1>6, <2>1, <2>2 DEF Moves, b
<1> QED BY <1>7, AfterMove

\* A generation is opened when nothing is left of any other.
LEMMA AfterOpen ==
    ASSUME SupervisorInv, NEW p \in Processes, Open(p)
    PROVE  SupervisorInv'
<1> DEFINE g == Min(Fresh)
           r1 == [Off EXCEPT !.stage = "start", !.generation = g, !.todo = Creation]
           todo == Of(g, Removal)
           r2 == [Off EXCEPT !.stage = "destroy", !.generation = g, !.todo = todo, !.failed = TRUE]
<1>t. /\ beat \in [Generations -> Nat] /\ time \in Nat /\ resources \subseteq Things
      /\ process[p].stage \notin {"off", "lock"} => p \in holder
      /\ Clears(resources, process[p])
  BY ProcessFacts
<1>1. /\ process[p].stage = "open" /\ g \in Generations
      /\ UNCHANGED <<holder, resources, abandoned, time>>
      /\ \/ beat' = [beat EXCEPT ![g] = time] /\ Sets(p, r1)
         \/ UNCHANGED beat /\ Sets(p, r2)
  BY FreshFacts DEF Open, In
<1> HIDE DEF g
<1>2. todo \in Seq(Things) /\ Creation \in Seq(Roles)
  BY <1>1, OfFacts, RemovalFacts
<1> HIDE DEF todo
<1>n. /\ "open" \notin Watching /\ "start" \in Watching /\ "start" \in Tending
      /\ "destroy" \in Tending /\ "destroy" \notin Watching
  BY DEF Tending, Watching
<1>o. Off \in Beginning
  BY OffFacts
<1>3. r1 \in Supervisors /\ r1.stage = "start" /\ r1.generation = g
  <2>1. r1 \in Creating /\ r1.stage = "start" /\ r1.generation = g
    BY <1>o, <1>1, <1>2, <1>n DEF Beginning, Creating
  <2> QED BY <2>1 DEF Supervisors
<1>4. r2 \in Supervisors /\ r2.stage = "destroy" /\ r2.generation = g
  <2>1. r2 \in Destroying /\ r2.stage = "destroy" /\ r2.generation = g
    BY <1>o, <1>1, <1>2 DEF Beginning, Destroying
  <2> QED BY <2>1 DEF Supervisors
<1> HIDE DEF r1, r2
<1>5. resources = {} /\ p \in holder
  BY <1>t, <1>1 DEF Clears
<1>6. Clears(resources', r1) /\ Clears(resources', r2)
  BY <1>1, <1>3, <1>4, <1>5 DEF Clears
<1>7. CASE beat' = [beat EXCEPT ![g] = time] /\ Sets(p, r1)
  <2>1. /\ beat' \in [Generations -> Nat]
        /\ \A h \in Generations : beat'[h] # 0 => beat[h] # 0 \/ h = g
    BY <1>t, <1>1, <1>7
  <2>2. Moves(p, r1)
    BY <1>t, <1>1, <1>n, <1>3, <1>5, <1>6, <1>7, <2>1 DEF Moves
  <2> QED BY <2>2, AfterMove
<1>8. CASE UNCHANGED beat /\ Sets(p, r2)
  <2>1. Moves(p, r2)
    BY <1>t, <1>1, <1>n, <1>4, <1>5, <1>6, <1>8 DEF Moves
  <2> QED BY <2>1, AfterMove
<1> QED BY <1>1, <1>7, <1>8

\* A supervisor that creates, watches, or sets out to remove goes on so.
LEMMA AfterTending ==
    ASSUME SupervisorInv, NEW p \in Processes, process[p].stage \in Watching, NEW r \in Creating,
           Sets(p, r), r.generation = process[p].generation, UNCHANGED <<holder, time, beat, abandoned>>,
           \/ resources' \subseteq resources
           \/ \E role \in Roles : resources' = resources \cup {<<process[p].generation, role>>}
    PROVE  SupervisorInv'
<1> DEFINE g == process[p].generation
<1>t. /\ beat \in [Generations -> Nat] /\ resources \subseteq Things
      /\ process[p] \in Creating /\ p \in holder /\ Clears(resources, process[p])
  <2>1. process[p].stage \notin {"off", "lock"}
    BY DEF Watching
  <2> QED BY <2>1, ProcessFacts
<1>1. g \in Generations /\ r.stage \in Watching /\ r.stage \in Tending /\ r \in Supervisors
      /\ r.stage # "open" /\ r.stage # "reconcile" /\ r.stage # "destroy" /\ r.stage # "off"
  BY <1>t DEF Creating, Supervisors, Tending, Watching
<1>2. \A x \in resources : x[1] = g
  BY <1>t DEF Clears, Tending
<1>3. \A role \in Roles : <<g, role>> \in Things /\ <<g, role>>[1] = g
  BY <1>1 DEF Things
<1>4. resources' \subseteq Things /\ \A x \in resources' : x[1] = g
  BY <1>t, <1>2, <1>3
<1>5. Clears(resources', r)
  BY <1>1, <1>4 DEF Clears
<1>6. \A x, y \in resources' : x[1] = y[1]
  BY <1>4
<1>7. Moves(p, r)
  BY <1>t, <1>1, <1>4, <1>5, <1>6 DEF Moves
<1> QED BY <1>7, AfterMove

\* The steps of a supervisor that tends a generation, up to its removal.
LEMMA AfterCreating ==
    ASSUME SupervisorInv, NEW p \in Processes,
           CreateNext(p) \/ Started(p) \/ Expire(p) \/ FailGeneration(p)
    PROVE  SupervisorInv'
<1> DEFINE b == process[p]
<1>n. "start" \in Watching /\ "watch" \in Watching /\ "withdraw" \in Watching
  BY DEF Watching
<1>1. b.stage \in Watching /\ UNCHANGED <<holder, time, beat, abandoned>>
  BY <1>n DEF CreateNext, Started, Expire, FailGeneration, In, host
<1>t. b \in Creating
  BY <1>1, ProcessFacts
<1>2. b.todo \in Seq(Roles)
  BY <1>t DEF Creating
<1>3. b.todo # <<>> => Head(b.todo) \in Roles /\ Tail(b.todo) \in Seq(Roles)
  BY <1>2, RangeOfTail
<1>4. CASE CreateNext(p)
  <2> DEFINE rest == Tail(b.todo)
             r == [b EXCEPT !.todo = rest]
  <2>1. /\ b.todo # <<>> /\ Sets(p, r)
        /\ \/ resources' \subseteq resources
           \/ resources' = resources \cup {<<b.generation, Head(b.todo)>>}
    BY <1>4 DEF CreateNext, Resource
  <2> HIDE DEF b
  <2>2. rest \in Seq(Roles)
    BY <1>3, <2>1
  <2> HIDE DEF rest
  <2>3. r \in Creating /\ r.generation = b.generation
    BY <1>t, <2>2 DEF Creating
  <2> HIDE DEF r
  <2> QED BY <1>1, <1>3, <2>1, <2>3, AfterTending DEF b
<1>5. CASE Started(p) \/ Expire(p)
  <2>1. UNCHANGED resources /\ \E s \in Watching : Sets(p, [b EXCEPT !.stage = s])
    BY <1>5, <1>n DEF Started, Expire, host
  <2>2. PICK s \in Watching : Sets(p, [b EXCEPT !.stage = s])
    BY <2>1
  <2> DEFINE r == [b EXCEPT !.stage = s]
  <2>3. Sets(p, r)
    BY <2>2
  <2> HIDE DEF b
  <2>4. r \in Creating /\ r.generation = b.generation
    BY <1>t DEF Creating
  <2> HIDE DEF r
  <2> QED BY <1>1, <2>1, <2>3, <2>4, AfterTending DEF b
<1>6. CASE FailGeneration(p)
  <2> DEFINE r == [b EXCEPT !.stage = "withdraw", !.failed = TRUE]
  <2>1. /\ Sets(p, r)
        /\ \/ resources' \subseteq resources
           \/ b.todo # <<>> /\ resources' = resources \cup {<<b.generation, Head(b.todo)>>}
    BY <1>6 DEF FailGeneration, Resource
  <2> HIDE DEF b
  <2>2. r \in Creating /\ r.generation = b.generation
    BY <1>t, <1>n DEF Creating
  <2> HIDE DEF r
  <2> QED BY <1>1, <1>3, <2>1, <2>2, AfterTending DEF b
<1> QED BY <1>4, <1>5, <1>6

\* Only who watches a generation refreshes its heartbeat.
LEMMA AfterRefresh ==
    ASSUME SupervisorInv, NEW p \in Processes, Refresh(p)
    PROVE  SupervisorInv'
<1> DEFINE g == process[p].generation
<1>1. /\ process[p].stage \in Watching /\ beat' = [beat EXCEPT ![g] = time]
      /\ UNCHANGED <<process, holder, resources, abandoned, time>>
  BY DEF Refresh, In, Watching
<1>2. beat \in [Generations -> Nat] /\ time \in Nat
  BY DEF SupervisorInv
<1>3. WatchedInv'
  <2> SUFFICES ASSUME NEW h \in Generations, beat'[h] # 0
               PROVE  \/ \E q \in Processes : process[q].generation = h /\ process[q].stage \in Watching
                      \/ h \in abandoned
    BY <1>1 DEF WatchedInv
  <2>1. CASE h = g
    BY <1>1, <2>1
  <2>2. CASE h # g
    <3>1. beat[h] # 0
      BY <1>1, <1>2, <2>2
    <3> QED BY <3>1 DEF SupervisorInv, WatchedInv
  <2> QED BY <2>1, <2>2
<1>4. beat' \in [Generations -> Nat]
  BY <1>1, <1>2
<1> QED BY <1>1, <1>3, <1>4 DEF SupervisorInv, LockInv, OneGeneration

\* The heartbeat goes before the containers, unless that fails.
LEMMA AfterWithdraw ==
    ASSUME SupervisorInv, NEW p \in Processes, Withdraw(p)
    PROVE  SupervisorInv'
<1> DEFINE b == process[p]
           g == b.generation
           todo == Of(g, Removal)
<1>1. PICK trouble \in BOOLEAN :
        /\ IF trouble THEN /\ beat' \in {beat, Invalidated({g})}
                           /\ abandoned' = abandoned \cup {g}
           ELSE beat' = Invalidated({g}) /\ UNCHANGED abandoned
        /\ Sets(p, [b EXCEPT !.stage = "destroy", !.todo = todo, !.trouble = trouble])
        /\ b.stage = "withdraw" /\ UNCHANGED <<holder, resources, time>>
  BY DEF Withdraw, In
<1> DEFINE r == [b EXCEPT !.stage = "destroy", !.todo = todo, !.trouble = trouble]
<1>t. /\ beat \in [Generations -> Nat] /\ resources \subseteq Things
      /\ b \in Creating /\ p \in holder /\ Clears(resources, b)
  <2>1. "withdraw" \in Watching /\ b.stage \notin {"off", "lock"}
    BY <1>1 DEF Watching
  <2> QED BY <1>1, <2>1, ProcessFacts
<1>2. g \in Generations
  BY <1>t DEF Creating
<1>3. todo \in Seq(Things) /\ Range(todo) = {g} \X Roles
  BY <1>2, OfFacts
<1>4. resources \subseteq {g} \X Roles
  <2>1. \A x \in resources : x[1] = g
    BY <1>t, <1>1 DEF Clears, Tending, Watching
  <2> QED BY <1>t, <2>1 DEF Things
<1>5. /\ beat' \in [Generations -> Nat] /\ \A h \in Generations : beat'[h] # 0 => beat[h] # 0
      /\ beat'[g] = 0 \/ g \in abandoned'
  <2>1. g \in {g}
    OBVIOUS
  <2>2. /\ Invalidated({g}) \in [Generations -> Nat] /\ Invalidated({g})[g] = 0
        /\ \A h \in Generations : Invalidated({g})[h] # 0 => beat[h] # 0
    BY <1>2, <2>1, InvalidatedFacts
  <2> HIDE DEF g
  <2> QED BY <1>t, <1>1, <2>1, <2>2
<1>6. Sets(p, r)
  BY <1>1
<1> HIDE DEF todo, g, b
<1>7. /\ r \in Supervisors /\ r.stage = "destroy" /\ r.todo = todo /\ r.generation = g
  <2>1. r \in Destroying /\ r.stage = "destroy" /\ r.todo = todo /\ r.generation = g
    BY <1>t, <1>3 DEF Creating, Destroying, g
  <2> QED BY <2>1 DEF Supervisors
<1> HIDE DEF r
<1>8. Clears(resources', r)
  BY <1>1, <1>3, <1>4, <1>7 DEF Clears
<1>9. Moves(p, r)
  <2>1. /\ "destroy" \notin Watching /\ abandoned \subseteq abandoned'
    BY <1>1 DEF Watching
  <2> QED BY <1>t, <1>1, <1>5, <1>6, <1>7, <1>8, <2>1 DEF Moves, g, b
<1> QED BY <1>9, AfterMove

\* A removal that fails goes no further, and no other generation follows.
LEMMA AfterFailDestroying ==
    ASSUME SupervisorInv, NEW p \in Processes, FailDestroying(p)
    PROVE  SupervisorInv'
<1> DEFINE b == process[p]
           r == [b EXCEPT !.todo = <<>>, !.trouble = TRUE]
<1>1. /\ b.stage = "destroy" /\ Sets(p, r)
      /\ UNCHANGED <<holder, resources, beat, abandoned, time>>
  BY DEF FailDestroying, In, host
<1>t. /\ beat \in [Generations -> Nat] /\ b \in Destroying /\ Clears(resources, b) /\ p \in holder
  BY <1>1, ProcessFacts
<1> HIDE DEF b
<1>2. <<>> \in Seq(Things)
  OBVIOUS
<1>3. r \in Destroying /\ r.stage = b.stage /\ r.generation = b.generation /\ r.trouble = TRUE
  BY <1>t, <1>2 DEF Destroying
<1> HIDE DEF r
<1>4. r \in Supervisors /\ "destroy" \notin Watching
  BY <1>3 DEF Supervisors, Watching
<1>5. Clears(resources', r)
  BY <1>t, <1>1, <1>3 DEF Clears
<1>6. Moves(p, r)
  BY <1>t, <1>1, <1>3, <1>4, <1>5 DEF Moves, b
<1> QED BY <1>6, AfterMove

\* Another generation follows only when all of this one was removed.
LEMMA AfterClose ==
    ASSUME SupervisorInv, NEW p \in Processes, Close(p)
    PROVE  SupervisorInv'
<1> DEFINE b == process[p]
           r == [Off EXCEPT !.stage = "open"]
<1>1. /\ b.stage = "destroy" /\ b.todo = <<>> /\ UNCHANGED <<resources, beat, abandoned, time>>
      /\ Exits(p) \/ (~b.trouble /\ Sets(p, r) /\ UNCHANGED holder)
  BY DEF Close, In, MarksAndExits, ExitsAfter
<1>t. /\ beat \in [Generations -> Nat] /\ Clears(resources, b) /\ p \in holder
      /\ "destroy" \notin Watching
  <2>1. "destroy" \notin Watching
    BY DEF Watching
  <2> QED BY <1>1, <2>1, ProcessFacts
<1>2. CASE Exits(p)
  BY <1>t, <1>1, <1>2, AfterExit
<1>3. CASE ~b.trouble /\ Sets(p, r) /\ UNCHANGED holder
  <2>1. resources = {}
    BY <1>t, <1>1, <1>3, RangeFacts DEF Clears
  <2>2. r \in Beginning /\ r.stage = "open"
    <3>1. Off \in Beginning
      BY OffFacts
    <3> QED BY <3>1 DEF Beginning
  <2> HIDE DEF r
  <2>3. holder \ {p} \subseteq holder' /\ holder' \subseteq holder \cup {p}
    BY <1>3
  <2> QED BY <1>t, <1>1, <1>3, <2>1, <2>2, <2>3, AfterStage
<1> QED BY <1>1, <1>2, <1>3

\* Who is killed, or interrupted where nothing is cleaned up, abandons what it tended.
LEMMA AfterDeath ==
    ASSUME SupervisorInv, NEW p \in Processes, Escape(p) \/ Kill(p)
    PROVE  SupervisorInv'
<1>1. /\ Exits(p) /\ abandoned' = abandoned \cup ({process[p].generation} \ {0})
      /\ UNCHANGED <<resources, beat, time>>
  BY DEF Escape, Kill
<1>2. beat \in [Generations -> Nat] /\ (process[p].stage \in Watching => process[p] \in Creating)
  BY ProcessFacts
<1>3. process[p].stage \in Watching => process[p].generation # 0
  BY <1>2, SupervisorAssumption DEF Creating
<1> QED BY <1>1, <1>2, <1>3, AfterExit

\* Time, the operator and containers that end change nothing of this.
LEMMA AfterHost ==
    ASSUME SupervisorInv, Pass \/ Review \/ \E r \in resources : ContainerEnds(r)
    PROVE  SupervisorInv'
<1>1. /\ resources' \subseteq resources /\ time' \in Nat
      /\ UNCHANGED <<process, holder, beat, abandoned>>
  <2>1. time \in Nat
    BY DEF SupervisorInv
  <2>2. time + 1 \in Nat
    BY <2>1
  <2> QED BY <2>1, <2>2 DEF Pass, Review, ContainerEnds, host
<1>2. \A p \in Processes : Clears(resources', process[p])
  BY <1>1 DEF SupervisorInv, Clears
<1>3. resources' \subseteq Things /\ OneGeneration'
  BY <1>1 DEF SupervisorInv, OneGeneration
<1> QED BY <1>1, <1>2, <1>3 DEF SupervisorInv, LockInv, WatchedInv

\* Every step leaves one generation at most, and heartbeats to those who watch.
LEMMA SupervisorPreserved == SupervisorInv /\ [SupervisorNext]_supervisorVars => SupervisorInv'
<1> SUFFICES ASSUME SupervisorInv, [SupervisorNext]_supervisorVars PROVE SupervisorInv'
  OBVIOUS
<1>1. CASE UNCHANGED supervisorVars
  BY <1>1 DEF supervisorVars, SupervisorInv, LockInv, OneGeneration, WatchedInv
<1>2. CASE SupervisorNext
  BY <1>2, AfterBeginning, AfterReconciling, AfterRemoveNext, AfterOpen, AfterCreating, AfterRefresh,
     AfterWithdraw, AfterFailDestroying, AfterClose, AfterDeath, AfterHost DEF SupervisorNext
<1> QED BY <1>1, <1>2

\* At first there is nothing.
LEMMA SupervisorStarts == SupervisorInit => SupervisorInv
<1> SUFFICES ASSUME SupervisorInit PROVE SupervisorInv
  OBVIOUS
<1>1. Off \in Supervisors /\ Off.stage = "off" /\ "off" \notin Tending
  <2>1. Off \in Beginning /\ Off.stage = "off"
    BY OffFacts
  <2> QED BY <2>1 DEF Supervisors, Tending, Watching
<1>2. \A p \in Processes : process[p] = Off /\ Clears(resources, Off)
  BY <1>1 DEF SupervisorInit, Clears
<1>3. process \in [Processes -> Supervisors]
  BY <1>1 DEF SupervisorInit
<1> QED BY <1>1, <1>2, <1>3 DEF SupervisorInit, SupervisorInv, LockInv, OneGeneration, WatchedInv

\* Containers and networks are of one generation at a time, whatever fails, is interrupted or
\* killed at whatever step.
THEOREM GenerationsDoNotMix == SupervisorSpec => []OneGeneration
<1>1. SupervisorInv => OneGeneration
  BY DEF SupervisorInv
<1> QED BY SupervisorStarts, SupervisorPreserved, <1>1, PTL DEF SupervisorSpec

\* A generation that takes traffic is watched, or was given up.
THEOREM ReadyIsWatched == SupervisorSpec => []OnlyWatchedAreReady
<1>1. SupervisorInv => OnlyWatchedAreReady
  BY DEF SupervisorInv, WatchedInv, OnlyWatchedAreReady, Ready, Watching
<1> QED BY SupervisorStarts, SupervisorPreserved, <1>1, PTL DEF SupervisorSpec

===============================================================================
