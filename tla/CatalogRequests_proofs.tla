------------------------- MODULE CatalogRequests_proofs -------------------------
(***************************************************************************)
(* Proofs about CatalogRequests, for every number of members, requests and  *)
(* names.  Inductive is preserved part by part; each part's lemma may use   *)
(* the whole of Inductive in the state before the step.                     *)
(***************************************************************************)
EXTENDS CatalogRequests, FiniteSetTheorems, TLAPS

\* Among finitely many there is one with the largest number.
LEMMA LastOf ==
    ASSUME NEW W, IsFiniteSet(W), W # {}, NEW f \in [W -> Nat]
    PROVE  \E w \in W : \A o \in W : f[o] <= f[w]
<1> DEFINE Above(w) == {o \in W : f[o] >= f[w]}
           T == {Above(w) : w \in W}
           R == StrictSubsetOrdering(W)
<1>1. T \subseteq SUBSET W /\ T # {}
  <2>1. \A w \in W : Above(w) \in SUBSET W
    OBVIOUS
  <2>2. PICK w \in W : TRUE
    OBVIOUS
  <2> HIDE DEF Above
  <2> QED BY <2>1, <2>2
<1>2. IsWellFoundedOn(R, SUBSET W)
  BY FS_StrictSubsetOrderingWellFounded, FS_FiniteSubsetsOfFinite
<1>3. PICK x \in T : \A y \in T : <<y, x>> \notin R
  <2> HIDE DEF R, T
  <2> QED BY <1>1, <1>2, WFMin
<1>4. PICK w \in W : x = Above(w)
  BY <1>3
<1>5. ASSUME NEW o \in W PROVE f[o] <= f[w]
  <2>1. SUFFICES ASSUME ~(f[o] <= f[w]) PROVE FALSE
    OBVIOUS
  <2>2. f[o] \in Nat /\ f[w] \in Nat /\ f[o] > f[w]
    BY <2>1
  <2>3. Above(o) \subseteq Above(w) /\ w \in Above(w) /\ w \notin Above(o)
    BY <2>2
  <2>4. <<Above(o), Above(w)>> \in R
    BY <2>3 DEF StrictSubsetOrdering
  <2> QED BY <1>3, <1>4, <2>4
<1> QED BY <1>5

Deciding == {"decide", "approve", "add"}

\* What a transaction has locked so far is part of what it means to lock, and the
\* names it has come before those it has not.
Locking(t) ==
    /\ t.op = "idle" => t = NoTx
    /\ t.op \in {"delete", "purge"} => t.wants = {} /\ t.held = {}
    /\ t.op \in {"submit", "insert"} =>
         t.request = None /\ t.held \subseteq t.wants /\ \E n \in Names : t.wants = {n}
    /\ t.op = "review" => t.request \in Requests /\ t.wants = {t.request} /\ t.held = {}
    /\ t.op = "decide" => t.wants = {t.request}
    /\ t.op \in Deciding =>
         /\ t.request \in Requests /\ t.request \in t.held /\ t.held \subseteq t.wants
         /\ t.wants \subseteq {t.request} \cup Names
    /\ t.op \in {"approve", "add"} => t.wants \cap Names # {}
    /\ t.op \in {"insert", "add"} => t.held = t.wants
    /\ t.op = "drop" => t.wants \subseteq Requests /\ t.held \subseteq t.wants
    /\ \A h \in t.held \cap Names, n \in (t.wants \ t.held) \cap Names : h < n
    /\ \A e \in t.audit : e.type = "submitted"
LockInv == \A m \in Members : Locking(tx[m])

\* No two transactions have the same name or row.
Exclusive == \A m, o \in Members : m # o => tx[m].held \cap tx[o].held = {}

\* A request has its requester while it is there, and a pending one its name.
RowInv == \A q \in Requests :
            /\ requests[q].requester = None <=> requests[q].status \in {"unused", "erased"}
            /\ requests[q].status = "pending" => requests[q].name \in Names

\* What its locks let a transaction rely on: the request it decides is pending, the
\* names it is about to write are nobody's, and the requests it erases are its own
\* and still pending.
Named(n, q) == catalog[n] = None /\ \A p \in Pending \ {q} : requests[p].name # n
Relies(m) ==
    LET t == tx[m] IN
    /\ t.op # "idle" => m \in active
    /\ t.op \in Deciding => t.request \in Pending
    /\ t.op \in {"insert", "add"} => \A n \in t.wants \cap Names : Named(n, t.request)
    /\ t.op = "drop" => /\ t.held \subseteq Pending /\ PendingOf(m) \subseteq t.wants
                        /\ \A q \in t.wants : requests[q].requester = m
ReliesInv == \A m \in Members : Relies(m)

\* Only an approval puts a request's ingredient in the catalog.
CatalogInv == \A n \in Names : catalog[n] \in Requests => requests[catalog[n]].status = "approved"

Inductive == /\ TypeOK /\ LockInv /\ Exclusive /\ RowInv /\ ReliesInv /\ CatalogInv
             /\ NamesAwaitOneReview /\ DecisionsAreEvidenced /\ DeletionLeavesNoContext

-----------------------------------------------------------------------------
(* Types *)

\* A step of one member leaves the others' transactions alone.
LEMMA OwnStep ==
    ASSUME TypeOK, NEW m \in Members, MemberStep(m), NEW o \in Members, o # m
    PROVE  tx'[o] = tx[o]
BY DEF TypeOK, MemberStep, Begin, End, Hold, Rollback, LockName, CheckNames, BeginSubmit, Submit,
       BeginReview, DropRequest, TakeRequest, RejectRequest, MarkDuplicate, LockApproval,
       ApproveRequest, Decide, BeginDelete, PurgeEvents, PurgeRequests, EraseAccount,
       GrantCurator, RevokeCurator

\* A transaction that has locked one more thing is a transaction.
LEMMA HoldType ==
    ASSUME TypeOK, NEW m \in Members, NEW x \in Names \cup Requests, Hold(m, x)
    PROVE  tx' \in [Members -> Tx]
BY DEF TypeOK, Hold, Tx

\* A decision is a row and an event.
LEMMA DecideType ==
    ASSUME TypeOK, NEW m \in Members, tx[m].request \in Requests,
           NEW status \in Decisions, NEW i \in Ingredients \cup {None}, Decide(m, status, i)
    PROVE  requests' \in [Requests -> Request] /\ audit' \subseteq Event /\ tx' \in [Members -> Tx]
<1> DEFINE q == tx[m].request
           row == [requests[q] EXCEPT !.status = status, !.resolved = i]
           e == [request |-> q, type |-> status, context |-> FALSE]
<1>1. row \in Request
  BY DEF TypeOK, Request
<1>2. requests' = [requests EXCEPT ![q] = row]
  BY DEF Decide
<1>3. requests' \in [Requests -> Request]
  <2> HIDE DEF row
  <2> QED BY <1>1, <1>2 DEF TypeOK
<1>4. e \in Event
  BY DEF Event
<1>5. audit' = audit \cup {e}
  BY DEF Decide
<1>6. audit' \subseteq Event
  <2> HIDE DEF e
  <2> QED BY <1>4, <1>5 DEF TypeOK
<1>7. NoTx \in Tx
  BY DEF NoTx, Tx
<1>8. tx' \in [Members -> Tx]
  BY <1>7 DEF TypeOK, Decide, End
<1> QED BY <1>3, <1>6, <1>8

\* Every handler keeps the types of the columns.
LEMMA TypePreserved == Inductive /\ [Next]_vars => TypeOK'
<1> SUFFICES ASSUME Inductive, [Next]_vars PROVE TypeOK'
  OBVIOUS
<1>t. TypeOK /\ LockInv
  BY DEF Inductive
<1>n. NoTx \in Tx /\ NoRequest \in Request
  BY DEF NoTx, Tx, NoRequest, Request
<1> DEFINE Tables == UNCHANGED <<active, curators, requests, audit, catalog>>
<1>1. ASSUME tx' \in [Members -> Tx], Tables
      PROVE  TypeOK'
  BY <1>1, <1>t DEF TypeOK
<1> SUFFICES ASSUME Next PROVE TypeOK'
  BY <1>t DEF TypeOK, vars
<1>2. ASSUME NEW m \in Members, MemberStep(m)
      PROVE  TypeOK'
  <2>e. End(m) => tx' \in [Members -> Tx]
    BY <1>n, <1>t DEF End, TypeOK
  <2>1. CASE Rollback(m)
    BY <1>1, <2>1, <2>e DEF Rollback
  <2>2. CASE LockName(m)
    BY <1>1, <1>t, <2>2, HoldType DEF LockName
  <2>3. CASE CheckNames(m)
    <3>1. tx' \in [Members -> Tx]
      BY <1>t, <2>3 DEF CheckNames, TypeOK, Tx
    <3> QED BY <1>1, <2>3, <3>1 DEF CheckNames
  <2>4. ASSUME NEW n \in Names, NEW context \in BOOLEAN, BeginSubmit(m, n, context)
        PROVE  TypeOK'
    <3>1. [NoTx EXCEPT !.op = "submit", !.wants = {n}, !.context = context] \in Tx
      BY <1>n DEF Tx
    <3>2. tx' \in [Members -> Tx]
      BY <1>t, <2>4, <3>1 DEF BeginSubmit, Begin, TypeOK
    <3> QED BY <1>1, <2>4, <3>2 DEF BeginSubmit
  <2>5. ASSUME NEW q \in Requests, Submit(m, q)
        PROVE  TypeOK'
    <3> DEFINE e == [request |-> q, type |-> "submitted", context |-> tx[m].context]
    <3>1. PICK n \in tx[m].wants :
            requests' = [requests EXCEPT ![q] = [status |-> "pending", requester |-> m,
                               name |-> n, context |-> tx[m].context, resolved |-> None]]
      BY <2>5 DEF Submit
    <3> DEFINE row == [status |-> "pending", requester |-> m,
                       name |-> n, context |-> tx[m].context, resolved |-> None]
    <3>2. n \in Names
      BY <1>t, <2>5 DEF LockInv, Locking, Submit
    <3>3. row \in Request /\ e \in Event
      BY <1>t, <3>2 DEF TypeOK, Tx, Request, Event
    <3>4. requests' = [requests EXCEPT ![q] = row]
      BY <3>1
    <3>5. requests' \in [Requests -> Request]
      <4> HIDE DEF row
      <4> QED BY <1>t, <3>3, <3>4 DEF TypeOK
    <3>6. audit' = audit \cup {e}
      BY <2>5 DEF Submit
    <3>7. audit' \subseteq Event
      <4> HIDE DEF e
      <4> QED BY <1>t, <3>3, <3>6 DEF TypeOK
    <3> QED BY <1>t, <2>5, <2>e, <3>5, <3>7 DEF Submit, TypeOK
  <2>6. ASSUME NEW q \in Requests, BeginReview(m, q)
        PROVE  TypeOK'
    <3>1. [NoTx EXCEPT !.op = "review", !.request = q, !.wants = {q}] \in Tx
      BY <1>n DEF Tx
    <3>2. tx' \in [Members -> Tx]
      BY <1>t, <2>6, <3>1 DEF BeginReview, Begin, TypeOK
    <3> QED BY <1>1, <2>6, <3>2 DEF BeginReview
  <2>7. ASSUME NEW q \in Requests, DropRequest(m, q)
        PROVE  TypeOK'
    BY <1>1, <1>t, <2>7, HoldType DEF DropRequest
  <2>8. CASE TakeRequest(m)
    <3>1. tx' \in [Members -> Tx]
      <4> DEFINE t == [tx[m] EXCEPT !.op = "decide", !.held = {tx[m].request}]
      <4>1. tx' = [tx EXCEPT ![m] = t]
        BY <1>t, <2>8 DEF TakeRequest, TypeOK, Tx
      <4>2. t \in Tx
        BY <1>t, <2>8 DEF TakeRequest, TypeOK, Tx, Pending
      <4> HIDE DEF t
      <4> QED BY <1>t, <4>1, <4>2 DEF TypeOK
    <3> QED BY <1>1, <2>8, <3>1 DEF TakeRequest
  <2>d. tx[m].op \in Deciding => tx[m].request \in Requests
    BY <1>t DEF LockInv, Locking
  <2>9. CASE RejectRequest(m)
    <3>1. Decide(m, "rejected", None) /\ tx[m].request \in Requests /\ UNCHANGED catalog
      BY <2>9, <2>d DEF RejectRequest, Deciding
    <3>2. "rejected" \in Decisions
      BY DEF Decisions
    <3>3. requests' \in [Requests -> Request] /\ audit' \subseteq Event /\ tx' \in [Members -> Tx]
      BY <1>t, <3>1, <3>2, DecideType
    <3> QED BY <1>t, <3>1, <3>3 DEF TypeOK, Decide
  <2>10. ASSUME NEW i \in Ingredients, MarkDuplicate(m, i)
         PROVE  TypeOK'
    <3>1. Decide(m, "duplicate", i) /\ tx[m].request \in Requests /\ UNCHANGED catalog
      BY <2>10, <2>d DEF MarkDuplicate, Deciding
    <3>2. "duplicate" \in Decisions
      BY DEF Decisions
    <3>3. requests' \in [Requests -> Request] /\ audit' \subseteq Event /\ tx' \in [Members -> Tx]
      BY <1>t, <3>1, <3>2, DecideType
    <3> QED BY <1>t, <3>1, <3>3 DEF TypeOK, Decide
  <2>11. ASSUME NEW names \in SUBSET Names, LockApproval(m, names)
         PROVE  TypeOK'
    <3>1. tx' \in [Members -> Tx]
      <4> DEFINE t == [tx[m] EXCEPT !.op = "approve", !.wants = @ \cup names]
      <4>1. tx' = [tx EXCEPT ![m] = t]
        BY <1>t, <2>11 DEF LockApproval, TypeOK, Tx
      <4>2. t \in Tx
        BY <1>t DEF TypeOK, Tx
      <4> HIDE DEF t
      <4> QED BY <1>t, <4>1, <4>2 DEF TypeOK
    <3> QED BY <1>1, <2>11, <3>1 DEF LockApproval
  <2>12. CASE ApproveRequest(m)
    <3>1. Decide(m, "approved", tx[m].request) /\ tx[m].request \in Requests
      BY <2>12, <2>d DEF ApproveRequest, Deciding
    <3>2. "approved" \in Decisions /\ tx[m].request \in Ingredients
      BY <3>1 DEF Decisions, Ingredients
    <3>3. requests' \in [Requests -> Request] /\ audit' \subseteq Event /\ tx' \in [Members -> Tx]
      BY <1>t, <3>1, <3>2, DecideType
    <3>4. catalog' \in [Names -> Ingredients \cup {None}]
      BY <1>t, <2>12, <3>2 DEF ApproveRequest, TypeOK
    <3> QED BY <1>t, <3>1, <3>3, <3>4 DEF TypeOK, Decide
  <2>13. CASE BeginDelete(m)
    <3>1. [NoTx EXCEPT !.op = "delete"] \in Tx
      BY <1>n DEF Tx
    <3>2. tx' \in [Members -> Tx]
      BY <1>t, <2>13, <3>1 DEF BeginDelete, Begin, TypeOK
    <3> QED BY <1>1, <2>13, <3>2 DEF BeginDelete
  <2>14. CASE PurgeEvents(m)
    <3> DEFINE gone == {e \in audit : e.request \in PendingOf(m)}
    <3>1. gone \subseteq Event
      BY <1>t DEF TypeOK
    <3>2. tx' = [tx EXCEPT ![m].op = "purge", ![m].audit = gone]
      BY <2>14 DEF PurgeEvents
    <3> HIDE DEF gone
    <3>3. tx' \in [Members -> Tx]
      <4> DEFINE t == [tx[m] EXCEPT !.op = "purge", !.audit = gone]
      <4>1. tx' = [tx EXCEPT ![m] = t]
        BY <1>t, <3>2 DEF TypeOK, Tx
      <4>2. t \in Tx
        BY <1>t, <3>1 DEF TypeOK, Tx
      <4> HIDE DEF t
      <4> QED BY <1>t, <4>1, <4>2 DEF TypeOK
    <3> QED BY <1>1, <2>14, <3>3 DEF PurgeEvents
  <2>15. CASE PurgeRequests(m)
    <3>1. tx' \in [Members -> Tx]
      <4> DEFINE t == [tx[m] EXCEPT !.op = "drop", !.wants = PendingOf(m)]
      <4>1. tx' = [tx EXCEPT ![m] = t]
        BY <1>t, <2>15 DEF PurgeRequests, TypeOK, Tx
      <4>2. t \in Tx
        BY <1>t DEF TypeOK, Tx, PendingOf, Pending
      <4> HIDE DEF t
      <4> QED BY <1>t, <4>1, <4>2 DEF TypeOK
    <3> QED BY <1>1, <2>15, <3>1 DEF PurgeRequests
  <2>16. CASE EraseAccount(m)
    <3> DEFINE decided == {q \in Decided : requests[q].requester = m}
    <3>1. requests' = [q \in Requests |->
           IF q \in tx[m].held THEN [NoRequest EXCEPT !.status = "erased"]
           ELSE IF q \in decided THEN [requests[q] EXCEPT !.context = FALSE]
           ELSE requests[q]]
      BY <2>16 DEF EraseAccount
    <3>2. \A row \in Request : [row EXCEPT !.context = FALSE] \in Request
      BY DEF Request
    <3>3. [NoRequest EXCEPT !.status = "erased"] \in Request
      BY <1>n DEF Request
    <3>4. requests' \in [Requests -> Request]
      <4> HIDE DEF decided
      <4> QED BY <1>t, <3>1, <3>2, <3>3 DEF TypeOK
    <3>5. \A e \in Event : [e EXCEPT !.context = FALSE] \in Event
      BY DEF Event
    <3>6. audit' = {IF e.request \in decided THEN [e EXCEPT !.context = FALSE] ELSE e
                       : e \in audit \ tx[m].audit}
      BY <2>16 DEF EraseAccount
    <3>7. audit' \subseteq Event
      <4> HIDE DEF decided
      <4> QED BY <1>t, <3>5, <3>6 DEF TypeOK
    <3> QED BY <1>t, <2>16, <2>e, <3>4, <3>7 DEF EraseAccount, TypeOK
  <2>17. CASE GrantCurator(m) \/ RevokeCurator(m)
    BY <1>t, <2>17 DEF GrantCurator, RevokeCurator, TypeOK
  <2> QED BY <1>2, <2>1, <2>2, <2>3, <2>4, <2>5, <2>6, <2>7, <2>8, <2>9, <2>10, <2>11, <2>12,
             <2>13, <2>14, <2>15, <2>16, <2>17 DEF MemberStep
<1>3. ASSUME NEW n \in Names, SeedName(n)
      PROVE  TypeOK'
  BY <1>3, <1>t DEF SeedName, TypeOK, Ingredients
<1> QED BY <1>2, <1>3 DEF Next

-----------------------------------------------------------------------------
(* Locks *)

tables == <<active, curators, requests, audit, catalog>>

\* What a transaction may become, t before the step and u after it: it locks one more
\* thing, finds its names free, begins, or goes on to its next statement.
Locks(m, t, u) ==
    /\ u.op = t.op /\ u.request = t.request /\ u.wants = t.wants /\ u.audit = t.audit
    /\ \E x \in t.wants \ t.held :
         /\ Free(x) /\ u.held = t.held \cup {x}
         /\ \/ t.op \in {"submit", "approve"} /\ NextName(m, x) /\ x \in Names
            \/ t.op = "drop" /\ x \in Pending
Finds(t, u) ==
    /\ \/ t.op = "submit" /\ u.op = "insert"
       \/ t.op = "approve" /\ u.op = "add"
    /\ u.request = t.request /\ u.wants = t.wants /\ u.audit = t.audit /\ u.held = t.held
    /\ t.wants \subseteq t.held
    /\ \A n \in t.wants \cap Names : Named(n, t.request)
Starts(m, t, u) ==
    /\ t.op = "idle" /\ m \in active /\ u.held = {} /\ u.audit = {}
    /\ \/ u.op = "submit" /\ u.request = None /\ \E n \in Names : u.wants = {n}
       \/ u.op = "review" /\ u.request \in Requests /\ u.wants = {u.request}
       \/ u.op = "delete" /\ u.wants = {}
Goes(m, t, u) ==
    \/ /\ t.op = "review" /\ u.op = "decide" /\ u.request = t.request /\ t.request \in Pending
       /\ u.wants = t.wants /\ u.held = {t.request} /\ Free(t.request) /\ u.audit = t.audit
    \/ /\ t.op = "decide" /\ u.op = "approve" /\ u.request = t.request /\ u.held = t.held
       /\ \E names \in SUBSET Names : names # {} /\ u.wants = t.wants \cup names
       /\ u.audit = t.audit
    \/ /\ t.op = "delete" /\ u.op = "purge" /\ u.wants = t.wants /\ u.held = t.held
       /\ u.audit = {e \in audit : e.request \in PendingOf(m)}
    \/ /\ t.op = "purge" /\ u.op = "drop" /\ u.wants = PendingOf(m) /\ u.held = t.held
       /\ u.audit = t.audit
Moves(m) == /\ UNCHANGED tables
            /\ \/ Locks(m, tx[m], tx'[m]) \/ Finds(tx[m], tx'[m])
               \/ Starts(m, tx[m], tx'[m]) \/ Goes(m, tx[m], tx'[m])
Ends(m) == /\ tx'[m] = NoTx
           /\ \/ Rollback(m) \/ (\E q \in Requests : Submit(m, q))
              \/ RejectRequest(m) \/ (\E i \in Ingredients : MarkDuplicate(m, i))
              \/ ApproveRequest(m) \/ EraseAccount(m)

\* Every step of a member moves its transaction on, ends it, or is an operator's.
LEMMA MemberMoves ==
    ASSUME Inductive, NEW m \in Members, MemberStep(m)
    PROVE  Moves(m) \/ Ends(m) \/ GrantCurator(m) \/ RevokeCurator(m)
<1> DEFINE t == tx[m]
           u == tx'[m]
<1>t. t \in Tx /\ Locking(t) /\ tx \in [Members -> Tx]
  BY DEF Inductive, TypeOK, LockInv
<1>n. NoTx.held = {} /\ NoTx.audit = {} /\ NoTx.request = None /\ NoTx.wants = {}
  BY DEF NoTx
<1>1. End(m) => tx'[m] = NoTx
  BY <1>t DEF End
<1>2. CASE LockName(m)
  <2>1. PICK x \in Names : NextName(m, x) /\ Hold(m, x)
    BY <1>2 DEF LockName
  <2>2. /\ u.op = t.op /\ u.request = t.request /\ u.wants = t.wants /\ u.audit = t.audit
        /\ u.held = t.held \cup {x}
    BY <1>t, <2>1 DEF Hold, Tx
  <2>3. Locks(m, t, u)
    BY <1>2, <2>1, <2>2 DEF Locks, LockName, NextName, Missing, Hold
  <2> QED BY <1>2, <2>3 DEF Moves, LockName, tables
<1>3. CASE CheckNames(m)
  <2> DEFINE op == IF t.op = "submit" THEN "insert" ELSE "add"
  <2>1. tx' = [tx EXCEPT ![m].op = op]
    BY <1>3 DEF CheckNames
  <2>2. /\ u.op = op /\ u.request = t.request /\ u.wants = t.wants /\ u.audit = t.audit
        /\ u.held = t.held
    <3> HIDE DEF op
    <3> QED BY <1>t, <2>1 DEF Tx
  <2>3. \A n \in t.wants \cap Names : Named(n, t.request)
    <3> SUFFICES ASSUME NEW n \in t.wants \cap Names PROVE Named(n, t.request)
      OBVIOUS
    <3>1. n # t.request
      BY <1>t, IdentityAssumption DEF Tx
    <3> QED BY <1>3, <3>1 DEF CheckNames, Named
  <2>4. Finds(t, u)
    BY <1>3, <2>2, <2>3 DEF Finds, CheckNames, Missing
  <2> QED BY <1>3, <2>4 DEF Moves, CheckNames, tables
<1>4. ASSUME NEW n \in Names, NEW context \in BOOLEAN, BeginSubmit(m, n, context)
      PROVE  Moves(m)
  <2>1. u = [NoTx EXCEPT !.op = "submit", !.wants = {n}, !.context = context]
    BY <1>4, <1>t DEF BeginSubmit, Begin
  <2>2. u.op = "submit" /\ u.request = None /\ u.wants = {n} /\ u.held = {} /\ u.audit = {}
    BY <2>1 DEF NoTx
  <2> QED BY <1>4, <2>2 DEF Moves, Starts, BeginSubmit, Begin, tables
<1>5. ASSUME NEW q \in Requests, BeginReview(m, q)
      PROVE  Moves(m)
  <2>1. u = [NoTx EXCEPT !.op = "review", !.request = q, !.wants = {q}]
    BY <1>5, <1>t DEF BeginReview, Begin
  <2>2. u.op = "review" /\ u.request = q /\ u.wants = {q} /\ u.held = {} /\ u.audit = {}
    BY <2>1 DEF NoTx
  <2> QED BY <1>5, <2>2 DEF Moves, Starts, BeginReview, Begin, tables
<1>6. CASE BeginDelete(m)
  <2>1. u = [NoTx EXCEPT !.op = "delete"]
    BY <1>6, <1>t DEF BeginDelete, Begin
  <2>2. u.op = "delete" /\ u.wants = {} /\ u.held = {} /\ u.audit = {}
    BY <2>1 DEF NoTx
  <2> QED BY <1>6, <2>2 DEF Moves, Starts, BeginDelete, Begin, tables
<1>7. ASSUME NEW q \in Requests, DropRequest(m, q)
      PROVE  Moves(m)
  <2>1. /\ u.op = t.op /\ u.request = t.request /\ u.wants = t.wants /\ u.audit = t.audit
        /\ u.held = t.held \cup {q}
    BY <1>7, <1>t DEF DropRequest, Hold, Tx
  <2>2. Locks(m, t, u)
    BY <1>7, <2>1 DEF Locks, DropRequest, Missing, Hold
  <2> QED BY <1>7, <2>2 DEF Moves, DropRequest, tables
<1>8. CASE TakeRequest(m)
  <2> DEFINE h == {t.request}
  <2>1. tx' = [tx EXCEPT ![m].op = "decide", ![m].held = h]
    BY <1>8 DEF TakeRequest
  <2>2. /\ u.op = "decide" /\ u.request = t.request /\ u.wants = t.wants /\ u.audit = t.audit
        /\ u.held = h
    <3> HIDE DEF h
    <3> QED BY <1>t, <2>1 DEF Tx
  <2>3. Goes(m, t, u)
    BY <1>8, <2>2 DEF Goes, TakeRequest
  <2> QED BY <1>8, <2>3 DEF Moves, TakeRequest, tables
<1>9. ASSUME NEW names \in SUBSET Names, LockApproval(m, names)
      PROVE  Moves(m)
  <2> DEFINE wants == t.wants \cup names
  <2>1. tx' = [tx EXCEPT ![m].op = "approve", ![m].wants = wants]
    BY <1>9, <1>t DEF LockApproval, Tx
  <2>2. /\ u.op = "approve" /\ u.request = t.request /\ u.held = t.held /\ u.audit = t.audit
        /\ u.wants = wants
    <3> HIDE DEF wants
    <3> QED BY <1>t, <2>1 DEF Tx
  <2>3. Goes(m, t, u)
    BY <1>9, <2>2 DEF Goes, LockApproval
  <2> QED BY <1>9, <2>3 DEF Moves, LockApproval, tables
<1>10. CASE PurgeEvents(m)
  <2> DEFINE gone == {e \in audit : e.request \in PendingOf(m)}
  <2>1. tx' = [tx EXCEPT ![m].op = "purge", ![m].audit = gone]
    BY <1>10 DEF PurgeEvents
  <2>2. u.op = "purge" /\ u.wants = t.wants /\ u.held = t.held /\ u.audit = gone
    <3> HIDE DEF gone
    <3> QED BY <1>t, <2>1 DEF Tx
  <2>3. Goes(m, t, u)
    BY <1>10, <2>2 DEF Goes, PurgeEvents
  <2> QED BY <1>10, <2>3 DEF Moves, PurgeEvents, tables
<1>11. CASE PurgeRequests(m)
  <2> DEFINE wants == PendingOf(m)
  <2>1. tx' = [tx EXCEPT ![m].op = "drop", ![m].wants = wants]
    BY <1>11 DEF PurgeRequests
  <2>2. u.op = "drop" /\ u.wants = wants /\ u.held = t.held /\ u.audit = t.audit
    <3> HIDE DEF wants
    <3> QED BY <1>t, <2>1 DEF Tx
  <2>3. Goes(m, t, u)
    BY <1>11, <2>2 DEF Goes, PurgeRequests
  <2> QED BY <1>11, <2>3 DEF Moves, PurgeRequests, tables
<1>12. Rollback(m) => Ends(m)
  BY <1>1 DEF Ends, Rollback
<1>13. \A q \in Requests : Submit(m, q) => Ends(m)
  BY <1>1 DEF Ends, Submit
<1>14. RejectRequest(m) \/ ApproveRequest(m) \/ EraseAccount(m) => Ends(m)
  BY <1>1 DEF Ends, RejectRequest, ApproveRequest, EraseAccount, Decide
<1>15. \A i \in Ingredients : MarkDuplicate(m, i) => Ends(m)
  BY <1>1 DEF Ends, MarkDuplicate, Decide
<1> QED BY <1>2, <1>3, <1>4, <1>5, <1>6, <1>7, <1>8, <1>9, <1>10, <1>11, <1>12, <1>13, <1>14,
           <1>15 DEF MemberStep

\* In any step each transaction stays, moves on or ends.
LEMMA TxStep ==
    ASSUME Inductive, [Next]_vars, NEW m \in Members
    PROVE  tx'[m] = tx[m] \/ Moves(m) \/ Ends(m)
<1>t. TypeOK
  BY DEF Inductive
<1>1. ASSUME NEW o \in Members, MemberStep(o)
      PROVE  tx'[m] = tx[m] \/ Moves(m) \/ Ends(m)
  BY <1>1, <1>t, OwnStep, MemberMoves DEF GrantCurator, RevokeCurator
<1> QED BY <1>1 DEF Next, SeedName, vars

\* The locks of a transaction that moves on keep their order.
LEMMA LockInvPreserved == Inductive /\ [Next]_vars => LockInv'
<1> SUFFICES ASSUME Inductive, [Next]_vars, NEW m \in Members PROVE Locking(tx'[m])
  BY DEF LockInv
<1> DEFINE t == tx[m]
           u == tx'[m]
<1> SUFFICES Locking(u)
  OBVIOUS
<1>t. t \in Tx /\ Locking(t) /\ NoTx \in Tx
  BY DEF Inductive, TypeOK, LockInv, NoTx, Tx
<1>1. CASE Locks(m, t, u)
  <2>1. PICK x \in t.wants \ t.held :
          /\ Free(x) /\ u.held = t.held \cup {x}
          /\ \/ t.op \in {"submit", "approve"} /\ NextName(m, x) /\ x \in Names
             \/ t.op = "drop" /\ x \in Pending
    BY <1>1 DEF Locks
  <2>2. \A h \in u.held \cap Names, n \in (u.wants \ u.held) \cap Names : h < n
    <3> SUFFICES ASSUME NEW h \in u.held \cap Names, NEW n \in (u.wants \ u.held) \cap Names
                 PROVE  h < n
      OBVIOUS
    <3>1. n \in (t.wants \ t.held) \cap Names /\ n # x
      BY <1>1, <2>1 DEF Locks
    <3>2. CASE h \in t.held
      BY <1>t, <3>1, <3>2 DEF Locking
    <3>3. CASE h = x
      <4>1. x <= n
        <5>1. x \notin Pending
          BY <3>3, IdentityAssumption DEF Pending
        <5> QED BY <2>1, <3>1, <5>1 DEF NextName, Missing
      <4> QED BY <3>1, <3>3, <4>1, NamesAssumption
    <3> QED BY <2>1, <3>2, <3>3
  <2>3. u.op = t.op /\ u.request = t.request /\ u.wants = t.wants /\ u.audit = t.audit
    BY <1>1 DEF Locks
  <2> HIDE DEF t, u
  <2> QED BY <1>t, <2>1, <2>2, <2>3 DEF Locking, Deciding
<1>2. CASE Finds(t, u)
  <2> HIDE DEF t, u
  <2>0. t.op \in {"submit", "approve"}
    BY <1>2 DEF Finds
  <2>1. u.held = u.wants /\ \A e \in u.audit : e.type = "submitted"
    <3>1. t.held \subseteq t.wants /\ \A e \in t.audit : e.type = "submitted"
      BY <1>t, <2>0 DEF Locking, Deciding
    <3>2. /\ u.wants = t.wants /\ u.held = t.held /\ u.audit = t.audit
          /\ t.wants \subseteq t.held
      BY <1>2 DEF Finds
    <3>3. t.held = t.wants
      BY <3>1, <3>2
    <3> QED BY <3>1, <3>2, <3>3
  <2>2. CASE t.op = "submit" /\ u.op = "insert"
    BY <1>t, <1>2, <2>1, <2>2 DEF Finds, Locking, Deciding
  <2>3. CASE t.op = "approve" /\ u.op = "add"
    BY <1>t, <1>2, <2>1, <2>3 DEF Finds, Locking, Deciding
  <2> QED BY <1>2, <2>2, <2>3 DEF Finds
<1>3. CASE Starts(m, t, u)
  <2> HIDE DEF t, u
  <2> QED BY <1>3 DEF Starts, Locking, Deciding
<1>4. CASE Goes(m, t, u)
  <2>1. CASE u.op = "decide"
    <3>1. u.wants \cap Names = {}
      BY <1>4, <1>t, <2>1, IdentityAssumption DEF Goes, Locking
    <3> HIDE DEF t, u
    <3> QED BY <1>4, <1>t, <2>1, <3>1 DEF Goes, Locking, Deciding
  <2>2. CASE u.op = "approve"
    <3>1. PICK names \in SUBSET Names : names # {} /\ u.wants = t.wants \cup names
      BY <1>4, <2>2 DEF Goes
    <3>2. t.op = "decide" /\ u.request = t.request /\ u.held = t.held /\ u.audit = t.audit
      BY <1>4, <2>2 DEF Goes
    <3>3. u.held = {u.request} /\ u.request \in Requests /\ u.wants = {u.request} \cup names
      BY <1>t, <3>1, <3>2 DEF Locking, Deciding
    <3>4. u.held \cap Names = {}
      BY <3>3, IdentityAssumption
    <3> HIDE DEF t, u
    <3> QED BY <1>t, <2>2, <3>1, <3>2, <3>3, <3>4 DEF Locking, Deciding
  <2>3. CASE u.op = "purge"
    <3>1. \A e \in u.audit : e.type = "submitted"
      <4> SUFFICES ASSUME NEW e \in u.audit PROVE e.type = "submitted"
        OBVIOUS
      <4>1. e \in audit /\ e.request \in Pending
        BY <1>4, <2>3 DEF Goes, PendingOf
      <4>2. e.request \in Requests /\ requests[e.request].status = "pending"
        BY <4>1 DEF Pending
      <4>3. {d.type : d \in {d \in audit : d.request = e.request /\ d.type # "submitted"}}
              = {requests[e.request].status} \cap Decisions
        BY <4>2 DEF Inductive, DecisionsAreEvidenced
      <4> QED BY <4>1, <4>2, <4>3 DEF Decisions
    <3> HIDE DEF t, u
    <3> QED BY <1>4, <1>t, <2>3, <3>1 DEF Goes, Locking, Deciding
  <2>4. CASE u.op = "drop"
    <3>1. PendingOf(m) \subseteq Requests
      BY DEF PendingOf, Pending
    <3> HIDE DEF t, u
    <3> QED BY <1>4, <1>t, <2>4, <3>1 DEF Goes, Locking, Deciding
  <2> QED BY <1>4, <2>1, <2>2, <2>3, <2>4 DEF Goes
<1>5. Locking(NoTx)
  BY DEF Locking, NoTx, Deciding
<1> QED BY <1>1, <1>2, <1>3, <1>4, <1>5, <1>t, TxStep DEF Moves, Ends

\* A lock is taken when nobody has it.
LEMMA ExclusivePreserved == Inductive /\ [Next]_vars => Exclusive'
<1> SUFFICES ASSUME Inductive, [Next]_vars, NEW m \in Members, NEW o \in Members, m # o
             PROVE  tx'[m].held \cap tx'[o].held = {}
  BY DEF Exclusive
<1>t. TypeOK /\ LockInv /\ tx[m].held \cap tx[o].held = {}
  BY DEF Inductive, Exclusive
<1>1. \A w \in Members : \/ tx'[w].held \subseteq tx[w].held
                         \/ \E x : tx'[w].held \subseteq tx[w].held \cup {x} /\ Free(x)
  <2> SUFFICES ASSUME NEW w \in Members PROVE \/ tx'[w].held \subseteq tx[w].held
                                              \/ \E x : tx'[w].held \subseteq tx[w].held \cup {x} /\ Free(x)
    OBVIOUS
  <2>1. CASE Moves(w)
    <3>1. CASE Locks(w, tx[w], tx'[w])
      BY <3>1 DEF Locks
    <3>2. CASE Goes(w, tx[w], tx'[w])
      BY <3>2 DEF Goes
    <3> QED BY <2>1, <3>1, <3>2 DEF Moves, Finds, Starts
  <2>2. CASE Ends(w)
    BY <2>2 DEF Ends, NoTx
  <2> QED BY <2>1, <2>2, TxStep
<1>2. tx'[m] = tx[m] \/ tx'[o] = tx[o]
  BY <1>t, OwnStep DEF Next, SeedName, vars
<1> QED BY <1>t, <1>1, <1>2 DEF Free

-----------------------------------------------------------------------------
(* Requests, names and events *)

\* What a step does to a request: it is submitted, decided, erased with the account
\* of its requester, or loses its context, and each of these ends a transaction.
Same(q) == /\ requests'[q].status = requests[q].status
           /\ requests'[q].requester = requests[q].requester
           /\ requests'[q].name = requests[q].name
           /\ requests'[q].resolved = requests[q].resolved
Submitted(m, q) ==
    /\ tx'[m] = NoTx /\ Submit(m, q) /\ requests[q].status = "unused"
    /\ requests'[q].status = "pending" /\ requests'[q].requester = m
    /\ requests'[q].name \in tx[m].held /\ requests'[q].name \in Names
    /\ Named(requests'[q].name, None)
Settled(m, q) ==
    /\ tx'[m] = NoTx /\ tx[m].op \in Deciding /\ q = tx[m].request /\ q \in tx[m].held
    /\ q \in Pending
    /\ requests'[q].status \in Decisions /\ requests'[q].requester = requests[q].requester
    /\ Decide(m, requests'[q].status, requests'[q].resolved)
Erased(m, q) ==
    /\ tx'[m] = NoTx /\ EraseAccount(m) /\ q \in tx[m].held /\ q \in Pending
    /\ requests'[q].status = "erased" /\ requests'[q].requester = None
Scrubbed(m, q) ==
    /\ EraseAccount(m) /\ q \in Decided /\ requests[q].requester = m
    /\ Same(q) /\ requests'[q].context = FALSE
RowChange(q) ==
    \/ requests'[q] = requests[q]
    \/ \E m \in Members : Submitted(m, q) \/ Settled(m, q) \/ Erased(m, q) \/ Scrubbed(m, q)

\* A decision changes the row of the request it is about, and no other.
LEMMA DecideStep ==
    ASSUME Inductive, NEW m \in Members, NEW q \in Requests, NEW status \in Decisions,
           NEW i \in Ingredients \cup {None}, tx[m].op \in {"decide", "add"}, Decide(m, status, i)
    PROVE  /\ q # tx[m].request => requests'[q] = requests[q]
           /\ q = tx[m].request => Settled(m, q) /\ requests'[q].status = status
                                   /\ requests'[q].resolved = i
<1> DEFINE r == tx[m].request
<1>t. TypeOK /\ LockInv /\ ReliesInv
  BY DEF Inductive
<1>1. r \in tx[m].held /\ r \in Pending
  BY <1>t DEF LockInv, Locking, ReliesInv, Relies, Deciding
<1>2. tx'[m] = NoTx
  BY <1>t DEF Decide, End, TypeOK
<1>3. requests' = [requests EXCEPT ![r].status = status, ![r].resolved = i]
  BY DEF Decide
<1>4. q # r => requests'[q] = requests[q]
  BY <1>t, <1>3 DEF TypeOK
<1>5. q = r => /\ requests'[q].status = status /\ requests'[q].resolved = i
               /\ requests'[q].requester = requests[q].requester
  BY <1>t, <1>3 DEF TypeOK, Request
<1> QED BY <1>1, <1>2, <1>4, <1>5 DEF Settled, Deciding

\* What a step of a member does to a request.
LEMMA MemberRowStep ==
    ASSUME Inductive, NEW m \in Members, MemberStep(m), NEW q \in Requests
    PROVE  RowChange(q)
<1>t. TypeOK /\ LockInv /\ ReliesInv /\ requests \in [Requests -> Request]
  BY DEF Inductive, TypeOK
<1>1. CASE UNCHANGED requests
  BY <1>1 DEF RowChange
<1>2. ASSUME NEW r \in Requests, Submit(m, r)
      PROVE  RowChange(q)
  <2>1. PICK n \in tx[m].wants :
          requests' = [requests EXCEPT ![r] = [status |-> "pending", requester |-> m,
                             name |-> n, context |-> tx[m].context, resolved |-> None]]
    BY <1>2 DEF Submit
  <2>2. q # r => requests'[q] = requests[q]
    BY <1>t, <2>1
  <2>3. ASSUME q = r PROVE Submitted(m, q)
    <3>1. /\ requests'[q].status = "pending" /\ requests'[q].requester = m
          /\ requests'[q].name = n
      BY <1>t, <2>1, <2>3
    <3>2. n \in Names /\ n \in tx[m].held /\ tx[m].request = None
      BY <1>2, <1>t DEF Submit, LockInv, Locking
    <3>3. Named(n, None)
      BY <1>2, <1>t, <3>2 DEF Submit, ReliesInv, Relies
    <3>4. tx'[m] = NoTx
      BY <1>2, <1>t DEF Submit, End, TypeOK
    <3> QED BY <1>2, <2>3, <3>1, <3>2, <3>3, <3>4 DEF Submitted, Submit
  <2> QED BY <2>2, <2>3 DEF RowChange
<1>3. CASE RejectRequest(m)
  <2>1. "rejected" \in Decisions
    BY DEF Decisions
  <2>2. \/ requests'[q] = requests[q]
        \/ Settled(m, q)
    BY <1>3, <2>1, DecideStep DEF RejectRequest
  <2> QED BY <2>2 DEF RowChange
<1>4. ASSUME NEW i \in Ingredients, MarkDuplicate(m, i)
      PROVE  RowChange(q)
  <2>1. "duplicate" \in Decisions
    BY DEF Decisions
  <2>2. \/ requests'[q] = requests[q]
        \/ Settled(m, q)
    BY <1>4, <2>1, DecideStep DEF MarkDuplicate
  <2> QED BY <2>2 DEF RowChange
<1>5. CASE ApproveRequest(m)
  <2>1. "approved" \in Decisions /\ tx[m].request \in Ingredients
    BY <1>5, <1>t DEF Decisions, ApproveRequest, LockInv, Locking, Deciding, Ingredients
  <2>2. \/ requests'[q] = requests[q]
        \/ Settled(m, q)
    BY <1>5, <2>1, DecideStep DEF ApproveRequest
  <2> QED BY <2>2 DEF RowChange
<1>6. CASE EraseAccount(m)
  <2> DEFINE decided == {d \in Decided : requests[d].requester = m}
             row == IF q \in tx[m].held THEN [NoRequest EXCEPT !.status = "erased"]
                    ELSE IF q \in decided THEN [requests[q] EXCEPT !.context = FALSE]
                    ELSE requests[q]
  <2>1. requests'[q] = row
    BY <1>6 DEF EraseAccount
  <2>2. CASE q \in tx[m].held
    <3>1. requests'[q].status = "erased" /\ requests'[q].requester = None
      BY <2>1, <2>2 DEF NoRequest
    <3>2. q \in Pending
      BY <1>6, <1>t, <2>2 DEF EraseAccount, ReliesInv, Relies
    <3>3. tx'[m] = NoTx
      BY <1>6, <1>t DEF EraseAccount, End, TypeOK
    <3> QED BY <1>6, <2>2, <3>1, <3>2, <3>3 DEF RowChange, Erased
  <2>3. CASE q \notin tx[m].held /\ q \in decided
    <3>1. requests'[q] = [requests[q] EXCEPT !.context = FALSE]
      BY <2>1, <2>3
    <3>2. Same(q) /\ requests'[q].context = FALSE
      BY <1>t, <3>1 DEF Same, Request
    <3> QED BY <1>6, <2>3, <3>2 DEF RowChange, Scrubbed
  <2> QED BY <2>1, <2>2, <2>3 DEF RowChange
<1>7. Moves(m) => UNCHANGED requests
  BY DEF Moves, tables
<1> QED BY <1>1, <1>2, <1>3, <1>4, <1>5, <1>6, <1>7, MemberMoves
        DEF Ends, GrantCurator, RevokeCurator, Rollback

\* What a step does to a request.
LEMMA RowStep == ASSUME Inductive, [Next]_vars, NEW q \in Requests PROVE RowChange(q)
<1>1. UNCHANGED requests => RowChange(q)
  BY DEF RowChange
<1> QED BY <1>1, MemberRowStep DEF Next, SeedName, vars

\* A request keeps its requester until it is erased.
LEMMA RowInvPreserved == Inductive /\ [Next]_vars => RowInv'
<1> SUFFICES ASSUME Inductive, [Next]_vars, NEW q \in Requests
             PROVE  /\ requests'[q].requester = None <=> requests'[q].status \in {"unused", "erased"}
                    /\ requests'[q].status = "pending" => requests'[q].name \in Names
  BY DEF RowInv
<1>1. RowInv /\ RowChange(q)
  BY RowStep DEF Inductive
<1> QED BY <1>1, IdentityAssumption
        DEF RowInv, RowChange, Submitted, Settled, Erased, Scrubbed, Same, Decisions, Pending

\* A name gets its ingredient from an approval or the seed, and keeps it.
LEMMA NameStep ==
    ASSUME Inductive, [Next]_vars, NEW n \in Names
    PROVE  \/ catalog'[n] = catalog[n]
           \/ catalog[n] = None /\ Free(n) /\ catalog'[n] = Seed
           \/ \E m \in Members : /\ ApproveRequest(m) /\ n \in tx[m].held /\ tx'[m] = NoTx
                                 /\ catalog[n] = None /\ catalog'[n] = tx[m].request
<1>t. TypeOK /\ LockInv /\ ReliesInv
  BY DEF Inductive
<1>1. ASSUME NEW x \in Names, SeedName(x)
      PROVE  \/ catalog'[n] = catalog[n]
             \/ catalog[n] = None /\ Free(n) /\ catalog'[n] = Seed
  BY <1>1, <1>t DEF SeedName, TypeOK
<1>2. ASSUME NEW m \in Members, ApproveRequest(m)
      PROVE  \/ catalog'[n] = catalog[n]
             \/ /\ n \in tx[m].held /\ tx'[m] = NoTx
                /\ catalog[n] = None /\ catalog'[n] = tx[m].request
  <2>1. tx'[m] = NoTx
    BY <1>2, <1>t DEF ApproveRequest, Decide, End, TypeOK
  <2>2. n \in tx[m].wants => n \in tx[m].held /\ catalog[n] = None
    BY <1>2, <1>t DEF ApproveRequest, LockInv, Locking, ReliesInv, Relies, Named
  <2> QED BY <1>2, <2>1, <2>2 DEF ApproveRequest
<1>3. ASSUME NEW m \in Members, MemberStep(m), ~ApproveRequest(m)
      PROVE  UNCHANGED catalog
  BY <1>3, MemberMoves DEF Ends, Moves, tables, GrantCurator, RevokeCurator, Rollback, Submit,
     RejectRequest, MarkDuplicate, EraseAccount
<1> QED BY <1>1, <1>2, <1>3 DEF Next, vars

\* What one transaction holds no other one decides or erases.
LEMMA Untouched ==
    ASSUME Inductive, [Next]_vars, NEW m \in Members, NEW o \in Members, NEW x,
           x \in tx[m].held, tx'[m] # NoTx, x \in tx[o].held
    PROVE  tx'[o] # NoTx
BY DEF Inductive, Exclusive

\* A pending request that a transaction holds stays as it is.
LEMMA HeldStays ==
    ASSUME Inductive, [Next]_vars, NEW m \in Members, NEW q \in Requests \cap tx[m].held,
           tx'[m] # NoTx, q \in Pending
    PROVE  requests'[q] = requests[q]
<1>1. RowChange(q)
  BY RowStep
<1> QED BY <1>1, Untouched DEF RowChange, Submitted, Settled, Erased, Scrubbed, Pending, Decided, Decisions

\* A name that is nobody's and that a transaction holds stays nobody's.
LEMMA NamedStays ==
    ASSUME Inductive, [Next]_vars, NEW m \in Members, NEW n \in Names \cap tx[m].held,
           tx'[m] # NoTx, NEW r, Named(n, r)
    PROVE  Named(n, r)'
<1>1. catalog'[n] = None
  <2>1. ~Free(n)
    BY DEF Free
  <2> QED BY <2>1, NameStep, Untouched DEF Named
<1>2. ASSUME NEW p \in Pending', p # r PROVE requests'[p].name # n
  <2>1. p \in Requests /\ requests'[p].status = "pending" /\ RowChange(p)
    BY <1>2, RowStep DEF Pending
  <2>2. ASSUME NEW o \in Members, Submitted(o, p) PROVE requests'[p].name # n
    BY <2>2, Untouched DEF Submitted
  <2>3. requests'[p] = requests[p] \/ \E o \in Members : Submitted(o, p)
    BY <2>1 DEF RowChange, Settled, Erased, Scrubbed, Same, Decisions, Decided
  <2>4. CASE requests'[p] = requests[p]
    BY <1>2, <2>1, <2>4 DEF Named, Pending
  <2> QED BY <2>2, <2>3, <2>4
<1> QED BY <1>1, <1>2 DEF Named

\* A member stops being active by the end of a deletion of their own.
LEMMA StaysActive ==
    ASSUME Inductive, [Next]_vars, NEW m \in active
    PROVE  m \in active' \/ tx'[m] = NoTx
<1>t. TypeOK
  BY DEF Inductive
<1>1. ASSUME NEW o \in Members, MemberStep(o)
      PROVE  m \in active' \/ tx'[m] = NoTx
  <2>1. CASE EraseAccount(o)
    BY <1>t, <2>1 DEF EraseAccount, End, TypeOK
  <2>2. CASE ~EraseAccount(o)
    <3>1. active' = active
      BY <1>1, <2>2, MemberMoves DEF Ends, Moves, tables, GrantCurator, RevokeCurator, Rollback, Submit,
         RejectRequest, MarkDuplicate, ApproveRequest, Decide
    <3> QED BY <3>1
  <2> QED BY <2>1, <2>2
<1> QED BY <1>1 DEF Next, SeedName, vars

\* What the locks let a transaction rely on stays so until it ends.
LEMMA ReliesInvPreserved == Inductive /\ [Next]_vars => ReliesInv'
<1> SUFFICES ASSUME Inductive, [Next]_vars, NEW m \in Members PROVE Relies(m)'
  BY DEF ReliesInv
<1> DEFINE t == tx[m]
           u == tx'[m]
<1>t. /\ Relies(m) /\ Locking(t) /\ t \in Tx /\ requests \in [Requests -> Request]
      /\ active \subseteq Members /\ RowInv
  BY DEF Inductive, TypeOK, ReliesInv, LockInv
<1>1. CASE u = NoTx
  BY <1>1 DEF Relies, NoTx, Deciding
<1>2. CASE u = t /\ u # NoTx
  <2>0. t.op # "idle"
    BY <1>t, <1>2 DEF Locking
  <2>1. m \in active'
    BY <1>t, <1>2, <2>0, StaysActive DEF Relies
  <2>2. t.op \in Deciding => t.request \in Pending'
    <3>1. t.op \in Deciding => t.request \in Requests \cap t.held /\ t.request \in Pending
      BY <1>t DEF Locking, Relies
    <3> QED BY <1>2, <3>1, HeldStays DEF Pending
  <2>3. t.op \in {"insert", "add"} => \A n \in t.wants \cap Names : Named(n, t.request)'
    <3>1. t.op \in {"insert", "add"} => \A n \in t.wants \cap Names : n \in t.held /\ Named(n, t.request)
      BY <1>t DEF Locking, Relies
    <3> QED BY <1>2, <3>1, NamedStays
  <2>4. ASSUME t.op = "drop"
        PROVE  /\ t.held \subseteq Pending' /\ PendingOf(m)' \subseteq t.wants
               /\ \A q \in t.wants : requests'[q].requester = m
    <3>1. /\ t.held \subseteq Pending /\ PendingOf(m) \subseteq t.wants
          /\ \A q \in t.wants : requests[q].requester = m
          /\ t.wants \subseteq Requests
      BY <1>t, <2>4 DEF Locking, Relies
    <3>2. t.held \subseteq Pending'
      BY <1>2, <3>1, HeldStays DEF Pending
    <3>3. ASSUME NEW q \in Requests
          PROVE  /\ q \in PendingOf(m)' => q \in t.wants
                 /\ q \in t.wants => requests'[q].requester = m
      <4>1. RowChange(q)
        BY RowStep
      <4>2. CASE requests'[q] = requests[q]
        BY <3>1, <4>2 DEF PendingOf, Pending
      <4>3. ASSUME NEW o \in Members, Submitted(o, q)
            PROVE  /\ q \in PendingOf(m)' => q \in t.wants
                   /\ q \in t.wants => requests'[q].requester = m
        <5>1. o # m /\ requests'[q].requester = o
          BY <1>2, <4>3 DEF Submitted
        <5>2. requests[q].requester = None /\ None # m
          BY <1>t, <4>3, IdentityAssumption DEF Submitted, RowInv
        <5> QED BY <3>1, <5>1, <5>2 DEF PendingOf
      <4>4. ASSUME NEW o \in Members, Settled(o, q)
            PROVE  /\ q \in PendingOf(m)' => q \in t.wants
                   /\ q \in t.wants => requests'[q].requester = m
        BY <3>1, <4>4 DEF Settled, PendingOf, Pending, Decisions
      <4>5. ASSUME NEW o \in Members, Erased(o, q)
            PROVE  /\ q \in PendingOf(m)' => q \in t.wants
                   /\ q \in t.wants => requests'[q].requester = m
        <5>1. o # m
          BY <1>2, <4>5 DEF Erased
        <5>2. requests[q].requester = o
          BY <4>5 DEF Inductive, ReliesInv, LockInv, Relies, Locking, Erased, EraseAccount
        <5> QED BY <3>1, <4>5, <5>1, <5>2 DEF Erased, PendingOf, Pending
      <4>6. ASSUME NEW o \in Members, Scrubbed(o, q)
            PROVE  /\ q \in PendingOf(m)' => q \in t.wants
                   /\ q \in t.wants => requests'[q].requester = m
        BY <3>1, <4>6 DEF Scrubbed, Same, PendingOf, Pending
      <4> QED BY <4>1, <4>2, <4>3, <4>4, <4>5, <4>6 DEF RowChange
    <3>4. PendingOf(m)' \subseteq Requests
      BY DEF PendingOf, Pending
    <3> QED BY <3>1, <3>2, <3>3, <3>4
  <2> QED BY <1>2, <2>1, <2>2, <2>3, <2>4 DEF Relies
<1>3. CASE Moves(m)
  <2>1. UNCHANGED tables
    BY <1>3 DEF Moves
  <2>2. /\ Pending' = Pending /\ PendingOf(m)' = PendingOf(m) /\ active' = active
        /\ requests' = requests
        /\ \A n, r : Named(n, r)' <=> Named(n, r)
    BY <2>1 DEF tables, Pending, PendingOf, Named
  <2>3. u.op # "idle" => m \in active
    BY <1>3, <1>t DEF Moves, Locks, Finds, Starts, Goes, Relies
  <2>4. u.op \in Deciding => u.request \in Pending
    BY <1>3, <1>t DEF Moves, Locks, Finds, Starts, Goes, Relies, Deciding
  <2>5. u.op \in {"insert", "add"} => \A n \in u.wants \cap Names : Named(n, u.request)
    BY <1>3, <1>t DEF Moves, Locks, Finds, Starts, Goes, Relies
  <2>6. ASSUME u.op = "drop"
        PROVE  /\ u.held \subseteq Pending /\ PendingOf(m) \subseteq u.wants
               /\ \A q \in u.wants : requests[q].requester = m
    <3>1. CASE t.op = "drop"
      <4>1. Locks(m, t, u)
        BY <1>3, <2>6, <3>1 DEF Moves, Finds, Starts, Goes
      <4> QED BY <1>t, <3>1, <4>1 DEF Locks, Relies
    <3>2. CASE t.op # "drop"
      <4>1. t.op = "purge" /\ u.wants = PendingOf(m) /\ u.held = t.held
        BY <1>3, <2>6, <3>2 DEF Moves, Locks, Finds, Starts, Goes
      <4> QED BY <1>t, <4>1 DEF Locking, PendingOf
    <3> QED BY <3>1, <3>2
  <2> QED BY <2>2, <2>3, <2>4, <2>5, <2>6 DEF Relies
<1>4. Ends(m) => u = NoTx
  BY DEF Ends
<1> QED BY <1>1, <1>2, <1>3, <1>4, TxStep

\* A decision stays.
LEMMA DecidedStays ==
    ASSUME Inductive, [Next]_vars, NEW q \in Decided
    PROVE  q \in Requests /\ Same(q) /\ q \in Decided'
<1>1. q \in Requests /\ RowChange(q)
  BY RowStep DEF Decided
<1> QED BY <1>1 DEF RowChange, Submitted, Settled, Erased, Scrubbed, Same, Decided, Pending, Decisions

\* An ingredient named after a request is of an approved one.
LEMMA CatalogInvPreserved == Inductive /\ [Next]_vars => CatalogInv'
<1> SUFFICES ASSUME Inductive, [Next]_vars, NEW n \in Names, catalog'[n] \in Requests
             PROVE  requests'[catalog'[n]].status = "approved"
  BY DEF CatalogInv
<1>1. CASE catalog'[n] = catalog[n]
  <2>1. catalog[n] \in Decided /\ requests[catalog[n]].status = "approved"
    BY <1>1 DEF Inductive, CatalogInv, Decided, Decisions
  <2> QED BY <1>1, <2>1, DecidedStays DEF Same
<1>2. ASSUME NEW m \in Members, ApproveRequest(m), catalog'[n] = tx[m].request
      PROVE  requests'[catalog'[n]].status = "approved"
  <2>1. "approved" \in Decisions /\ tx[m].request \in Ingredients
    BY <1>2 DEF Decisions, Ingredients
  <2> QED BY <1>2, <2>1, DecideStep DEF ApproveRequest
<1> QED BY <1>1, <1>2, NameStep, IdentityAssumption

\* A request comes to await review under the lock of its name, which nobody else has.
LEMMA NamesPreserved == Inductive /\ [Next]_vars => NamesAwaitOneReview'
<1> SUFFICES ASSUME Inductive, [Next]_vars, NEW p \in Pending'
             PROVE  /\ \A q \in Pending' : requests'[p].name = requests'[q].name => p = q
                    /\ catalog'[requests'[p].name] \in {None, Seed}
  BY DEF NamesAwaitOneReview
<1>i. NamesAwaitOneReview /\ TypeOK /\ LockInv /\ ReliesInv /\ RowInv
  BY DEF Inductive
<1>1. \A q \in Pending' : /\ q \in Requests
                          /\ \/ requests'[q] = requests[q] /\ q \in Pending
                             \/ \E m \in Members : Submitted(m, q)
  <2> SUFFICES ASSUME NEW q \in Pending'
               PROVE  /\ q \in Requests
                      /\ \/ requests'[q] = requests[q] /\ q \in Pending
                         \/ \E m \in Members : Submitted(m, q)
    OBVIOUS
  <2>1. q \in Requests /\ requests'[q].status = "pending" /\ RowChange(q)
    BY RowStep DEF Pending
  <2> QED BY <2>1 DEF RowChange, Settled, Erased, Scrubbed, Same, Decided, Decisions, Pending
<1>2. ASSUME NEW m \in Members, NEW q \in Pending', NEW r \in Pending', Submitted(m, q),
             requests'[r] = requests[r], r \in Pending
      PROVE  requests'[q].name # requests'[r].name
  BY <1>2, IdentityAssumption DEF Submitted, Named, Pending
<1>3. ASSUME NEW m \in Members, NEW o \in Members, NEW q \in Pending', NEW r \in Pending',
             Submitted(m, q), Submitted(o, r), requests'[q].name = requests'[r].name
      PROVE  q = r
  <2>1. m = o
    BY <1>3 DEF Submitted, Inductive, Exclusive
  <2>2. q # r => requests'[r] = requests[r]
    BY <1>1, <1>3, <2>1, <1>i DEF Submitted, Submit, TypeOK
  <2> QED BY <1>3, <2>2 DEF Submitted
<1>4. ASSUME NEW q \in Pending', requests'[p].name = requests'[q].name
      PROVE  p = q
  <2>1. CASE requests'[p] = requests[p] /\ p \in Pending /\ requests'[q] = requests[q] /\ q \in Pending
    BY <1>4, <1>i, <2>1 DEF NamesAwaitOneReview
  <2> QED BY <1>1, <1>2, <1>3, <1>4, <2>1
<1>5. ASSUME requests'[p] = requests[p], p \in Pending
      PROVE  catalog'[requests'[p].name] \in {None, Seed}
  <2> DEFINE n == requests[p].name
  <2>1. n \in Names /\ catalog[n] \in {None, Seed} /\ p \in Requests
    BY <1>i, <1>5 DEF RowInv, Pending, NamesAwaitOneReview
  <2>2. ASSUME NEW m \in Members, ApproveRequest(m), n \in tx[m].held
        PROVE  FALSE
    <3>1. Named(n, tx[m].request)
      BY <1>i, <2>1, <2>2 DEF ApproveRequest, ReliesInv, Relies, LockInv, Locking
    <3>2. p = tx[m].request
      BY <1>5, <3>1 DEF Named
    <3>3. "approved" \in Decisions /\ tx[m].request \in Ingredients
      BY <2>1, <3>2 DEF Decisions, Ingredients
    <3>4. requests'[p].status = "approved"
      BY <2>1, <2>2, <3>2, <3>3, DecideStep DEF ApproveRequest
    <3> QED BY <3>4 DEF Pending
  <2>3. catalog'[n] \in {None, Seed}
    BY <2>1, <2>2, NameStep
  <2>4. requests'[p].name = n
    BY <1>5
  <2> HIDE DEF n
  <2> QED BY <2>3, <2>4
<1>6. ASSUME NEW m \in Members, Submitted(m, p)
      PROVE  catalog'[requests'[p].name] \in {None, Seed}
  <2> DEFINE n == requests'[p].name
  <2>1. n \in Names /\ n \in tx[m].held /\ catalog[n] = None
    BY <1>6 DEF Submitted, Named
  <2>2. ~Free(n)
    BY <2>1 DEF Free
  <2>3. ASSUME NEW o \in Members, ApproveRequest(o), n \in tx[o].held
        PROVE  FALSE
    <3>1. o = m
      BY <2>1, <2>3 DEF Inductive, Exclusive
    <3> QED BY <1>6, <2>3, <3>1 DEF Submitted, Submit, ApproveRequest
  <2> QED BY <2>1, <2>2, <2>3, NameStep
<1> QED BY <1>1, <1>4, <1>5, <1>6

\* The steps that change requests and events.
LEMMA TableStep ==
    ASSUME Inductive, [Next]_vars
    PROVE  \/ UNCHANGED <<active, requests, audit>> /\ curators' \subseteq curators \cup active
           \/ \E m \in Members, r \in Requests : Submit(m, r)
           \/ \E m \in Members, status \in Decisions, i \in Ingredients \cup {None} :
                /\ tx[m].op \in {"decide", "add"} /\ Decide(m, status, i)
                /\ status = "approved" => ApproveRequest(m)
                /\ status = "duplicate" => MarkDuplicate(m, i) /\ i # None
           \/ \E m \in Members : EraseAccount(m)
<1> DEFINE Settles == \E m \in Members, status \in Decisions, i \in Ingredients \cup {None} :
                        /\ tx[m].op \in {"decide", "add"} /\ Decide(m, status, i)
                        /\ status = "approved" => ApproveRequest(m)
                        /\ status = "duplicate" => MarkDuplicate(m, i) /\ i # None
           Quiet == UNCHANGED <<active, requests, audit>> /\ curators' \subseteq curators \cup active
<1>1. ASSUME NEW m \in Members, RejectRequest(m) PROVE Settles
  <2>1. "rejected" \in Decisions
    BY DEF Decisions
  <2> QED BY <1>1, <2>1 DEF RejectRequest
<1>2. ASSUME NEW m \in Members, NEW i \in Ingredients, MarkDuplicate(m, i) PROVE Settles
  <2>1. "duplicate" \in Decisions /\ i # None
    BY IdentityAssumption DEF Decisions, Ingredients
  <2> QED BY <1>2, <2>1 DEF MarkDuplicate
<1>3. ASSUME NEW m \in Members, ApproveRequest(m) PROVE Settles
  <2>1. "approved" \in Decisions /\ tx[m].request \in Ingredients
    BY <1>3 DEF Decisions, Inductive, LockInv, Locking, Deciding, ApproveRequest, Ingredients
  <2> QED BY <1>3, <2>1 DEF ApproveRequest
<1>4. ASSUME NEW m \in Members, Moves(m) \/ GrantCurator(m) \/ RevokeCurator(m) \/ Rollback(m)
      PROVE  Quiet
  BY <1>4 DEF Moves, tables, GrantCurator, RevokeCurator, Rollback
<1>5. ASSUME NEW n \in Names, SeedName(n) PROVE Quiet
  BY <1>5 DEF SeedName
<1>6. UNCHANGED vars => Quiet
  BY DEF vars
<1> HIDE DEF Settles, Quiet
<1>7. Quiet \/ Settles \/ (\E m \in Members, r \in Requests : Submit(m, r))
             \/ (\E m \in Members : EraseAccount(m))
  BY <1>1, <1>2, <1>3, <1>4, <1>5, <1>6, MemberMoves DEF Next, Ends
<1> QED BY <1>7 DEF Settles, Quiet

\* The kinds of decision the events of a request record.
Types(q) == {e.type : e \in {e \in audit : e.request = q /\ e.type # "submitted"}}

\* A deletion removes submissions and contexts, and no decision.
LEMMA EraseEvents ==
    ASSUME Inductive, NEW m \in Members, EraseAccount(m)
    PROVE  /\ \A q \in Requests : Types(q)' = Types(q)
           /\ \A e \in audit' : \E d \in audit :
                /\ e.request = d.request
                /\ e.context = d.context \/ ~e.context
                /\ d.request \in Decided /\ requests[d.request].requester = m => ~e.context
<1> DEFINE decided == {q \in Decided : requests[q].requester = m}
           Scrub(e) == IF e.request \in decided THEN [e EXCEPT !.context = FALSE] ELSE e
<1>1. audit' = {Scrub(e) : e \in audit \ tx[m].audit}
  BY DEF EraseAccount
<1>2. \A e \in Event : /\ Scrub(e).request = e.request /\ Scrub(e).type = e.type
                       /\ Scrub(e).context = e.context \/ ~Scrub(e).context
                       /\ e.request \in decided => ~Scrub(e).context
  BY DEF Event
<1>3. audit \subseteq Event /\ \A e \in tx[m].audit : e.type = "submitted"
  BY DEF Inductive, TypeOK, LockInv, Locking
<1>4. ASSUME NEW q \in Requests
      PROVE  Types(q)' = Types(q)
  <2> HIDE DEF Scrub, decided
  <2>1. ASSUME NEW y \in Types(q) PROVE y \in Types(q)'
    <3>1. PICK e \in audit : e.request = q /\ e.type # "submitted" /\ y = e.type
      BY DEF Types
    <3>2. Scrub(e) \in audit' /\ Scrub(e).request = q /\ Scrub(e).type = y
      BY <1>1, <1>2, <1>3, <3>1
    <3> QED BY <3>1, <3>2 DEF Types
  <2>2. ASSUME NEW y \in Types(q)' PROVE y \in Types(q)
    <3>1. PICK e \in audit' : e.request = q /\ e.type # "submitted" /\ y = e.type
      BY DEF Types
    <3>2. PICK d \in audit : e = Scrub(d)
      BY <1>1, <3>1
    <3> QED BY <1>2, <1>3, <3>1, <3>2 DEF Types
  <2> QED BY <2>1, <2>2
<1>5. ASSUME NEW e \in audit'
      PROVE  \E d \in audit :
                /\ e.request = d.request
                /\ e.context = d.context \/ ~e.context
                /\ d.request \in decided => ~e.context
  <2>1. PICK d \in audit : e = Scrub(d)
    BY <1>1
  <2> HIDE DEF Scrub, decided
  <2> QED BY <1>2, <1>3, <2>1
<1> QED BY <1>4, <1>5

\* A decision adds its own event to those of its request.
LEMMA DecideEvents ==
    ASSUME NEW m \in Members, NEW status \in Decisions, NEW i, Decide(m, status, i), NEW q \in Requests
    PROVE  Types(q)' = IF q = tx[m].request THEN Types(q) \cup {status} ELSE Types(q)
<1> DEFINE e == [request |-> tx[m].request, type |-> status, context |-> FALSE]
<1>1. audit' = audit \cup {e}
  BY DEF Decide
<1>2. e.request = tx[m].request /\ e.type = status /\ status # "submitted"
  BY DEF Decisions
<1> HIDE DEF e
<1>3. ASSUME q = tx[m].request
      PROVE  Types(q)' = Types(q) \cup {status}
  <2>1. {d \in audit' : d.request = q /\ d.type # "submitted"}
          = {d \in audit : d.request = q /\ d.type # "submitted"} \cup {e}
    BY <1>1, <1>2, <1>3
  <2> QED BY <1>2, <2>1 DEF Types
<1>4. ASSUME q # tx[m].request
      PROVE  Types(q)' = Types(q)
  <2>1. {d \in audit' : d.request = q /\ d.type # "submitted"}
          = {d \in audit : d.request = q /\ d.type # "submitted"}
    BY <1>1, <1>2, <1>4
  <2> QED BY <2>1 DEF Types
<1> QED BY <1>3, <1>4

\* Every decision is made once, recorded, and keeps the ingredient it is about.
LEMMA DecisionsPreserved == Inductive /\ [Next]_vars => DecisionsAreEvidenced'
<1> SUFFICES ASSUME Inductive, [Next]_vars, NEW q \in Requests
             PROVE  /\ Types(q)' = {requests'[q].status} \cap Decisions
                    /\ requests'[q].status = "approved" => \E n \in Names : catalog'[n] = q
                    /\ requests'[q].status = "duplicate" =>
                         /\ requests'[q].resolved \in Ingredients \ {q}
                         /\ \E n \in Names : catalog'[n] = requests'[q].resolved
  BY DEF DecisionsAreEvidenced, Types
<1>i. /\ Types(q) = {requests[q].status} \cap Decisions
      /\ requests[q].status = "approved" => \E n \in Names : catalog[n] = q
      /\ requests[q].status = "duplicate" =>
           /\ requests[q].resolved \in Ingredients \ {q}
           /\ \E n \in Names : catalog[n] = requests[q].resolved
  BY DEF Inductive, DecisionsAreEvidenced, Types
<1>t. TypeOK /\ requests \in [Requests -> Request] /\ CatalogInv
  BY DEF Inductive, TypeOK
<1>c. \A i \in Ingredients : (\E n \in Names : catalog[n] = i) => \E n \in Names : catalog'[n] = i
  <2>1. \A n \in Names : catalog[n] = None \/ catalog'[n] = catalog[n]
    BY NameStep
  <2>2. None \notin Ingredients
    BY IdentityAssumption DEF Ingredients
  <2> QED BY <2>1, <2>2
<1>k. ASSUME Same(q), requests[q].status \in Decisions
      PROVE  /\ requests'[q].status = "approved" => \E n \in Names : catalog'[n] = q
             /\ requests'[q].status = "duplicate" =>
                  /\ requests'[q].resolved \in Ingredients \ {q}
                  /\ \E n \in Names : catalog'[n] = requests'[q].resolved
  <2>1. q \in Ingredients
    BY DEF Ingredients
  <2> QED BY <1>c, <1>i, <1>k, <2>1 DEF Same
<1>1. CASE UNCHANGED <<active, requests, audit>> /\ curators' \subseteq curators \cup active
  <2>1. Types(q)' = Types(q) /\ Same(q)
    BY <1>1 DEF Types, Same
  <2> QED BY <1>i, <1>k, <2>1 DEF Same, Decisions
<1>2. ASSUME NEW m \in Members, NEW r \in Requests, Submit(m, r)
      PROVE  /\ Types(q)' = {requests'[q].status} \cap Decisions
             /\ requests'[q].status = "approved" => \E n \in Names : catalog'[n] = q
             /\ requests'[q].status = "duplicate" =>
                  /\ requests'[q].resolved \in Ingredients \ {q}
                  /\ \E n \in Names : catalog'[n] = requests'[q].resolved
  <2> DEFINE e == [request |-> r, type |-> "submitted", context |-> tx[m].context]
  <2>1. audit' = audit \cup {e} /\ e.type = "submitted"
    BY <1>2 DEF Submit
  <2>2. Types(q)' = Types(q)
    <3> HIDE DEF e
    <3>1. {d \in audit' : d.request = q /\ d.type # "submitted"}
            = {d \in audit : d.request = q /\ d.type # "submitted"}
      BY <2>1
    <3> QED BY <3>1 DEF Types
  <2>3. CASE q # r
    <3>1. requests'[q] = requests[q]
      BY <1>2, <1>t, <2>3 DEF Submit
    <3> QED BY <1>i, <1>k, <2>2, <3>1 DEF Same, Decisions
  <2>4. CASE q = r
    <3>1. requests[q].status = "unused" /\ requests'[q].status = "pending"
      BY <1>2, <1>t, <2>4 DEF Submit
    <3> QED BY <1>i, <2>2, <3>1 DEF Decisions
  <2> QED BY <2>3, <2>4
<1>3. ASSUME NEW m \in Members, NEW status \in Decisions, NEW i \in Ingredients \cup {None},
             tx[m].op \in {"decide", "add"}, Decide(m, status, i),
             status = "approved" => ApproveRequest(m),
             status = "duplicate" => MarkDuplicate(m, i) /\ i # None
      PROVE  /\ Types(q)' = {requests'[q].status} \cap Decisions
             /\ requests'[q].status = "approved" => \E n \in Names : catalog'[n] = q
             /\ requests'[q].status = "duplicate" =>
                  /\ requests'[q].resolved \in Ingredients \ {q}
                  /\ \E n \in Names : catalog'[n] = requests'[q].resolved
  <2>1. CASE q # tx[m].request
    <3>1. requests'[q] = requests[q] /\ Types(q)' = Types(q)
      BY <1>3, <2>1, DecideStep, DecideEvents
    <3> QED BY <1>i, <1>k, <3>1 DEF Same, Decisions
  <2>2. CASE q = tx[m].request
    <3>1. Settled(m, q) /\ requests'[q].status = status /\ requests'[q].resolved = i
      BY <1>3, <2>2, DecideStep
    <3>2. Types(q)' = Types(q) \cup {status} /\ requests[q].status = "pending"
      BY <1>3, <2>2, <3>1, DecideEvents DEF Settled, Pending
    <3>3. Types(q) = {}
      BY <1>i, <3>2 DEF Decisions
    <3>4. ASSUME status = "approved" PROVE \E n \in Names : catalog'[n] = q
      <4>1. ApproveRequest(m)
        BY <1>3, <3>4
      <4>2. PICK n \in Names : n \in tx[m].wants
        BY <4>1 DEF ApproveRequest, Inductive, LockInv, Locking
      <4> QED BY <2>2, <4>1, <4>2 DEF ApproveRequest
    <3>5. ASSUME status = "duplicate" PROVE i \in Ingredients \ {q} /\ \E n \in Names : catalog'[n] = i
      <4>1. MarkDuplicate(m, i) /\ i # None
        BY <1>3, <3>5
      <4>2. PICK n \in Names : catalog[n] = i /\ catalog' = catalog
        BY <4>1 DEF MarkDuplicate
      <4> QED BY <1>t, <3>2, <4>1, <4>2 DEF CatalogInv
    <3> QED BY <3>1, <3>2, <3>3, <3>4, <3>5
  <2> QED BY <2>1, <2>2
<1>4. ASSUME NEW m \in Members, EraseAccount(m)
      PROVE  /\ Types(q)' = {requests'[q].status} \cap Decisions
             /\ requests'[q].status = "approved" => \E n \in Names : catalog'[n] = q
             /\ requests'[q].status = "duplicate" =>
                  /\ requests'[q].resolved \in Ingredients \ {q}
                  /\ \E n \in Names : catalog'[n] = requests'[q].resolved
  <2>1. Types(q)' = Types(q)
    BY <1>4, EraseEvents
  <2>2. CASE q \in Decided
    <3>1. Same(q) /\ requests[q].status \in Decisions
      BY <2>2, DecidedStays DEF Decided
    <3> QED BY <1>i, <1>k, <2>1, <3>1 DEF Same
  <2>3. CASE q \notin Decided
    <3>1. requests'[q] = requests[q] \/ requests'[q].status = "erased"
      BY <1>4, <1>t, <2>3 DEF EraseAccount, NoRequest
    <3>2. requests[q].status \notin Decisions /\ requests'[q].status \notin Decisions
      BY <2>3, <3>1 DEF Decided, Decisions
    <3> QED BY <1>i, <2>1, <3>2 DEF Decisions
  <2> QED BY <2>2, <2>3
<1> QED BY <1>1, <1>2, <1>3, <1>4, TableStep

\* Once a member's deletion has committed no table has their pending requests, nor
\* the context of a decided one.
LEMMA DeletionPreserved == Inductive /\ [Next]_vars => DeletionLeavesNoContext'
<1> SUFFICES ASSUME Inductive, [Next]_vars PROVE DeletionLeavesNoContext'
  OBVIOUS
<1>i. DeletionLeavesNoContext /\ TypeOK /\ requests \in [Requests -> Request] /\ active \subseteq Members
  BY DEF Inductive, TypeOK
<1>1. CASE UNCHANGED <<active, requests, audit>> /\ curators' \subseteq curators \cup active
  BY <1>1, <1>i DEF DeletionLeavesNoContext, Decided
<1>2. ASSUME NEW m \in Members, NEW r \in Requests, Submit(m, r)
      PROVE  DeletionLeavesNoContext'
  <2>1. m \in active /\ UNCHANGED <<active, curators>>
    BY <1>2 DEF Submit, Inductive, ReliesInv, Relies
  <2> DEFINE e == [request |-> r, type |-> "submitted", context |-> tx[m].context]
  <2>2. audit' = audit \cup {e} /\ e.request = r
    BY <1>2 DEF Submit
  <2> HIDE DEF e
  <2>3. requests'[r].requester = m /\ \A q \in Requests \ {r} : requests'[q] = requests[q]
    BY <1>2, <1>i DEF Submit
  <2> QED BY <1>i, <2>1, <2>2, <2>3 DEF DeletionLeavesNoContext, Decided
<1>3. ASSUME NEW m \in Members, NEW status \in Decisions, NEW i \in Ingredients \cup {None},
             tx[m].op \in {"decide", "add"}, Decide(m, status, i)
      PROVE  DeletionLeavesNoContext'
  <2> DEFINE r == tx[m].request
             e == [request |-> r, type |-> status, context |-> FALSE]
  <2>1. audit' = audit \cup {e} /\ e.request = r /\ UNCHANGED <<active, curators>>
    BY <1>3 DEF Decide
  <2> HIDE DEF e
  <2>2. \A q \in Requests : q # r => requests'[q] = requests[q]
    BY <1>3, DecideStep
  <2>3. r \in Requests => /\ requests'[r].requester = requests[r].requester
                          /\ r \notin Decided
    BY <1>3, DecideStep DEF Settled, Pending, Decided, Decisions
  <2> HIDE DEF r
  <2> QED BY <1>i, <2>1, <2>2, <2>3 DEF DeletionLeavesNoContext, Decided
<1>4. ASSUME NEW m \in Members, EraseAccount(m)
      PROVE  DeletionLeavesNoContext'
  <2>1. active' = active \ {m} /\ curators' = curators \ {m}
    BY <1>4 DEF EraseAccount
  <2>2. ASSUME NEW q \in Requests, requests'[q].requester \in Members \ active'
        PROVE  /\ q \in Decided' /\ ~requests'[q].context
               /\ \A e \in audit' : e.request = q => ~e.context
    <3>1. q \notin tx[m].held
      <4>1. q \in tx[m].held => requests'[q].requester = None
        BY <1>4 DEF EraseAccount, NoRequest
      <4> QED BY <2>2, <4>1, IdentityAssumption
    <3>2. /\ requests'[q] = [requests[q] EXCEPT !.context = FALSE]
             \/ requests'[q] = requests[q]
          /\ q \in Decided /\ requests[q].requester = m
               => requests'[q] = [requests[q] EXCEPT !.context = FALSE]
      BY <1>4, <3>1 DEF EraseAccount
    <3>3. /\ Same(q)
          /\ requests'[q].context = requests[q].context \/ ~requests'[q].context
          /\ q \in Decided /\ requests[q].requester = m => ~requests'[q].context
      BY <1>i, <3>2 DEF Same, Request
    <3>4. CASE requests[q].requester = m
      <4>1. requests[q].status \notin {"unused", "erased"}
        BY <3>4, IdentityAssumption DEF Inductive, RowInv
      <4>2. q \notin Pending
        <5>1. PendingOf(m) \subseteq tx[m].held
          BY <1>4 DEF EraseAccount, Missing, Inductive, ReliesInv, Relies
        <5> QED BY <3>1, <3>4, <5>1 DEF PendingOf
      <4>3. q \in Decided
        BY <1>i, <4>1, <4>2 DEF Decided, Pending, Request, Decisions
      <4>4. \A e \in audit' : e.request = q => ~e.context
        BY <1>4, <3>4, <4>3, EraseEvents
      <4> QED BY <3>3, <3>4, <4>3, <4>4, DecidedStays
    <3>5. CASE requests[q].requester # m
      <4>1. requests[q].requester \in Members \ active
        BY <2>1, <2>2, <3>3, <3>5 DEF Same
      <4>2. /\ q \in Decided /\ ~requests[q].context
            /\ \A e \in audit : e.request = q => ~e.context
        BY <1>i, <4>1 DEF DeletionLeavesNoContext
      <4>3. \A e \in audit' : e.request = q => ~e.context
        BY <1>4, <4>2, EraseEvents
      <4> QED BY <3>3, <4>2, <4>3, DecidedStays
    <3> QED BY <3>4, <3>5
  <2>3. curators' \subseteq active'
    BY <1>i, <2>1 DEF DeletionLeavesNoContext
  <2> QED BY <2>2, <2>3 DEF DeletionLeavesNoContext
<1> QED BY <1>1, <1>2, <1>3, <1>4, TableStep

-----------------------------------------------------------------------------
(* The theorems *)

\* A catalog nobody has asked anything of satisfies the inductive invariant.
LEMMA InductiveInit == Init => Inductive
<1> SUFFICES ASSUME Init PROVE Inductive
  OBVIOUS
<1> USE IdentityAssumption
<1>1. NoTx \in Tx /\ NoRequest \in Request
  BY DEF NoTx, Tx, NoRequest, Request
<1>2. TypeOK
  BY <1>1 DEF Init, TypeOK
<1>3. \A m \in Members : tx[m] = NoTx
  BY DEF Init
<1>4. \A q \in Requests : requests[q] = NoRequest
  BY DEF Init
<1>5. NoTx.op = "idle" /\ NoTx.held = {} /\ NoTx.wants = {} /\ NoTx.audit = {}
  BY DEF NoTx
<1>6. NoRequest.status = "unused" /\ NoRequest.requester = None
  BY DEF NoRequest
<1>7. LockInv
  BY <1>3, <1>5 DEF LockInv, Locking, Deciding
<1>8. Exclusive
  BY <1>3, <1>5 DEF Exclusive
<1>9. RowInv
  BY <1>4, <1>6 DEF RowInv
<1>10. ReliesInv
  BY <1>3, <1>5 DEF ReliesInv, Relies, Deciding
<1>11. CatalogInv
  BY DEF Init, CatalogInv
<1>12. NamesAwaitOneReview
  BY <1>4, <1>6 DEF NamesAwaitOneReview, Pending
<1>13. DecisionsAreEvidenced
  BY <1>4, <1>6 DEF DecisionsAreEvidenced, Init, Decisions
<1>14. DeletionLeavesNoContext
  BY <1>4, <1>6 DEF DeletionLeavesNoContext, Init
<1> QED BY <1>2, <1>7, <1>8, <1>9, <1>10, <1>11, <1>12, <1>13, <1>14 DEF Inductive

\* Every statement of every transaction preserves the inductive invariant.
LEMMA InductiveStep == Inductive /\ [Next]_vars => Inductive'
BY TypePreserved, LockInvPreserved, ExclusivePreserved, RowInvPreserved, ReliesInvPreserved,
   CatalogInvPreserved, NamesPreserved, DecisionsPreserved, DeletionPreserved DEF Inductive

\* Every reachable state of every instance satisfies the inductive invariant.
THEOREM Invariance == Spec => []Inductive
BY InductiveInit, InductiveStep, PTL DEF Spec

\* Every row and every transaction keeps its type.
THEOREM TypeCorrect == Spec => []TypeOK
<1>1. Inductive => TypeOK
  BY DEF Inductive
<1> QED BY Invariance, <1>1, PTL

\* No name awaits review twice, and no approval takes a name that another request
\* awaits review with, whatever submissions and approvals are in flight.
THEOREM NamesReviewedOnce == Spec => []NamesAwaitOneReview
<1>1. Inductive => NamesAwaitOneReview
  BY DEF Inductive
<1> QED BY Invariance, <1>1, PTL

\* Every request is decided at most once, by the decision its event records.
THEOREM DecisionsEvidenced == Spec => []DecisionsAreEvidenced
<1>1. Inductive => DecisionsAreEvidenced
  BY DEF Inductive
<1> QED BY Invariance, <1>1, PTL

\* A deletion leaves no pending request and no context behind, not even of a request
\* that was decided between two of its statements.
THEOREM DeletionErasesContext == Spec => []DeletionLeavesNoContext
<1>1. Inductive => DeletionLeavesNoContext
  BY DEF Inductive
<1> QED BY Invariance, <1>1, PTL

\* No step takes a decision back.
THEOREM DecisionsAreFinal == Spec => DecisionsStay
<1>1. Inductive /\ [Next]_vars =>
        [\A q \in Decided : /\ requests'[q].status = requests[q].status
                            /\ requests'[q].resolved = requests[q].resolved]_vars
  BY DecidedStays DEF Same
<1> QED BY Invariance, <1>1, PTL DEF Spec, DecisionsStay

\* No group of transactions waits for itself: who waits for a name waits for a later
\* one than those they hold, and nobody but a requester holds more than one row.
THEOREM NoDeadlock == Spec => []NoWaitCycle
<1>1. Inductive => NoWaitCycle
  <2> SUFFICES ASSUME Inductive, NEW S \in SUBSET Members, S # {},
                      \A m \in S : \E o \in S : o # m /\ WaitsFor(m, o)
               PROVE  FALSE
    BY DEF NoWaitCycle
  <2> DEFINE Rowing(m) == tx[m].op \in {"drop", "review"}
             First(m) == CHOOSE n \in Names : NextName(m, n)
  <2>i. \A m \in Members : Locking(tx[m]) /\ Relies(m)
    BY DEF Inductive, LockInv, ReliesInv
  <2>x. \A m, o \in Members : tx[m].held \cap tx[o].held # {} => m = o
    BY DEF Inductive, Exclusive
  \* Who waits has something left to lock.
  <2>1. \A m \in S : Missing(m) # {}
    BY DEF WaitsFor, NextName
  <2>2. \A m \in S : ~Rowing(m) => tx[m].op \in {"submit", "approve"}
    <3>1. \A m \in Members : tx[m].op \in {"idle", "submit", "insert", "review", "decide", "approve",
                                            "add", "delete", "purge", "drop"}
      BY DEF Inductive, TypeOK, Tx
    <3>2. \A m \in Members : tx[m].op \in {"idle", "insert", "decide", "add", "delete", "purge"}
                                => Missing(m) = {}
      BY <2>i DEF Locking, Missing, Deciding, NoTx
    <3> QED BY <2>1, <3>1, <3>2
  \* The holder of a name that others wait for waits for a later one.
  <2>3. ASSUME NEW m \in S, ~Rowing(m)
        PROVE  \E o \in S, n \in Names, k \in Names :
                 o # m /\ ~Rowing(o) /\ NextName(m, n) /\ NextName(o, k) /\ n < k
    <3>1. PICK o \in S : o # m /\ WaitsFor(m, o)
      OBVIOUS
    <3>2. PICK n \in Names : NextName(m, n) /\ n \in tx[o].held
      BY <2>3, <3>1 DEF WaitsFor
    <3>3. ~Rowing(o)
      <4>1. n \notin Requests
        BY IdentityAssumption
      <4> QED BY <2>i, <3>2, <4>1 DEF Locking
    <3>4. PICK k \in Names : NextName(o, k)
      BY <3>3 DEF WaitsFor
    <3>5. n < k
      BY <2>i, <3>2, <3>4 DEF Locking, NextName, Missing
    <3> QED BY <3>1, <3>2, <3>3, <3>4, <3>5
  <2>4. \A m, n, k : NextName(m, n) /\ NextName(m, k) /\ n \in Names /\ k \in Names => n = k
    <3>1. \A n, k \in Names : n <= k /\ k <= n => n = k
      BY NamesAssumption
    <3> QED BY <3>1 DEF NextName
  <2>5. \A m \in S : Rowing(m)
    <3> DEFINE W == {m \in S : ~Rowing(m)}
               wanted == [m \in W |-> First(m)]
    <3> SUFFICES ASSUME W # {} PROVE FALSE
      OBVIOUS
    <3>1. \A m \in W : First(m) \in Names /\ NextName(m, First(m))
      BY <2>3
    <3>2. wanted \in [W -> Nat]
      BY <3>1, NamesAssumption
    <3>3. IsFiniteSet(W)
      BY FiniteAssumption, FS_Subset
    <3>4. PICK m \in W : \A o \in W : wanted[o] <= wanted[m]
      <4> HIDE DEF W, wanted
      <4> QED BY <3>2, <3>3, LastOf
    <3>5. PICK o \in W, n \in Names, k \in Names : NextName(m, n) /\ NextName(o, k) /\ n < k
      BY <2>3
    <3>6. wanted[m] = n /\ wanted[o] = k
      BY <2>4, <3>1, <3>5
    <3>7. wanted[o] <= wanted[m]
      BY <3>4, <3>5
    <3> HIDE DEF wanted
    <3> QED BY <3>5, <3>6, <3>7, NamesAssumption
  \* The rows a deletion waits for are those of its own member, whom nobody else holds for.
  <2>6. \A m \in S : \E o \in S : o # m /\ \E q \in Missing(m) : q \in tx[o].held /\ tx[o].op = "drop"
    <3> SUFFICES ASSUME NEW m \in S
                 PROVE  \E o \in S : o # m /\ \E q \in Missing(m) : q \in tx[o].held /\ tx[o].op = "drop"
      OBVIOUS
    <3>1. PICK o \in S : o # m /\ WaitsFor(m, o)
      OBVIOUS
    <3>2. PICK q \in Missing(m) : q \in tx[o].held
      BY <2>5, <3>1 DEF WaitsFor
    <3>3. tx[o].op = "drop"
      BY <2>5, <2>i, <3>2 DEF Locking
    <3> QED BY <3>1, <3>2, <3>3
  <2>7. PICK m \in S : tx[m].op = "drop"
    BY <2>6
  <2>8. PICK o \in S, q \in Missing(m) : o # m /\ q \in tx[o].held /\ tx[o].op = "drop"
    BY <2>6
  <2>9. requests[q].requester = m /\ requests[q].requester = o
    BY <2>i, <2>7, <2>8 DEF Relies, Locking, Missing
  <2> QED BY <2>8, <2>9
<1> QED BY Invariance, <1>1, PTL

=============================================================================
