---------------------------- MODULE CatalogRequests ----------------------------
(***************************************************************************)
(* Ingredient requests, their review by curators, and what deleting the     *)
(* requester's account does to them                                         *)
(* (services/catalog_requests.py, api/routes/ingredient_catalog.py,         *)
(* repositories/account_lifecycle.py).                                      *)
(*                                                                          *)
(* Every transaction runs at READ COMMITTED and keeps the row of its own    *)
(* member locked, so a member has one at a time; tx holds what it has       *)
(* locked, read and written so far, and its last action publishes that.     *)
(* Statements another transaction can come between are actions of their     *)
(* own.  A refusal, a conflict and a lost connection all end in Rollback.   *)
(***************************************************************************)
EXTENDS Naturals, FiniteSets

CONSTANTS Members, Requests, Names, None, Seed

ASSUME NamesAssumption == Names \subseteq Nat
ASSUME IdentityAssumption == /\ None \notin Members \cup Requests \cup Names
                             /\ Seed \notin Requests \cup {None}
                             /\ Requests \cap Names = {}
ASSUME FiniteAssumption == IsFiniteSet(Members)

VARIABLES
    active,     \* users.status = 'active'
    curators,   \* catalog_curators
    requests,   \* ingredient_catalog_requests; "unused" and "erased" are no row
    audit,      \* ingredient_catalog_audit_events
    catalog,    \* ingredient_catalog_names: the ingredient a name stands for
    tx          \* each member's transaction

vars == <<active, curators, requests, audit, catalog, tx>>

Decisions == {"approved", "rejected", "duplicate"}
Ingredients == Requests \cup {Seed}     \* an approval creates one, named after its request

Request == [status : {"unused", "pending", "erased"} \cup Decisions,
            requester : Members \cup {None}, name : Names \cup {None},
            context : BOOLEAN, resolved : Ingredients \cup {None}]
Event == [request : Requests, type : {"submitted"} \cup Decisions, context : BOOLEAN]

\* wants is what the transaction means to lock, names or rows; held what it has.
Tx == [op : {"idle", "submit", "insert", "review", "decide", "approve", "add",
              "delete", "purge", "drop"},
       request : Requests \cup {None}, context : BOOLEAN, audit : SUBSET Event,
       wants : SUBSET (Names \cup Requests), held : SUBSET (Names \cup Requests)]

NoTx == [op |-> "idle", request |-> None, context |-> FALSE, audit |-> {},
         wants |-> {}, held |-> {}]
NoRequest == [status |-> "unused", requester |-> None, name |-> None,
              context |-> FALSE, resolved |-> None]

Init == /\ active = Members
        /\ curators = {}
        /\ requests = [q \in Requests |-> NoRequest]
        /\ audit = {}
        /\ catalog = [n \in Names |-> None]
        /\ tx = [m \in Members |-> NoTx]

-----------------------------------------------------------------------------
(* Locks *)

Pending == {q \in Requests : requests[q].status = "pending"}
Decided == {q \in Requests : requests[q].status \in Decisions}

\* lock_catalog_names takes the advisory locks in sorted order.
Missing(m) == tx[m].wants \ tx[m].held
NextName(m, n) == n \in Missing(m) /\ \A o \in Missing(m) : n <= o

Free(x) == \A m \in Members : x \notin tx[m].held
SlipStaleSession(m, t) == tx[m].op = "idle" /\ tx' = [tx EXCEPT ![m] = t]

Begin(m, t) == m \in active /\ tx[m].op = "idle" /\ tx' = [tx EXCEPT ![m] = t]
End(m) == tx' = [tx EXCEPT ![m] = NoTx]
SlipNoWait(m, x) == tx' = [tx EXCEPT ![m].held = @ \cup {x}]

Hold(m, x) == Free(x) /\ tx' = [tx EXCEPT ![m].held = @ \cup {x}]

\* An error, a refusal or a crash releases everything and leaves nothing behind.
Rollback(m) == /\ tx[m].op # "idle"
               /\ End(m)
               /\ UNCHANGED <<active, curators, requests, audit, catalog>>

SlipUnsorted(m) == /\ tx[m].op \in {"submit", "approve"}
                   /\ \E n \in Names \cap Missing(m) : Hold(m, n)
                   /\ UNCHANGED <<active, curators, requests, audit, catalog>>

LockName(m) == /\ tx[m].op \in {"submit", "approve"}
               /\ \E n \in Names : NextName(m, n) /\ Hold(m, n)
               /\ UNCHANGED <<active, curators, requests, audit, catalog>>

\* Under the locks of all names: neither the catalog nor another pending request
\* has one of them.
CheckNames(m) ==
    LET names == tx[m].wants \ {tx[m].request} IN
    /\ tx[m].op \in {"submit", "approve"}
    /\ Missing(m) = {}
    /\ \A n \in names : catalog[n] = None
    /\ \A p \in Pending \ {tx[m].request} : requests[p].name \notin names
    /\ tx' = [tx EXCEPT ![m].op = IF @ = "submit" THEN "insert" ELSE "add"]
    /\ UNCHANGED <<active, curators, requests, audit, catalog>>

-----------------------------------------------------------------------------
(* A member submits a request *)

BeginSubmit(m, n, context) ==
    /\ Begin(m, [NoTx EXCEPT !.op = "submit", !.wants = {n}, !.context = context])
    /\ UNCHANGED <<active, curators, requests, audit, catalog>>

\* The row and its submission event, in one commit.
Submit(m, q) ==
    /\ tx[m].op = "insert"
    /\ requests[q].status = "unused"
    /\ \E n \in tx[m].wants :
         requests' = [requests EXCEPT ![q] = [status |-> "pending", requester |-> m,
                            name |-> n, context |-> tx[m].context, resolved |-> None]]
    /\ audit' = audit \cup {[request |-> q, type |-> "submitted", context |-> tx[m].context]}
    /\ End(m)
    /\ UNCHANGED <<active, curators, catalog>>

-----------------------------------------------------------------------------
(* A curator decides one *)

\* lock_catalog_curator_actor: the member's row and the grant.
BeginReview(m, q) ==
    /\ m \in curators
    /\ Begin(m, [NoTx EXCEPT !.op = "review", !.request = q, !.wants = {q}])
    /\ UNCHANGED <<active, curators, requests, audit, catalog>>

SlipReadUnlocked(m) ==
    /\ tx[m].op = "review"
    /\ tx[m].request \in Pending
    /\ tx' = [tx EXCEPT ![m].op = "decide", ![m].held = {tx[m].request}]
    /\ UNCHANGED <<active, curators, requests, audit, catalog>>

\* get_catalog_request(for_update): waits for the row, then reads its status.
TakeRequest(m) ==
    /\ tx[m].op = "review"
    /\ tx[m].request \in Pending
    /\ Free(tx[m].request)
    /\ tx' = [tx EXCEPT ![m].op = "decide", ![m].held = {tx[m].request}]
    /\ UNCHANGED <<active, curators, requests, audit, catalog>>

\* The terminal state of the request and its event, in one commit.
Decide(m, status, ingredient) ==
    LET q == tx[m].request IN
    /\ requests' = [requests EXCEPT ![q].status = status, ![q].resolved = ingredient]
    /\ audit' = audit \cup {[request |-> q, type |-> status, context |-> FALSE]}
    /\ End(m)
    /\ UNCHANGED <<active, curators>>

RejectRequest(m) == /\ tx[m].op = "decide"
                    /\ Decide(m, "rejected", None)
                    /\ UNCHANGED catalog

\* The target is an ingredient, or an approved request and so its ingredient.
MarkDuplicate(m, ingredient) == /\ tx[m].op = "decide"
                                /\ \E n \in Names : catalog[n] = ingredient
                                /\ Decide(m, "duplicate", ingredient)
                                /\ UNCHANGED catalog

\* The curator chose a canonical name and aliases, which need not have the
\* requested name among them.
LockApproval(m, names) ==
    /\ tx[m].op = "decide"
    /\ names # {}
    /\ tx' = [tx EXCEPT ![m].op = "approve", ![m].wants = @ \cup names]
    /\ UNCHANGED <<active, curators, requests, audit, catalog>>

ApproveRequest(m) ==
    /\ tx[m].op = "add"
    /\ catalog' = [n \in Names |-> IF n \in tx[m].wants THEN tx[m].request ELSE catalog[n]]
    /\ Decide(m, "approved", tx[m].request)

-----------------------------------------------------------------------------
(* Deleting the requester's account *)

BeginDelete(m) == /\ Begin(m, [NoTx EXCEPT !.op = "delete"])
                  /\ UNCHANGED <<active, curators, requests, audit, catalog>>

PendingOf(m) == {q \in Pending : requests[q].requester = m}

\* The first statement deletes the events of the requests it finds pending; it
\* locks none of the requests, which reviewers may be deciding.
PurgeEvents(m) ==
    /\ tx[m].op = "delete"
    /\ tx' = [tx EXCEPT ![m].op = "purge",
                        ![m].audit = {e \in audit : e.request \in PendingOf(m)}]
    /\ UNCHANGED <<active, curators, requests, audit, catalog>>

\* The second, with a snapshot of its own, deletes the requests it finds pending.
PurgeRequests(m) ==
    /\ tx[m].op = "purge"
    /\ tx' = [tx EXCEPT ![m].op = "drop", ![m].wants = PendingOf(m)]
    /\ UNCHANGED <<active, curators, requests, audit, catalog>>

SlipDropDecided(m, q) ==
    /\ tx[m].op = "drop"
    /\ q \in Missing(m)
    /\ Hold(m, q)
    /\ UNCHANGED <<active, curators, requests, audit, catalog>>

\* It waits for each row.  Where a reviewer decided it meanwhile, the decision's
\* event refers to the row, the deletion is refused and all of it rolled back.
DropRequest(m, q) ==
    /\ tx[m].op = "drop"
    /\ q \in Missing(m) \cap Pending
    /\ Hold(m, q)
    /\ UNCHANGED <<active, curators, requests, audit, catalog>>

\* The rest scrubs the context of the member's decided requests and of their
\* submissions, removes the grant, and commits.
EraseAccount(m) ==
    LET decided == {q \in Decided : requests[q].requester = m} IN
    /\ tx[m].op = "drop"
    /\ Missing(m) = {}
    /\ active' = active \ {m}
    /\ curators' = curators \ {m}
    /\ requests' = [q \in Requests |->
           IF q \in tx[m].held THEN [NoRequest EXCEPT !.status = "erased"]
           ELSE IF q \in decided THEN [requests[q] EXCEPT !.context = FALSE]
           ELSE requests[q]]
    /\ audit' = {IF e.request \in decided THEN [e EXCEPT !.context = FALSE] ELSE e
                    : e \in audit \ tx[m].audit}
    /\ End(m)
    /\ UNCHANGED catalog

-----------------------------------------------------------------------------
(* Operators *)

\* grant_catalog_curator locks the member's row; revoking waits for a review that
\* has the grant locked.
GrantCurator(m) == /\ m \in active \ curators
                   /\ tx[m].op = "idle"
                   /\ curators' = curators \cup {m}
                   /\ UNCHANGED <<active, requests, audit, catalog, tx>>

Reviewing(m) == tx[m].op \in {"review", "decide", "approve", "add"}

RevokeCurator(m) == /\ m \in curators
                    /\ ~Reviewing(m)
                    /\ curators' = curators \ {m}
                    /\ UNCHANGED <<active, requests, audit, catalog, tx>>

\* The seed loader takes the same lock but does not look at pending requests.
SeedName(n) == /\ catalog[n] = None
               /\ Free(n)
               /\ catalog' = [catalog EXCEPT ![n] = Seed]
               /\ UNCHANGED <<active, curators, requests, audit, tx>>

MemberStep(m) ==
    \/ Rollback(m)
    \/ LockName(m) \/ CheckNames(m)
    \/ \E n \in Names, context \in BOOLEAN : BeginSubmit(m, n, context)
    \/ \E q \in Requests : Submit(m, q) \/ BeginReview(m, q) \/ DropRequest(m, q)
    \/ TakeRequest(m)
    \/ RejectRequest(m)
    \/ \E i \in Ingredients : MarkDuplicate(m, i)
    \/ \E names \in SUBSET Names : LockApproval(m, names)
    \/ ApproveRequest(m)
    \/ BeginDelete(m) \/ PurgeEvents(m) \/ PurgeRequests(m) \/ EraseAccount(m)
    \/ GrantCurator(m) \/ RevokeCurator(m)

Next == (\E m \in Members : MemberStep(m)) \/ (\E n \in Names : SeedName(n))

Spec == Init /\ [][Next]_vars

-----------------------------------------------------------------------------
(* Properties *)

\* Every row and every transaction has its shape.
TypeOK == /\ active \subseteq Members
          /\ curators \subseteq Members
          /\ requests \in [Requests -> Request]
          /\ audit \subseteq Event
          /\ catalog \in [Names -> Ingredients \cup {None}]
          /\ tx \in [Members -> Tx]

\* One normalized name never awaits review twice, and no approval takes a name
\* another request awaits review with: a name of both belongs to the seed.
NamesAwaitOneReview ==
    \A p \in Pending :
        /\ \A q \in Pending : requests[p].name = requests[q].name => p = q
        /\ catalog[requests[p].name] \in {None, Seed}

\* A request is decided at most once, by the decision its event records; each
\* approval made an ingredient of its own, and a duplicate points to one that is
\* in the catalog.
DecisionsAreEvidenced ==
    \A q \in Requests :
        LET decisions == {e \in audit : e.request = q /\ e.type # "submitted"} IN
        /\ {e.type : e \in decisions} = {requests[q].status} \cap Decisions
        /\ requests[q].status = "approved" => \E n \in Names : catalog[n] = q
        /\ requests[q].status = "duplicate" =>
              /\ requests[q].resolved \in Ingredients \ {q}
              /\ \E n \in Names : catalog[n] = requests[q].resolved

\* A deleted member is no curator, has no pending requests, and nothing keeps the
\* context of a decided one, even of those decided while the deletion was running.
DeletionLeavesNoContext ==
    /\ curators \subseteq active
    /\ \A q \in Requests :
           requests[q].requester \in Members \ active =>
               /\ q \in Decided
               /\ ~requests[q].context
               /\ \A e \in audit : e.request = q => ~e.context

\* No two requests and no deletion wait for each other's names and rows.
WaitsFor(m, o) ==
    LET wanted == IF tx[m].op = "drop" \/ tx[m].op = "review" THEN Missing(m)
                  ELSE {n \in Names : NextName(m, n)}
    IN  wanted \cap tx[o].held # {}
NoWaitCycle ==
    \A S \in (SUBSET Members) \ {{}} : \E m \in S : \A o \in S \ {m} : ~WaitsFor(m, o)

\* A decision outlives the account that asked for it and is never taken back.
DecisionsStay ==
    [][\A q \in Decided : /\ requests'[q].status = requests[q].status
                          /\ requests'[q].resolved = requests[q].resolved]_vars

\* The audit log keeps the submission of every decided request.
SubmissionsStay ==
    \A q \in Decided : \E e \in audit : e.request = q /\ e.type = "submitted"
=============================================================================
