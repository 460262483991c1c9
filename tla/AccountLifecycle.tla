--------------------------- MODULE AccountLifecycle ---------------------------
(***************************************************************************)
(* Signing in, recent authentication, the member's own writes and the       *)
(* deletion of an account (services/auth.py, services/auth_workflows.py,    *)
(* services/account_lifecycle.py, repositories/account_lifecycle.py,        *)
(* api/dependencies.py, api/routes/member_follows.py).                      *)
(*                                                                          *)
(* A worker serves one request at a time, as one READ COMMITTED             *)
(* transaction.  wants lists the advisory and row locks the request still   *)
(* has to take, in order; its last action reads the rows again under them   *)
(* and commits.  A request that waits for a single row, holding nothing,    *)
(* and reads it again is one action.  A refusal, a deadlock victim and a    *)
(* crash all roll back.  Sessions and login states do not expire here: an   *)
(* expired one is refused like a revoked or a consumed one.                 *)
(***************************************************************************)
EXTENDS Naturals, FiniteSets, Sequences

CONSTANTS
    Accounts,    \* users.id of members; numbers, as locks are taken in their order
    Identities,  \* issuer and subject pairs at the identity provider
    Sessions, Logins, Workers, None,
    Touching     \* operations whose request finds its session due for a touch

Operations == {"follow", "profile"}
ASSUME AccountsAssumption == Accounts \subseteq Nat
ASSUME NoneAssumption == None \notin Accounts \cup Identities \cup Sessions \cup Logins
ASSUME TouchingAssumption == Touching \subseteq Operations
ASSUME FiniteAssumption == IsFiniteSet(Sessions) /\ IsFiniteSet(Workers)

VARIABLES
    life,      \* users.status; "none" is no row
    named,     \* accounts with a handle
    identity,  \* oidc_identities
    sessions,  \* user_sessions; "free" and "erased" are no row
    logins,    \* oidc_login_transactions; "unused" and "consumed" are no row
    owns,      \* accounts with drafts, saves, ratings and preference events
    follows,   \* user_follows: follower and followed
    tx         \* the request of each worker

tables == <<life, named, identity, sessions, logins, owns, follows>>
vars == <<tables, tx>>

\* root is the login a session descends from, proven a recent authentication.
Session == [status : {"free", "live", "revoked", "erased"}, account : Accounts \cup {None},
            via : Logins \cup {None}, root : Logins \cup {None}, proven : BOOLEAN]
Login == [status : {"unused", "open", "consumed"}, bound : Sessions \cup {None}]

Locks == {"life", "user"} \X Accounts \cup {"identity"} \X Identities \cup {"session"} \X Sessions
Tx == [op : {"idle", "signin", "issue", "rotate", "delete", "purge"} \cup Operations,
       account : Accounts \cup {None}, session : Sessions \cup {None},
       other : Accounts \cup Identities \cup Logins \cup {None}, login : Logins \cup {None},
       wants : Seq(Locks), held : SUBSET Locks]

NoTx == [op |-> "idle", account |-> None, session |-> None, other |-> None, login |-> None,
         wants |-> <<>>, held |-> {}]
NoSession == [status |-> "free", account |-> None, via |-> None, root |-> None, proven |-> FALSE]

Init == /\ life = [a \in Accounts |-> "none"]
        /\ named = {}
        /\ identity = [i \in Identities |-> None]
        /\ sessions = [s \in Sessions |-> NoSession]
        /\ logins = [l \in Logins |-> [status |-> "unused", bound |-> None]]
        /\ owns = {} /\ follows = {}
        /\ tx = [w \in Workers |-> NoTx]

-----------------------------------------------------------------------------
(* Requests and their locks *)

\* resolve_authenticated_session: an unlocked read.
Live(s) == sessions[s].status = "live" /\ life[sessions[s].account] = "active"
OfSession(s) == sessions[s].account
Rows(a) == {s \in Sessions : sessions[s].account = a /\ sessions[s].status # "erased"}

\* A touch writes last_seen_at, and so holds the session's row from then on.
TouchLock(op, s) == IF op \in Touching THEN <<<<"session", s>>>> ELSE <<>>
User(a) == <<"user", a>>
Sorted(a, b) == IF a < b THEN <<a, b>> ELSE <<b, a>>

Begin(w, t) == tx[w].op = "idle" /\ tx' = [tx EXCEPT ![w] = t] /\ UNCHANGED tables

BeginMember(w, op, s, other, locks) ==
    /\ Live(s)
    /\ Begin(w, [NoTx EXCEPT !.op = op, !.account = OfSession(s), !.other = other,
                             !.wants = TouchLock(op, s) \o locks])

Unlocked(x) == \A w \in Workers : x \notin tx[w].held

Acquire(w) ==
    /\ tx[w].wants # <<>>
    /\ \A o \in Workers \ {w} : Head(tx[w].wants) \notin tx[o].held
    /\ tx' = [tx EXCEPT ![w].held = @ \cup {Head(tx[w].wants)}, ![w].wants = Tail(@)]
    /\ UNCHANGED tables

Ready(w, op) == tx[w].op = op /\ tx[w].wants = <<>>
Done(w) == tx' = [tx EXCEPT ![w] = NoTx]

Rollback(w) == tx[w].op # "idle" /\ Done(w) /\ UNCHANGED tables

-----------------------------------------------------------------------------
(* Login transactions and sessions *)

StartLogin(l) ==
    /\ logins[l].status = "unused"
    /\ logins' = [logins EXCEPT ![l].status = "open"]
    /\ UNCHANGED <<life, named, identity, sessions, owns, follows, tx>>

\* The session's row is locked, due for a touch or not, and read again.
StartReauthentication(s, l) ==
    /\ Unlocked(<<"session", s>>)
    /\ Live(s)
    /\ logins[l].status = "unused"
    /\ logins' = [logins EXCEPT ![l] = [status |-> "open", bound |-> s]]
    /\ UNCHANGED <<life, named, identity, sessions, owns, follows, tx>>

\* The row is deleted and committed before the provider, who says it is i, is
\* asked: a replayed callback finds none.  A refusal or a dead worker rolls back
\* what follows, and the login stays consumed.
Consumed == [status |-> "consumed", bound |-> None]

SlipReplayable(w, l, i) ==
    LET b == logins[l].bound IN
    /\ tx[w].op = "idle"
    /\ logins[l].status = "open"
    /\ tx' = [tx EXCEPT ![w] =
            [NoTx EXCEPT !.op = IF b = None THEN "signin" ELSE "rotate", !.login = l, !.other = i,
                         !.session = b,
                         !.wants = IF b = None THEN <<<<"identity", i>>>>
                                   ELSE <<<<"identity", i>>, <<"session", b>>, User(OfSession(b))>>]]
    /\ UNCHANGED tables

ConsumeLogin(w, l, i) ==
    LET b == logins[l].bound IN
    /\ tx[w].op = "idle"
    /\ logins[l].status = "open"
    /\ logins' = [logins EXCEPT ![l] = Consumed]
    /\ tx' = [tx EXCEPT ![w] =
            [NoTx EXCEPT !.op = IF b = None THEN "signin" ELSE "rotate", !.login = l, !.other = i,
                         !.session = b,
                         !.wants = IF b = None THEN <<<<"identity", i>>>>
                                   ELSE <<<<"identity", i>>, <<"session", b>>, User(OfSession(b))>>]]
    /\ UNCHANGED <<life, named, identity, sessions, owns, follows>>

\* Under the identity's lock: the account it signs in to, or a new one.
FindAccount(w) ==
    LET a == identity[tx[w].other] IN
    /\ Ready(w, "signin")
    /\ a # None => life[a] = "active"
    /\ tx' = [tx EXCEPT ![w].op = "issue", ![w].account = a,
                        ![w].wants = IF a = None THEN <<>> ELSE <<User(a)>>]
    /\ UNCHANGED tables

\* An insert, with the login that brought it; recent as the provider says.
NewSession(s, a, l, root, recent) ==
    [sessions EXCEPT ![s] = [status |-> "live", account |-> a, via |-> l, root |-> root,
                             proven |-> recent]]

Revoked(s) == [sessions[s] EXCEPT !.status = "revoked", !.proven = FALSE]

IssueSession(w, s, recent) ==
    LET l == tx[w].login IN
    /\ Ready(w, "issue")
    /\ tx[w].account # None
    /\ sessions[s].status = "free"
    /\ sessions' = NewSession(s, tx[w].account, l, l, recent)
    /\ Done(w)
    /\ UNCHANGED <<life, named, identity, logins, owns, follows>>

\* An identity seen for the first time, or again after its account is gone.
SignUp(w, s, a, recent) ==
    LET l == tx[w].login IN
    /\ Ready(w, "issue")
    /\ tx[w].account = None
    /\ sessions[s].status = "free" /\ life[a] = "none"
    /\ life' = [life EXCEPT ![a] = "active"]
    /\ identity' = [identity EXCEPT ![tx[w].other] = a]
    /\ sessions' = NewSession(s, a, l, l, recent)
    /\ Done(w)
    /\ UNCHANGED <<named, logins, owns, follows>>

\* Rotation: the session the prompt was started from is revoked for the new one.
SlipRotateRevoked(w, s) ==
    LET b == tx[w].session IN
    /\ Ready(w, "rotate")
    /\ sessions[b].status \in {"live", "revoked"}
    /\ identity[tx[w].other] = OfSession(b) /\ life[OfSession(b)] = "active"
    /\ sessions[s].status = "free"
    /\ sessions' = [NewSession(s, OfSession(b), tx[w].login, sessions[b].root, TRUE)
                      EXCEPT ![b] = Revoked(b)]
    /\ Done(w)
    /\ UNCHANGED <<life, named, identity, logins, owns, follows>>

RotateSession(w, s) ==
    LET b == tx[w].session IN
    /\ Ready(w, "rotate")
    /\ Live(b)
    /\ identity[tx[w].other] = OfSession(b)
    /\ sessions[s].status = "free"
    /\ sessions' = [NewSession(s, OfSession(b), tx[w].login, sessions[b].root, TRUE)
                      EXCEPT ![b] = Revoked(b)]
    /\ Done(w)
    /\ UNCHANGED <<life, named, identity, logins, owns, follows>>

Logout(s) ==
    /\ Unlocked(<<"session", s>>)
    /\ sessions[s].status \in {"live", "revoked"}
    /\ sessions' = [sessions EXCEPT ![s] = Revoked(s)]
    /\ UNCHANGED <<life, named, identity, logins, owns, follows, tx>>

-----------------------------------------------------------------------------
(* What a member writes *)

\* lock_active_member_actor: the member's row is read again under its lock.
Active(a) == life[a] = "active" /\ a \in named

\* Drafts, saves, ratings and preference events, made and removed; the session
\* may have been revoked since it was resolved.
Write(s) ==
    LET a == OfSession(s) IN
    /\ sessions[s].status \in {"live", "revoked"}
    /\ Unlocked(User(a))
    /\ Active(a)
    /\ owns' \in {owns \cup {a}, owns \ {a}}
    /\ UNCHANGED <<life, named, identity, sessions, logins, follows, tx>>

SlipUnsorted(w, s, c) ==
    /\ c # OfSession(s) /\ c \in named
    /\ BeginMember(w, "follow", s, c, <<<<"life", OfSession(s)>>, <<"life", c>>,
                                        User(OfSession(s)), User(c)>>)

\* The cook is found by handle; both members' lifecycle locks come in sorted order.
BeginFollow(w, s, c) ==
    LET both == Sorted(OfSession(s), c) IN
    /\ c # OfSession(s) /\ c \in named
    /\ BeginMember(w, "follow", s, c, <<<<"life", both[1]>>, <<"life", both[2]>>,
                                        User(OfSession(s)), User(c)>>)

\* The cook is found again by handle, which a deleted member no longer has.
Follow(w) ==
    LET edge == <<tx[w].account, tx[w].other>> IN
    /\ Ready(w, "follow")
    /\ Active(tx[w].account) /\ Active(tx[w].other)
    /\ follows' \in {follows \cup {edge}, follows \ {edge}}
    /\ Done(w)
    /\ UNCHANGED <<life, named, identity, sessions, logins, owns>>

SlipNoCheck(w) ==
    /\ Ready(w, "profile")
    /\ named' = named \cup {tx[w].account}
    /\ Done(w)
    /\ UNCHANGED <<life, identity, sessions, logins, owns, follows>>

\* The status was read without a lock when the request began; the constraint
\* lifecycle_shape_valid is what keeps the handle off a deleted account.
UpdateProfile(w) ==
    /\ Ready(w, "profile")
    /\ named' = named \cup {tx[w].account}
    /\ \A a \in named' : life[a] = "active"
    /\ Done(w)
    /\ UNCHANGED <<life, identity, sessions, logins, owns, follows>>

-----------------------------------------------------------------------------
(* Deletion *)

\* The session is not touched.
BeginDelete(w, s) ==
    /\ Live(s)
    /\ Begin(w, [NoTx EXCEPT !.op = "delete", !.account = OfSession(s), !.session = s,
                             !.wants = <<<<"life", OfSession(s)>>>>])

\* In whatever order the sessions' ids give.
Orders(S) == {f \in [1..Cardinality(S) -> S] : \A m, n \in DOMAIN f : f[m] = f[n] => m = n}

\* Under the lifecycle lock: the identities, whose locks stop further sign-ins,
\* then every session, then the user.
LockIdentities(w) ==
    LET a == tx[w].account IN
    /\ Ready(w, "delete")
    /\ \A i \in Identities : identity[i] = a => <<"identity", i>> \notin tx[w].held
    /\ \E i \in Identities :
         /\ identity[i] = a
         /\ tx' = [tx EXCEPT ![w].wants = <<<<"identity", i>>>>]
    /\ UNCHANGED tables

LockSessions(w) ==
    LET a == tx[w].account IN
    /\ Ready(w, "delete")
    /\ \A i \in Identities : identity[i] = a => <<"identity", i>> \in tx[w].held
    /\ \E order \in Orders(Rows(a)) :
         tx' = [tx EXCEPT ![w].op = "purge",
                          ![w].wants = [n \in DOMAIN order |-> <<"session", order[n]>>] \o <<User(a)>>]
    /\ UNCHANGED tables

SlipFollowersStay(a) == {e \in follows : e[1] # a}

\* Either side of a follow.
Unfollowed(a) == {e \in follows : a \notin {e[1], e[2]}}

\* The prompts started from the member's sessions go with them.
Unprompted(a) == [l \in Logins |-> IF logins[l].bound \in Rows(a) THEN Consumed ELSE logins[l]]

Erased(s) == [sessions[s] EXCEPT !.status = "erased", !.account = None, !.proven = FALSE]

\* The tombstone and the purge, in one commit.
DeleteAccount(w) ==
    LET a == tx[w].account IN
    /\ Ready(w, "purge")
    /\ Live(tx[w].session) /\ sessions[tx[w].session].proven
    /\ life' = [life EXCEPT ![a] = "deleted"]
    /\ named' = named \ {a}
    /\ identity' = [i \in Identities |-> IF identity[i] = a THEN None ELSE identity[i]]
    /\ sessions' = [s \in Sessions |-> IF s \in Rows(a) THEN Erased(s) ELSE sessions[s]]
    /\ logins' = Unprompted(a)
    /\ owns' = owns \ {a}
    /\ follows' = Unfollowed(a)
    /\ Done(w)

-----------------------------------------------------------------------------
SignInStep == \/ \E l \in Logins : StartLogin(l) \/ \E s \in Sessions : StartReauthentication(s, l)
              \/ \E s \in Sessions : Logout(s)
              \/ \E w \in Workers :
                   \/ \E l \in Logins, i \in Identities : ConsumeLogin(w, l, i)
                   \/ FindAccount(w)
                   \/ \E s \in Sessions, recent \in BOOLEAN :
                        \/ IssueSession(w, s, recent)
                        \/ \E a \in Accounts : SignUp(w, s, a, recent)
                   \/ \E s \in Sessions : RotateSession(w, s)

WriteStep == \/ \E w \in Workers, s \in Sessions :
                  \/ BeginMember(w, "profile", s, None, <<User(OfSession(s))>>)
                  \/ \E c \in Accounts : BeginFollow(w, s, c)
             \/ \E s \in Sessions : Write(s)
             \/ \E w \in Workers : Follow(w) \/ UpdateProfile(w)

DeleteStep == \E w \in Workers : \/ \E s \in Sessions : BeginDelete(w, s)
                                 \/ LockIdentities(w) \/ LockSessions(w) \/ DeleteAccount(w)

Next == SignInStep \/ WriteStep \/ DeleteStep \/ \E w \in Workers : Acquire(w) \/ Rollback(w)

Spec == Init /\ [][Next]_vars

-----------------------------------------------------------------------------
(* Correctness *)

\* Every row has its shape, and an open prompt a session to rotate.
TypeOK == /\ life \in [Accounts -> {"none", "active", "deleted"}]
          /\ named \subseteq Accounts /\ owns \subseteq Accounts
          /\ identity \in [Identities -> Accounts \cup {None}]
          /\ sessions \in [Sessions -> Session]
          /\ logins \in [Logins -> Login]
          /\ \A l \in Logins : logins[l].bound # None => OfSession(logins[l].bound) # None
          /\ follows \subseteq Accounts \X Accounts
          /\ tx \in [Workers -> Tx]

\* The personal data the tables hold for an account.
Kinds == {"handle", "identity", "session", "reauthentication", "private rows", "follow"}
Kept(a) == {k \in Kinds :
    CASE k = "handle"           -> a \in named
      [] k = "identity"         -> \E i \in Identities : identity[i] = a
      [] k = "session"          -> Rows(a) # {}
      [] k = "reauthentication" -> \E l \in Logins : /\ logins[l].status = "open"
                                                     /\ logins[l].bound # None
                                                     /\ OfSession(logins[l].bound) = a
      [] k = "private rows"     -> a \in owns
      [] k = "follow"           -> \E e \in follows : a \in {e[1], e[2]}}

Data == INSTANCE PersonalData WITH kept <- [a \in Accounts |-> Kept(a)]

\* Deletion erases a member's personal data in one step and for good, whatever
\* requests of the member, and of those who follow or are followed, are in flight
\* around it; a returning identity gets an account of its own.
ImplementsPersonalData == Data!Spec

\* A login state yields at most one session, however often its callback arrives.
OneSessionPerCallback ==
    \A l \in Logins : Cardinality({s \in Sessions : sessions[s].via = l}) <= 1

\* However many provider prompts were started from it, a sign-in has at most one
\* live session, and none once it has lost its last one to a logout or a deletion:
\* a prompt answered later does not bring it back.
Line(l) == {s \in Sessions : sessions[s].status = "live" /\ sessions[s].root = l}
SignInsEndForGood ==
    [][\A l \in Logins :
          /\ Cardinality(Line(l)') <= 1
          /\ Line(l) = {} /\ (\E s \in Sessions : sessions[s].root = l) => Line(l)' = {}]_vars

\* Lifecycle locks are taken before the locks of rows, so that no group of
\* requests waits for itself.
WaitsFor(w, o) == tx[w].wants # <<>> /\ Head(tx[w].wants) \in tx[o].held
NoWaitCycle ==
    \A S \in (SUBSET Workers) \ {{}} : \E w \in S : \A o \in S \ {w} : ~WaitsFor(w, o)
=============================================================================
