------------------------ MODULE AccountLifecycle_proofs ------------------------
(***************************************************************************)
(* Proofs about AccountLifecycle, for every number of accounts, identities, *)
(* sessions, logins and workers.  Inductive is preserved part by part; each *)
(* part's lemma may use the whole of Inductive in the state before.         *)
(***************************************************************************)
EXTENDS AccountLifecycle, FiniteSetTheorems, SequenceTheorems, TLAPS

\* Elements that are all the same are at most one.
LEMMA AtMostOne == ASSUME NEW S, \A s, t \in S : s = t PROVE Cardinality(S) <= 1
<1>1. CASE S = {}
  <2>1. Cardinality(S) = 0
    BY <1>1, FS_EmptySet
  <2> QED BY <2>1
<1>2. CASE S # {}
  <2>1. PICK s : S = {s}
    BY <1>2
  <2>2. Cardinality(S) = 1
    BY <2>1, FS_Singleton
  <2> QED BY <2>2
<1> QED BY <1>1, <1>2

\* Among finitely many there is one with the largest number.
LEMMA LastOf ==
    ASSUME NEW W, IsFiniteSet(W), W # {}, NEW f \in [W -> Nat]
    PROVE  \E w \in W : \A o \in W : f[o] <= f[w]
<1> DEFINE Above(w) == {o \in W : f[o] >= f[w]}
           T == {Above(w) : w \in W}
           R == StrictSubsetOrdering(W)
<1>1. T \subseteq SUBSET W /\ T # {}
  <2>1. \A w \in W : Above(w) \in SUBSET W
    OBVIOUS
  <2>2. PICK w \in W : TRUE
    OBVIOUS
  <2> HIDE DEF Above
  <2> QED BY <2>1, <2>2
<1>2. IsWellFoundedOn(R, SUBSET W)
  BY FS_StrictSubsetOrderingWellFounded, FS_FiniteSubsetsOfFinite
<1>3. PICK x \in T : \A y \in T : <<y, x>> \notin R
  <2> HIDE DEF R, T
  <2> QED BY <1>1, <1>2, WFMin
<1>4. PICK w \in W : x = Above(w)
  BY <1>3
<1>5. ASSUME NEW o \in W PROVE f[o] <= f[w]
  <2>1. SUFFICES ASSUME ~(f[o] <= f[w]) PROVE FALSE
    OBVIOUS
  <2>2. f[o] \in Nat /\ f[w] \in Nat /\ f[o] > f[w]
    BY <2>1
  <2>3. Above(o) \subseteq Above(w) /\ w \in Above(w) /\ w \notin Above(o)
    BY <2>2
  <2>4. <<Above(o), Above(w)>> \in R
    BY <2>3 DEF StrictSubsetOrdering
  <2> QED BY <1>3, <1>4, <2>4
<1> QED BY <1>5

SignIns == {"signin", "issue", "rotate"}
Deletions == {"delete", "purge"}

\* A row of user_sessions has its account while it is there, and a row that was
\* never inserted descends from no login.
SessionInv ==
    \A s \in Sessions : /\ sessions[s].status \in {"free", "erased"} <=> sessions[s].account = None
                        /\ sessions[s].status = "free" => sessions[s].via = None

\* Two transactions never hold the same lock.
Exclusive == \A w, o \in Workers : w # o => tx[w].held \cap tx[o].held = {}

\* What a request knows of the tables while it is in flight: a sign-in about to
\* commit has its identity locked and mapped as it found it, and the identities of
\* an account being purged are all locked.
SignInKnows(t) ==
    LET i == <<"identity", t.other>> IN
    /\ t.op \in SignIns => t.other \in Identities /\ t.login \in Logins
    /\ t.op = "signin" => t.wants = <<i>> \/ (t.wants = <<>> /\ i \in t.held)
    /\ t.op = "issue" => /\ i \in t.held
                         /\ identity[t.other] = t.account
                         /\ t.account # None => life[t.account] = "active"
    /\ t.op = "rotate" => t.session \in Sessions

DeletionKnows(t) ==
    t.op \in Deletions =>
        /\ t.account \in Accounts /\ life[t.account] # "none"
        /\ t.session \in Sessions /\ sessions[t.session].status # "free"
        /\ sessions[t.session].account \in {t.account, None}
        /\ t.op = "purge" =>
             \A i \in Identities : identity[i] = t.account => <<"identity", i>> \in t.held

RequestInv == \A w \in Workers : /\ SignInKnows(tx[w]) /\ DeletionKnows(tx[w])
                                 /\ tx[w].op \in Operations => tx[w].account \in Accounts

\* A login that a request has consumed has given no session yet, and no two requests
\* hold the same one; the sessions' logins are consumed.
LoginInv ==
    /\ \A w \in Workers : tx[w].op \in SignIns =>
         /\ logins[tx[w].login].status = "consumed"
         /\ \A s \in Sessions : tx[w].login \notin {sessions[s].via, sessions[s].root}
         /\ \A o \in Workers \ {w} : tx[o].op \in SignIns => tx[o].login # tx[w].login
    /\ \A s \in Sessions, l \in Logins :
         l \in {sessions[s].via, sessions[s].root} => logins[l].status = "consumed"

\* One session for each login, and one live session for each sign-in.
SessionsDiffer ==
    \A s, t \in Sessions : s # t =>
        /\ sessions[s].via \in Logins => sessions[s].via # sessions[t].via
        /\ sessions[s].root \in Logins /\ sessions[s].status = "live" /\ sessions[t].status = "live"
             => sessions[s].root # sessions[t].root

\* No personal data is kept of an account that is not active.
NothingKept == \A a \in Accounts : life[a] # "active" => Kept(a) = {}

Inductive == /\ TypeOK /\ SessionInv /\ Exclusive /\ RequestInv
             /\ LoginInv /\ SessionsDiffer /\ NothingKept

-----------------------------------------------------------------------------
(* Types *)

\* What is left to lock after the first lock, and what a longer list starts with.
LEMMA Wants ==
    /\ \A x : Head(<<x>>) = x /\ Tail(<<x>>) = <<>>
    /\ \A x, y : Head(<<x, y>>) = x /\ Tail(<<x, y>>) = <<y>>
    /\ \A x, y, z : Head(<<x, y, z>>) = x /\ Tail(<<x, y, z>>) = <<y, z>>
    /\ \A x, y, z, u : Head(<<x, y, z, u>>) = x /\ Tail(<<x, y, z, u>>) = <<y, z, u>>
OBVIOUS

\* The lists of locks that requests begin with.
LEMMA LockLists ==
    ASSUME NEW x \in Locks, NEW y \in Locks, NEW z \in Locks, NEW u \in Locks
    PROVE  /\ <<x>> \in Seq(Locks) /\ <<x, y, z>> \in Seq(Locks)
           /\ <<x, y, z, u>> \in Seq(Locks)
OBVIOUS

\* A request of a member begins with locks on rows.
LEMMA BeginMemberType ==
    ASSUME TypeOK, NEW w \in Workers, NEW op \in Operations, NEW s \in Sessions,
           NEW other \in Accounts \cup {None}, NEW locks \in Seq(Locks),
           BeginMember(w, op, s, other, locks)
    PROVE  tx' \in [Workers -> Tx] /\ UNCHANGED tables /\ OfSession(s) \in Accounts \cup {None}
<1>1. OfSession(s) \in Accounts \cup {None}
  BY DEF TypeOK, Session, OfSession
<1>2. TouchLock(op, s) \o locks \in Seq(Locks)
  <2>1. <<"session", s>> \in Locks
    BY DEF Locks
  <2>2. TouchLock(op, s) \in Seq(Locks)
    BY <2>1 DEF TouchLock
  <2> QED BY <2>2
<1> DEFINE t == [NoTx EXCEPT !.op = op, !.account = OfSession(s), !.other = other,
                             !.wants = TouchLock(op, s) \o locks]
<1>3. t \in Tx
  BY <1>1, <1>2 DEF Tx, NoTx
<1>4. tx' = [tx EXCEPT ![w] = t] /\ UNCHANGED tables
  BY DEF BeginMember, Begin
<1> HIDE DEF t
<1> QED BY <1>1, <1>3, <1>4 DEF TypeOK

\* Every handler writes rows of the right types into every table.
LEMMA TypePreserved == Inductive /\ [Next]_vars => TypeOK'
<1> SUFFICES ASSUME Inductive, [Next]_vars PROVE TypeOK'
  OBVIOUS
<1> USE NoneAssumption, TouchingAssumption
<1>t. TypeOK /\ SessionInv /\ RequestInv
  BY DEF Inductive
<1>n. NoTx \in Tx
  BY DEF NoTx, Tx
\* Two ways a step leaves most of the state alone.
<1>a. ASSUME NEW w \in Workers, NEW t \in Tx, tx' = [tx EXCEPT ![w] = t], UNCHANGED tables
      PROVE  TypeOK'
  BY <1>a, <1>t DEF TypeOK, tables, OfSession
<1>b. ASSUME UNCHANGED tables, UNCHANGED tx
      PROVE  TypeOK'
  BY <1>b, <1>t DEF TypeOK, tables, OfSession
<1>c. ASSUME NEW w \in Workers, Done(w)
      PROVE  tx' \in [Workers -> Tx]
  BY <1>c, <1>t, <1>n DEF TypeOK, Done
<1>s. \A s \in Sessions : /\ sessions[s] \in Session
                          /\ Live(s) => OfSession(s) \in Accounts
  BY <1>t DEF TypeOK, SessionInv, Session, Live, OfSession
<1>l. \A l \in Logins : logins[l] \in Login
  BY <1>t DEF TypeOK
<1>k. /\ \A a \in Accounts : <<"life", a>> \in Locks /\ User(a) \in Locks
      /\ \A i \in Identities : <<"identity", i>> \in Locks
      /\ \A s \in Sessions : <<"session", s>> \in Locks
  BY DEF Locks, User
<1>1. ASSUME NEW l \in Logins, StartLogin(l)
      PROVE  TypeOK'
  <2>1. logins' \in [Logins -> Login]
    BY <1>1, <1>t, <1>l DEF StartLogin, TypeOK, Login
  <2>2. \A k \in Logins : logins'[k].bound = logins[k].bound
    BY <1>1, <1>t, <1>l DEF StartLogin, TypeOK, Login
  <2> QED BY <1>1, <1>t, <2>1, <2>2 DEF StartLogin, TypeOK, OfSession
<1>2. ASSUME NEW l \in Logins, NEW s \in Sessions, StartReauthentication(s, l)
      PROVE  TypeOK'
  <2>1. logins' \in [Logins -> Login]
    BY <1>2, <1>t DEF StartReauthentication, TypeOK, Login
  <2>2. \A k \in Logins : logins'[k].bound \in {logins[k].bound, s}
    BY <1>2, <1>t DEF StartReauthentication, TypeOK
  <2>3. OfSession(s) # None
    BY <1>2, <1>s DEF StartReauthentication
  <2> QED BY <1>2, <1>t, <2>1, <2>2, <2>3 DEF StartReauthentication, TypeOK, OfSession
<1>3. ASSUME NEW s \in Sessions, Logout(s)
      PROVE  TypeOK'
  <2>1. sessions' \in [Sessions -> Session]
    <3>1. Revoked(s) \in Session
      BY <1>s DEF Revoked, Session
    <3> QED BY <1>3, <1>t, <3>1 DEF Logout, TypeOK
  <2>2. \A r \in Sessions : sessions'[r].account = sessions[r].account
    BY <1>3, <1>t, <1>s DEF Logout, Revoked, TypeOK, Session
  <2> QED BY <1>3, <1>t, <2>1, <2>2 DEF Logout, TypeOK, OfSession, Login
<1>4. ASSUME NEW w \in Workers, NEW l \in Logins, NEW i \in Identities, ConsumeLogin(w, l, i)
      PROVE  TypeOK'
  <2> DEFINE b == logins[l].bound
  <2>1. b \in Sessions \cup {None} /\ (b # None => OfSession(b) \in Accounts)
    BY <1>t, <1>l, <1>s DEF TypeOK, Login, Session, OfSession
  <2>2. logins' \in [Logins -> Login]
    BY <1>4, <1>t DEF ConsumeLogin, Consumed, TypeOK, Login
  <2>3. \A k \in Logins : logins'[k].bound \in {logins[k].bound, None}
    BY <1>4, <1>t DEF ConsumeLogin, Consumed, TypeOK
  <2>4. tx' \in [Workers -> Tx]
    <3> DEFINE wants == IF b = None THEN <<<<"identity", i>>>>
                        ELSE <<<<"identity", i>>, <<"session", b>>, User(OfSession(b))>>
               t == [NoTx EXCEPT !.op = IF b = None THEN "signin" ELSE "rotate", !.login = l,
                                 !.other = i, !.session = b, !.wants = wants]
    <3>1. wants \in Seq(Locks)
      <4>1. CASE b = None
        BY <4>1, <1>k
      <4>2. CASE b # None
        <5>1. b \in Sessions /\ OfSession(b) \in Accounts
          BY <4>2, <2>1
        <5>2. <<<<"identity", i>>, <<"session", b>>, User(OfSession(b))>> \in Seq(Locks)
          BY <5>1, <1>k, LockLists
        <5> QED BY <4>2, <5>2
      <4> QED BY <4>1, <4>2
    <3>2. tx' = [tx EXCEPT ![w] = t]
      BY <1>4 DEF ConsumeLogin
    <3>3. t \in Tx
      <4> HIDE DEF wants
      <4> QED BY <2>1, <3>1 DEF NoTx, Tx
    <3> HIDE DEF t
    <3> QED BY <1>t, <3>2, <3>3 DEF TypeOK
  <2> QED BY <1>4, <1>t, <2>2, <2>3, <2>4 DEF ConsumeLogin, TypeOK, OfSession

<1>5. ASSUME NEW w \in Workers, FindAccount(w)
      PROVE  TypeOK'
  <2> DEFINE a == identity[tx[w].other]
             wants == IF a = None THEN <<>> ELSE <<User(a)>>
             t == [tx[w] EXCEPT !.op = "issue", !.account = a, !.wants = wants]
  <2>1. tx[w] \in Tx /\ tx[w].other \in Identities
    BY <1>5, <1>t DEF TypeOK, FindAccount, Ready, RequestInv, SignInKnows, SignIns
  <2>2. a \in Accounts \cup {None}
    BY <2>1, <1>t DEF TypeOK
  <2>3. wants \in Seq(Locks)
    <3>1. a # None => <<User(a)>> \in Seq(Locks)
      BY <2>2, <1>k, LockLists
    <3> QED BY <3>1
  <2>4. t \in Tx
    <3> HIDE DEF wants, a
    <3> QED BY <2>1, <2>2, <2>3 DEF Tx
  <2>5. tx' = [tx EXCEPT ![w] = t] /\ UNCHANGED tables
    BY <1>5, <1>t DEF FindAccount, TypeOK
  <2> HIDE DEF t
  <2> QED BY <1>a, <2>4, <2>5
<1>6. ASSUME NEW s \in Sessions, NEW a \in Accounts, NEW l \in Logins,
             NEW root \in Logins \cup {None}, NEW proven \in BOOLEAN,
             sessions[s].status = "free"
      PROVE  /\ NewSession(s, a, l, root, proven) \in [Sessions -> Session]
             /\ \A r \in Sessions : r # s =>
                  NewSession(s, a, l, root, proven)[r] = sessions[r]
             /\ NewSession(s, a, l, root, proven)[s].account = a
  BY <1>t DEF NewSession, TypeOK, Session
<1>7. ASSUME NEW w \in Workers, NEW s \in Sessions, NEW recent \in BOOLEAN,
             IssueSession(w, s, recent)
      PROVE  TypeOK'
  <2>1. tx[w].login \in Logins /\ tx[w].account \in Accounts /\ sessions[s].status = "free"
    BY <1>7, <1>t DEF TypeOK, Tx, IssueSession, Ready, RequestInv, SignInKnows, SignIns
  <2>2. /\ sessions' \in [Sessions -> Session]
        /\ \A r \in Sessions : r # s => sessions'[r] = sessions[r]
        /\ sessions'[s].account # None
    BY <1>7, <1>6, <2>1 DEF IssueSession
  <2>3. tx' \in [Workers -> Tx]
    BY <1>7, <1>c DEF IssueSession
  <2> QED BY <1>7, <1>t, <1>l, <2>2, <2>3 DEF IssueSession, TypeOK, OfSession, Login
<1>8. ASSUME NEW w \in Workers, NEW s \in Sessions, NEW a \in Accounts,
             NEW recent \in BOOLEAN, SignUp(w, s, a, recent)
      PROVE  TypeOK'
  <2>1. tx[w].login \in Logins /\ tx[w].other \in Identities /\ sessions[s].status = "free"
    BY <1>8, <1>t DEF TypeOK, SignUp, Ready, RequestInv, SignInKnows, SignIns
  <2>2. /\ sessions' \in [Sessions -> Session]
        /\ \A r \in Sessions : r # s => sessions'[r] = sessions[r]
        /\ sessions'[s].account # None
    BY <1>8, <1>6, <2>1 DEF SignUp
  <2>3. tx' \in [Workers -> Tx]
    BY <1>8, <1>c DEF SignUp
  <2>4. life' \in [Accounts -> {"none", "active", "deleted"}]
        /\ identity' \in [Identities -> Accounts \cup {None}]
    BY <1>8, <1>t, <2>1 DEF SignUp, TypeOK
  <2> QED BY <1>8, <1>t, <1>l, <2>2, <2>3, <2>4 DEF SignUp, TypeOK, OfSession, Login
<1>9. ASSUME NEW w \in Workers, NEW s \in Sessions, RotateSession(w, s)
      PROVE  TypeOK'
  <2> DEFINE b == tx[w].session
  <2>1. /\ tx[w].login \in Logins /\ b \in Sessions /\ sessions[s].status = "free"
        /\ sessions[b].status = "live"
    BY <1>9, <1>t DEF TypeOK, RotateSession, Ready, RequestInv, SignInKnows, SignIns, Live
  <2>2. OfSession(b) \in Accounts /\ sessions[b].root \in Logins \cup {None}
    BY <1>9, <1>s, <2>1 DEF RotateSession, Session
  <2> DEFINE new == NewSession(s, OfSession(b), tx[w].login, sessions[b].root, TRUE)
  <2>3. /\ new \in [Sessions -> Session]
        /\ \A r \in Sessions : r # s => new[r] = sessions[r]
        /\ new[s].account # None
    <3> DEFINE a == OfSession(b)
               root == sessions[b].root
               l == tx[w].login
    <3>1. a \in Accounts /\ root \in Logins \cup {None} /\ l \in Logins
      BY <2>1, <2>2
    <3> HIDE DEF a, root, l
    <3>2. /\ NewSession(s, a, l, root, TRUE) \in [Sessions -> Session]
          /\ \A r \in Sessions : r # s => NewSession(s, a, l, root, TRUE)[r] = sessions[r]
          /\ NewSession(s, a, l, root, TRUE)[s].account = a
      BY <1>t, <2>1, <3>1 DEF NewSession, TypeOK, Session
    <3> QED BY <3>1, <3>2 DEF a, root, l
  <2>4. Revoked(b) \in Session /\ Revoked(b).account = sessions[b].account
    <3>1. b \in Sessions
      BY <2>1
    <3> HIDE DEF b
    <3> QED BY <1>s, <3>1 DEF Revoked, Session
  <2>5. sessions' = [new EXCEPT ![b] = Revoked(b)]
    BY <1>9 DEF RotateSession
  <2>6. /\ sessions' \in [Sessions -> Session]
        /\ \A r \in Sessions : r # s => sessions'[r].account = sessions[r].account
        /\ sessions'[s].account # None
    <3> HIDE DEF new
    <3> QED BY <2>1, <2>3, <2>4, <2>5
  <2>7. tx' \in [Workers -> Tx]
    BY <1>9, <1>c DEF RotateSession
  <2> QED BY <1>9, <1>t, <1>l, <2>6, <2>7 DEF RotateSession, TypeOK, OfSession, Login
<1>10. ASSUME NEW w \in Workers, NEW s \in Sessions,
              BeginMember(w, "profile", s, None, <<User(OfSession(s))>>)
       PROVE  TypeOK'
  <2>1. OfSession(s) \in Accounts
    BY <1>10, <1>s DEF BeginMember
  <2>2. <<User(OfSession(s))>> \in Seq(Locks)
    BY <2>1, <1>k, LockLists
  <2>3. tx' \in [Workers -> Tx] /\ UNCHANGED tables
    BY <1>10, <1>t, <2>2, BeginMemberType DEF Operations
  <2> QED BY <1>t, <2>3 DEF TypeOK, tables, OfSession
<1>11. ASSUME NEW w \in Workers, NEW s \in Sessions, NEW c \in Accounts, BeginFollow(w, s, c)
       PROVE  TypeOK'
  <2> DEFINE both == Sorted(OfSession(s), c)
             locks == <<<<"life", both[1]>>, <<"life", both[2]>>, User(OfSession(s)), User(c)>>
  <2>1. OfSession(s) \in Accounts
    BY <1>11, <1>s DEF BeginFollow, BeginMember
  <2>2. both[1] \in Accounts /\ both[2] \in Accounts
    BY <2>1 DEF Sorted
  <2>3. locks \in Seq(Locks)
    <3> HIDE DEF both
    <3> QED BY <2>1, <2>2, <1>k, LockLists
  <2>4. BeginMember(w, "follow", s, c, locks)
    BY <1>11 DEF BeginFollow
  <2>5. tx' \in [Workers -> Tx] /\ UNCHANGED tables
    <3> HIDE DEF locks
    <3> QED BY <1>t, <2>3, <2>4, BeginMemberType DEF Operations
  <2> QED BY <1>t, <2>5 DEF TypeOK, tables, OfSession
<1>12. ASSUME NEW s \in Sessions, Write(s)
       PROVE  TypeOK'
  <2>1. OfSession(s) \in Accounts
    BY <1>12, <1>t DEF Write, Active, TypeOK
  <2> QED BY <1>12, <1>t, <2>1 DEF Write, TypeOK, OfSession, Login
<1>13. ASSUME NEW w \in Workers, Follow(w)
       PROVE  TypeOK'
  <2>1. tx[w].account \in Accounts /\ tx[w].other \in Accounts
    BY <1>13, <1>t DEF Follow, Active, TypeOK
  <2>2. tx' \in [Workers -> Tx]
    BY <1>13, <1>c DEF Follow
  <2> QED BY <1>13, <1>t, <2>1, <2>2 DEF Follow, TypeOK, OfSession, Login
<1>14. ASSUME NEW w \in Workers, UpdateProfile(w)
       PROVE  TypeOK'
  <2>1. tx[w].account \in Accounts
    BY <1>14, <1>t DEF UpdateProfile, Ready, RequestInv, Operations
  <2>2. tx' \in [Workers -> Tx]
    BY <1>14, <1>c DEF UpdateProfile
  <2> QED BY <1>14, <1>t, <2>1, <2>2 DEF UpdateProfile, TypeOK, OfSession, Login
<1>15. ASSUME NEW w \in Workers, NEW s \in Sessions, BeginDelete(w, s)
       PROVE  TypeOK'
  <2> DEFINE t == [NoTx EXCEPT !.op = "delete", !.account = OfSession(s), !.session = s,
                               !.wants = <<<<"life", OfSession(s)>>>>]
  <2>1. OfSession(s) \in Accounts
    BY <1>15, <1>s DEF BeginDelete
  <2>2. <<<<"life", OfSession(s)>>>> \in Seq(Locks)
    BY <2>1, <1>k
  <2>3. t \in Tx
    BY <2>1, <2>2 DEF Tx, NoTx
  <2>4. tx' = [tx EXCEPT ![w] = t] /\ UNCHANGED tables
    BY <1>15 DEF BeginDelete, Begin
  <2> HIDE DEF t
  <2> QED BY <1>a, <2>3, <2>4
<1>16. ASSUME NEW w \in Workers, LockIdentities(w)
       PROVE  TypeOK'
  <2>1. PICK i \in Identities : tx' = [tx EXCEPT ![w].wants = <<<<"identity", i>>>>]
    BY <1>16 DEF LockIdentities
  <2> DEFINE t == [tx[w] EXCEPT !.wants = <<<<"identity", i>>>>]
  <2>2. t \in Tx
    <3>1. <<<<"identity", i>>>> \in Seq(Locks)
      BY <1>k
    <3> QED BY <1>t, <3>1 DEF TypeOK, Tx
  <2>3. tx' = [tx EXCEPT ![w] = t] /\ UNCHANGED tables
    BY <1>16, <1>t, <2>1 DEF LockIdentities, TypeOK
  <2> HIDE DEF t
  <2> QED BY <1>a, <2>2, <2>3
<1>17. ASSUME NEW w \in Workers, LockSessions(w)
       PROVE  TypeOK'
  <2> DEFINE a == tx[w].account
  <2>1. PICK order \in Orders(Rows(a)) :
          tx' = [tx EXCEPT ![w].op = "purge",
                           ![w].wants = [n \in DOMAIN order |-> <<"session", order[n]>>] \o <<User(a)>>]
    BY <1>17 DEF LockSessions
  <2>2. a \in Accounts /\ tx[w] \in Tx
    BY <1>17, <1>t DEF LockSessions, Ready, RequestInv, DeletionKnows, Deletions, TypeOK
  <2> DEFINE rows == [n \in DOMAIN order |-> <<"session", order[n]>>]
             wants == rows \o <<User(a)>>
             t == [tx[w] EXCEPT !.op = "purge", !.wants = wants]
  <2>3. rows \in Seq(Locks)
    <3>1. PICK n \in Nat : order \in [1..n -> Rows(a)]
      <4>1. IsFiniteSet(Rows(a))
        BY FiniteAssumption, FS_Subset DEF Rows
      <4>2. Cardinality(Rows(a)) \in Nat
        BY <4>1, FS_CardinalityType
      <4> QED BY <4>2 DEF Orders
    <3>2. rows \in [1..n -> Locks]
      BY <3>1, <1>k DEF Rows
    <3> HIDE DEF rows
    <3> QED BY <3>1, <3>2
  <2>4. <<User(a)>> \in Seq(Locks)
    BY <2>2, <1>k, LockLists
  <2>5. wants \in Seq(Locks)
    <3> HIDE DEF rows
    <3> QED BY <2>3, <2>4
  <2>6. tx' = [tx EXCEPT ![w].op = "purge", ![w].wants = wants] /\ UNCHANGED tables
    BY <1>17, <2>1 DEF LockSessions
  <2>7. t \in Tx /\ tx' = [tx EXCEPT ![w] = t]
    <3> HIDE DEF wants, a
    <3>1. t \in Tx
      BY <2>2, <2>5 DEF Tx
    <3> QED BY <1>t, <2>6, <3>1 DEF TypeOK
  <2> HIDE DEF t
  <2> QED BY <1>a, <2>6, <2>7
<1>18. ASSUME NEW w \in Workers, DeleteAccount(w)
       PROVE  TypeOK'
  <2> DEFINE a == tx[w].account
  <2>1. a \in Accounts
    BY <1>18, <1>t DEF DeleteAccount, Ready, RequestInv, DeletionKnows, Deletions
  <2>2. life' \in [Accounts -> {"none", "active", "deleted"}] /\ named' \subseteq Accounts
        /\ identity' \in [Identities -> Accounts \cup {None}] /\ owns' \subseteq Accounts
        /\ follows' \subseteq Accounts \X Accounts
    BY <1>18, <1>t, <2>1 DEF DeleteAccount, TypeOK, Unfollowed
  <2>3. sessions' \in [Sessions -> Session]
    <3>1. \A s \in Sessions : Erased(s) \in Session
      BY <1>s DEF Erased, Session
    <3>2. sessions' = [s \in Sessions |-> IF s \in Rows(a) THEN Erased(s) ELSE sessions[s]]
      BY <1>18 DEF DeleteAccount
    <3> QED BY <3>1, <3>2, <1>s
  <2>4. logins' \in [Logins -> Login]
    <3>1. Consumed \in Login
      BY DEF Consumed, Login
    <3> QED BY <1>18, <1>l, <3>1 DEF DeleteAccount, Unprompted
  <2>5. ASSUME NEW l \in Logins, logins'[l].bound # None
        PROVE  sessions'[logins'[l].bound].account # None
    <3>1. logins'[l] = IF logins[l].bound \in Rows(a) THEN Consumed ELSE logins[l]
      BY <1>18 DEF DeleteAccount, Unprompted
    <3>2. logins'[l] = logins[l] /\ logins[l].bound \notin Rows(a)
      BY <3>1, <2>5 DEF Consumed
    <3>3. logins[l].bound \in Sessions
      BY <3>2, <2>5, <1>l DEF Login
    <3>4. sessions'[logins[l].bound] = sessions[logins[l].bound]
      BY <1>18, <3>2, <3>3 DEF DeleteAccount
    <3> QED BY <1>t, <2>5, <3>2, <3>4 DEF TypeOK, OfSession
  <2>6. tx' \in [Workers -> Tx]
    BY <1>18, <1>c DEF DeleteAccount
  <2> QED BY <2>2, <2>3, <2>4, <2>5, <2>6 DEF TypeOK, OfSession
<1>19. ASSUME NEW w \in Workers, Acquire(w)
       PROVE  TypeOK'
  <2> DEFINE x == Head(tx[w].wants)
             t == [tx[w] EXCEPT !.held = tx[w].held \cup {x}, !.wants = Tail(tx[w].wants)]
  <2>1. tx[w] \in Tx
    BY <1>t DEF TypeOK
  <2>2. x \in Locks /\ Tail(tx[w].wants) \in Seq(Locks)
    <3>1. tx[w].wants \in Seq(Locks) /\ tx[w].wants # <<>>
      BY <1>19, <2>1 DEF Acquire, Tx
    <3> QED BY <3>1
  <2>3. t \in Tx
    BY <2>1, <2>2 DEF Tx
  <2>4. tx' = [tx EXCEPT ![w] = t] /\ UNCHANGED tables
    BY <1>19, <1>t DEF Acquire, TypeOK
  <2> HIDE DEF t
  <2> QED BY <1>a, <2>3, <2>4
<1>20. ASSUME NEW w \in Workers, Rollback(w)
       PROVE  TypeOK'
  BY <1>20, <1>a, <1>n DEF Rollback, Done
<1>21. CASE UNCHANGED vars
  BY <1>21, <1>b DEF vars
<1> QED BY <1>1, <1>2, <1>3, <1>4, <1>5, <1>7, <1>8, <1>9, <1>10, <1>11, <1>12, <1>13, <1>14,
           <1>15, <1>16, <1>17, <1>18, <1>19, <1>20, <1>21
        DEF Next, SignInStep, WriteStep, DeleteStep

-----------------------------------------------------------------------------
(* Sessions and locks *)

\* A sign-in's session replaces no row: it descends from the login that brought it.
NewRow(w, s) ==
    /\ Ready(w, "issue") \/ Ready(w, "rotate")
    /\ tx'[w] = NoTx
    /\ sessions[s].status = "free" /\ sessions'[s].status = "live"
    /\ sessions'[s].account \in Accounts
    /\ sessions'[s].via = tx[w].login
    /\ \A r \in Sessions \ {s} : sessions'[r].via = sessions[r].via /\ sessions'[r].root = sessions[r].root
    /\ \/ /\ sessions'[s].root = tx[w].login
          /\ \A r \in Sessions \ {s} : sessions'[r] = sessions[r]
       \/ \E b \in Sessions \ {s} :
            /\ sessions[b].status = "live" /\ sessions'[b].status = "revoked"
            /\ sessions'[b].account = sessions[b].account
            /\ sessions'[s].root = sessions[b].root
            /\ \A r \in Sessions \ {s, b} : sessions'[r] = sessions[r]

\* A step that inserts no session at most revokes or erases some.
OldRow(s) ==
    \/ sessions'[s] = sessions[s]
    \/ /\ sessions[s].status # "free"
       /\ sessions'[s].via = sessions[s].via /\ sessions'[s].root = sessions[s].root
       /\ \/ /\ sessions'[s].status = "revoked" /\ sessions[s].status # "erased"
             /\ sessions'[s].account = sessions[s].account
          \/ /\ sessions'[s].status = "erased" /\ sessions'[s].account = None
             /\ \E w \in Workers : DeleteAccount(w) /\ s \in Rows(tx[w].account)

\* A callback that signs in writes one new row, of the account it found.
LEMMA IssueRow ==
    ASSUME Inductive, NEW w \in Workers, NEW s \in Sessions, NEW a \in Accounts,
           NEW recent \in BOOLEAN, Ready(w, "issue"), sessions[s].status = "free", Done(w),
           sessions' = NewSession(s, a, tx[w].login, tx[w].login, recent)
    PROVE  NewRow(w, s)
<1>1. sessions'[s] = [status |-> "live", account |-> a, via |-> tx[w].login,
                      root |-> tx[w].login, proven |-> recent]
  BY DEF NewSession, Inductive, TypeOK
<1>2. \A r \in Sessions \ {s} : sessions'[r] = sessions[r]
  BY DEF NewSession, Inductive, TypeOK
<1>3. tx'[w] = NoTx
  BY DEF Done, Inductive, TypeOK
<1>4. sessions'[s].status = "live" /\ sessions'[s].account = a
      /\ sessions'[s].via = tx[w].login /\ sessions'[s].root = tx[w].login
  BY <1>1
<1> QED BY <1>2, <1>3, <1>4 DEF NewRow

\* A callback that proves a recent authentication writes one new row, of the account
\* whose session it revokes.
LEMMA RotateRow ==
    ASSUME Inductive, NEW w \in Workers, NEW s \in Sessions, RotateSession(w, s)
    PROVE  NewRow(w, s)
<1> DEFINE b == tx[w].session
           new == NewSession(s, OfSession(b), tx[w].login, sessions[b].root, TRUE)
<1>t. /\ sessions \in [Sessions -> Session] /\ tx \in [Workers -> Tx]
      /\ SessionInv /\ RequestInv
  BY DEF Inductive, TypeOK
<1>1. b \in Sessions /\ sessions[b].status = "live" /\ sessions[s].status = "free" /\ b # s
  BY <1>t DEF RotateSession, Live, Ready, RequestInv, SignInKnows, SignIns
<1>2. sessions[b] \in Session /\ sessions[b].account \in Accounts
  BY <1>t, <1>1 DEF SessionInv, Session
<1>3. new[s] = [status |-> "live", account |-> OfSession(b), via |-> tx[w].login,
                root |-> sessions[b].root, proven |-> TRUE]
  BY <1>t DEF NewSession
<1>4. new \in [Sessions -> {new[r] : r \in Sessions}] /\ \A r \in Sessions \ {s} : new[r] = sessions[r]
  BY <1>t DEF NewSession
<1>5. sessions' = [new EXCEPT ![b] = Revoked(b)]
  BY DEF RotateSession
<1>6. /\ sessions'[s] = new[s] /\ sessions'[b] = Revoked(b)
      /\ \A r \in Sessions \ {s, b} : sessions'[r] = sessions[r]
  <2> HIDE DEF new, b
  <2> QED BY <1>1, <1>4, <1>5
<1>7. /\ Revoked(b).status = "revoked" /\ Revoked(b).account = sessions[b].account
      /\ Revoked(b).via = sessions[b].via /\ Revoked(b).root = sessions[b].root
  <2> HIDE DEF b
  <2> QED BY <1>2 DEF Revoked, Session
<1>8. tx'[w] = NoTx
  BY <1>t DEF RotateSession, Done
<1>9. /\ sessions'[s].status = "live" /\ sessions'[s].account \in Accounts
      /\ sessions'[s].via = tx[w].login /\ sessions'[s].root = sessions[b].root
  <2>1. sessions'[s] = [status |-> "live", account |-> OfSession(b), via |-> tx[w].login,
                        root |-> sessions[b].root, proven |-> TRUE]
    BY <1>3, <1>6
  <2> HIDE DEF new, b
  <2> QED BY <1>2, <2>1 DEF OfSession
<1>10. Ready(w, "rotate")
  BY DEF RotateSession
<1> HIDE DEF new, b
<1> QED BY <1>1, <1>6, <1>7, <1>8, <1>9, <1>10 DEF NewRow

\* Every step inserts one session or none.
LEMMA SessionStep ==
    ASSUME Inductive, [Next]_vars
    PROVE  \/ \E w \in Workers, s \in Sessions : NewRow(w, s)
           \/ \A s \in Sessions : OldRow(s)
<1>t. /\ sessions \in [Sessions -> Session] /\ tx \in [Workers -> Tx]
      /\ SessionInv /\ RequestInv
  BY DEF Inductive, TypeOK
<1>1. CASE UNCHANGED sessions
  BY <1>1 DEF OldRow
<1>2. ASSUME NEW s \in Sessions, Logout(s)
      PROVE  \A r \in Sessions : OldRow(r)
  <2>1. sessions[s] \in Session
    BY <1>t
  <2>2. sessions'[s] = Revoked(s) /\ \A r \in Sessions \ {s} : sessions'[r] = sessions[r]
    BY <1>2, <1>t DEF Logout
  <2>3. /\ Revoked(s).status = "revoked" /\ Revoked(s).account = sessions[s].account
        /\ Revoked(s).via = sessions[s].via /\ Revoked(s).root = sessions[s].root
    BY <2>1 DEF Revoked, Session
  <2>4. sessions[s].status \notin {"free", "erased"}
    BY <1>2 DEF Logout
  <2> QED BY <2>2, <2>3, <2>4 DEF OldRow
<1>3. ASSUME NEW w \in Workers, NEW s \in Sessions, NEW recent \in BOOLEAN, IssueSession(w, s, recent)
      PROVE  NewRow(w, s)
  <2>1. tx[w].account \in Accounts
    BY <1>3, <1>t, NoneAssumption DEF IssueSession, Ready, RequestInv, SignInKnows, Tx, SignIns,
       Inductive, TypeOK
  <2> QED BY <1>3, <2>1, IssueRow DEF IssueSession
<1>4. ASSUME NEW w \in Workers, NEW s \in Sessions, NEW a \in Accounts, NEW recent \in BOOLEAN,
             SignUp(w, s, a, recent)
      PROVE  NewRow(w, s)
  BY <1>4, IssueRow DEF SignUp
<1>5. ASSUME NEW w \in Workers, DeleteAccount(w)
      PROVE  \A s \in Sessions : OldRow(s)
  <2> DEFINE a == tx[w].account
  <2>1. a \in Accounts
    BY <1>5, <1>t DEF DeleteAccount, Ready, RequestInv, DeletionKnows, Deletions
  <2>2. SUFFICES ASSUME NEW s \in Sessions PROVE OldRow(s)
    OBVIOUS
  <2>3. sessions'[s] = IF s \in Rows(a) THEN Erased(s) ELSE sessions[s]
    BY <1>5 DEF DeleteAccount
  <2>4. sessions[s] \in Session
    BY <1>t
  <2>5. /\ Erased(s).status = "erased" /\ Erased(s).account = None
        /\ Erased(s).via = sessions[s].via /\ Erased(s).root = sessions[s].root
    BY <2>4 DEF Erased, Session
  <2>6. s \in Rows(a) => sessions[s].status # "free"
    BY <1>t, <2>1, NoneAssumption DEF Rows, SessionInv
  <2>7. s \in Rows(a) => \E o \in Workers : DeleteAccount(o) /\ s \in Rows(tx[o].account)
    BY <1>5
  <2> HIDE DEF a
  <2> QED BY <2>3, <2>5, <2>6, <2>7 DEF OldRow
<1>6. CASE Next
  <2>1. CASE \E l \in Logins : StartLogin(l) \/ \E s \in Sessions : StartReauthentication(s, l)
    BY <1>1, <2>1 DEF StartLogin, StartReauthentication
  <2>2. CASE \E w \in Workers : \/ \E l \in Logins, i \in Identities : ConsumeLogin(w, l, i)
                                \/ FindAccount(w)
    BY <1>1, <2>2 DEF ConsumeLogin, FindAccount, tables
  <2>3. CASE WriteStep
    BY <1>1, <2>3 DEF WriteStep, BeginMember, Begin, BeginFollow, Write, Follow, UpdateProfile, tables
  <2>4. CASE \E w \in Workers : \/ \E s \in Sessions : BeginDelete(w, s)
                                \/ LockIdentities(w) \/ LockSessions(w)
    BY <1>1, <2>4 DEF BeginDelete, Begin, LockIdentities, LockSessions, tables
  <2>5. CASE \E w \in Workers : Acquire(w) \/ Rollback(w)
    BY <1>1, <2>5 DEF Acquire, Rollback, tables
  <2> QED BY <1>2, <1>3, <1>4, <1>5, <1>6, <2>1, <2>2, <2>3, <2>4, <2>5, RotateRow
          DEF Next, SignInStep, DeleteStep
<1> QED BY <1>1, <1>6 DEF vars, tables

\* Rows keep or lose their account with their status.
LEMMA SessionInvPreserved == Inductive /\ [Next]_vars => SessionInv'
<1> SUFFICES ASSUME Inductive, [Next]_vars PROVE SessionInv'
  OBVIOUS
<1>t. SessionInv /\ \A s \in Sessions : sessions[s] \in Session
  BY DEF Inductive, TypeOK
<1>1. \A s \in Sessions : OldRow(s) =>
        /\ sessions'[s].status \in {"free", "erased"} <=> sessions'[s].account = None
        /\ sessions'[s].status = "free" => sessions'[s].via = None
  BY <1>t DEF SessionInv, OldRow, Session
<1>2. ASSUME NEW w \in Workers, NEW s \in Sessions, NewRow(w, s)
      PROVE  SessionInv'
  <2>1. \A r \in Sessions \ {s} : OldRow(r)
    <3>1. CASE \A r \in Sessions \ {s} : sessions'[r] = sessions[r]
      BY <3>1 DEF OldRow
    <3>2. ASSUME NEW b \in Sessions \ {s}, sessions[b].status = "live", sessions'[b].status = "revoked",
                 sessions'[b].account = sessions[b].account,
                 \A r \in Sessions \ {s, b} : sessions'[r] = sessions[r]
          PROVE  \A r \in Sessions \ {s} : OldRow(r)
      BY <1>2, <3>2 DEF OldRow, NewRow
    <3> QED BY <1>2, <3>1, <3>2 DEF NewRow
  <2>2. sessions'[s].status = "live" /\ sessions'[s].account # None
    BY <1>2, NoneAssumption DEF NewRow
  <2> QED BY <1>1, <2>1, <2>2 DEF SessionInv
<1> QED BY <1>1, <1>2, SessionStep DEF SessionInv

\* A step is one request's, or moves none; only waiting for a lock adds to what it holds.
LEMMA OneRequest ==
    ASSUME Inductive, [Next]_vars
    PROVE  \/ UNCHANGED tx
           \/ \E w \in Workers : /\ \A o \in Workers \ {w} : tx'[o] = tx[o]
                                 /\ Acquire(w) \/ tx'[w].held \in {tx[w].held, {}}
<1>t. tx \in [Workers -> Tx]
  BY DEF Inductive, TypeOK
<1>1. ASSUME NEW w \in Workers, NEW t, tx' = [tx EXCEPT ![w] = t], t.held \in {tx[w].held, {}}
      PROVE  /\ \A o \in Workers \ {w} : tx'[o] = tx[o]
             /\ tx'[w].held \in {tx[w].held, {}}
  BY <1>1, <1>t
<1>2. NoTx.held = {}
  BY DEF NoTx
<1>3. CASE SignInStep
  <2>1. CASE \/ \E l \in Logins : StartLogin(l) \/ \E s \in Sessions : StartReauthentication(s, l)
             \/ \E s \in Sessions : Logout(s)
    BY <2>1 DEF StartLogin, StartReauthentication, Logout
  <2>2. ASSUME NEW w \in Workers, NEW l \in Logins, NEW i \in Identities, ConsumeLogin(w, l, i)
        PROVE  /\ \A o \in Workers \ {w} : tx'[o] = tx[o]
               /\ tx'[w].held \in {tx[w].held, {}}
    <3> DEFINE b == logins[l].bound
               wants == IF b = None THEN <<<<"identity", i>>>>
                        ELSE <<<<"identity", i>>, <<"session", b>>, User(OfSession(b))>>
               op == IF b = None THEN "signin" ELSE "rotate"
               t == [NoTx EXCEPT !.op = op, !.login = l, !.other = i, !.session = b, !.wants = wants]
    <3>1. tx' = [tx EXCEPT ![w] = t]
      BY <2>2 DEF ConsumeLogin
    <3>2. t.held = {}
      <4> HIDE DEF wants, op, b
      <4> QED BY DEF NoTx
    <3> HIDE DEF t
    <3> QED BY <1>1, <3>1, <3>2
  <2>3. ASSUME NEW w \in Workers, FindAccount(w)
        PROVE  /\ \A o \in Workers \ {w} : tx'[o] = tx[o]
               /\ tx'[w].held = tx[w].held
    BY <1>t, <2>3 DEF FindAccount, Tx
  <2>4. CASE \E w \in Workers, s \in Sessions : \/ \E recent \in BOOLEAN :
                                                    \/ IssueSession(w, s, recent)
                                                    \/ \E a \in Accounts : SignUp(w, s, a, recent)
                                                \/ RotateSession(w, s)
    BY <1>1, <1>2, <2>4 DEF IssueSession, SignUp, RotateSession, Done
  <2> QED BY <1>3, <2>1, <2>2, <2>3, <2>4 DEF SignInStep
<1>4. CASE WriteStep
  <2>1. ASSUME NEW w \in Workers, NEW s \in Sessions, NEW op, NEW other, NEW locks,
               BeginMember(w, op, s, other, locks)
        PROVE  /\ \A o \in Workers \ {w} : tx'[o] = tx[o]
               /\ tx'[w].held \in {tx[w].held, {}}
    <3> DEFINE wants == TouchLock(op, s) \o locks
               t == [NoTx EXCEPT !.op = op, !.account = OfSession(s), !.other = other, !.wants = wants]
    <3>1. tx' = [tx EXCEPT ![w] = t]
      BY <2>1 DEF BeginMember, Begin
    <3>2. t.held = {}
      <4> HIDE DEF wants
      <4> QED BY DEF NoTx
    <3> HIDE DEF t
    <3> QED BY <1>1, <3>1, <3>2
  <2>2. CASE \/ \E s \in Sessions : Write(s)
             \/ \E w \in Workers : Follow(w) \/ UpdateProfile(w)
    BY <1>1, <1>2, <2>2 DEF Write, Follow, UpdateProfile, Done
  <2> QED BY <1>4, <2>1, <2>2 DEF WriteStep, BeginFollow
<1>5. CASE DeleteStep
  <2>1. ASSUME NEW w \in Workers, NEW s \in Sessions, BeginDelete(w, s)
        PROVE  /\ \A o \in Workers \ {w} : tx'[o] = tx[o]
               /\ tx'[w].held \in {tx[w].held, {}}
    <3> DEFINE t == [NoTx EXCEPT !.op = "delete", !.account = OfSession(s), !.session = s,
                                 !.wants = <<<<"life", OfSession(s)>>>>]
    <3>1. tx' = [tx EXCEPT ![w] = t]
      BY <2>1 DEF BeginDelete, Begin
    <3>2. t.held = {}
      BY DEF NoTx
    <3> HIDE DEF t
    <3> QED BY <1>1, <3>1, <3>2
  <2>2. CASE \E w \in Workers : LockIdentities(w)
    BY <1>t, <2>2 DEF LockIdentities, Tx
  <2>3. ASSUME NEW w \in Workers, LockSessions(w)
        PROVE  /\ \A o \in Workers \ {w} : tx'[o] = tx[o]
               /\ tx'[w].held = tx[w].held
    <3>1. PICK wants : tx' = [tx EXCEPT ![w].op = "purge", ![w].wants = wants]
      BY <2>3 DEF LockSessions
    <3> QED BY <1>t, <3>1 DEF Tx
  <2>4. CASE \E w \in Workers : DeleteAccount(w)
    BY <1>1, <1>2, <2>4 DEF DeleteAccount, Done
  <2> QED BY <1>5, <2>1, <2>2, <2>3, <2>4 DEF DeleteStep
<1>6. CASE \E w \in Workers : Acquire(w) \/ Rollback(w)
  <2>1. ASSUME NEW w \in Workers, Acquire(w)
        PROVE  \A o \in Workers \ {w} : tx'[o] = tx[o]
    BY <1>t, <2>1 DEF Acquire
  <2> QED BY <1>1, <1>2, <1>6, <2>1 DEF Rollback, Done
<1> QED BY <1>3, <1>4, <1>5, <1>6 DEF Next, vars

\* A lock is taken when nobody else holds it.
LEMMA ExclusivePreserved == Inductive /\ [Next]_vars => Exclusive'
<1> SUFFICES ASSUME Inductive, [Next]_vars PROVE Exclusive'
  OBVIOUS
<1>t. Exclusive /\ tx \in [Workers -> Tx]
  BY DEF Inductive, TypeOK
<1>1. CASE UNCHANGED tx
  BY <1>1, <1>t DEF Exclusive
<1>2. ASSUME NEW w \in Workers, \A o \in Workers \ {w} : tx'[o] = tx[o],
             Acquire(w) \/ tx'[w].held \in {tx[w].held, {}}
      PROVE  Exclusive'
  <2>1. \A o \in Workers \ {w} : tx'[w].held \cap tx[o].held = {}
    <3>1. CASE Acquire(w)
      <4>1. tx'[w].held = tx[w].held \cup {Head(tx[w].wants)}
        BY <1>t, <3>1 DEF Acquire, Tx
      <4>2. \A o \in Workers \ {w} : Head(tx[w].wants) \notin tx[o].held
        BY <3>1 DEF Acquire
      <4> QED BY <1>t, <4>1, <4>2 DEF Exclusive
    <3>2. CASE tx'[w].held \in {tx[w].held, {}}
      BY <1>t, <3>2 DEF Exclusive
    <3> QED BY <1>2, <3>1, <3>2
  <2> QED BY <1>2, <1>t, <2>1 DEF Exclusive
<1> QED BY <1>1, <1>2, OneRequest

-----------------------------------------------------------------------------
(* What a request knows while it is in flight *)

\* Accounts and identities change when an account is made or deleted.
LEMMA AccountStep ==
    ASSUME Inductive, [Next]_vars
    PROVE  \/ UNCHANGED <<life, identity>>
           \/ \E w \in Workers, s \in Sessions, a \in Accounts, recent \in BOOLEAN : SignUp(w, s, a, recent)
           \/ \E w \in Workers : DeleteAccount(w)
<1>1. CASE SignInStep
  BY <1>1 DEF SignInStep, StartLogin, StartReauthentication, Logout, ConsumeLogin, FindAccount,
     IssueSession, RotateSession, tables
<1>2. CASE WriteStep
  BY <1>2 DEF WriteStep, BeginMember, Begin, BeginFollow, Write, Follow, UpdateProfile, tables
<1>3. CASE DeleteStep
  BY <1>3 DEF DeleteStep, BeginDelete, Begin, LockIdentities, LockSessions, tables
<1>4. CASE \E w \in Workers : Acquire(w) \/ Rollback(w)
  BY <1>4 DEF Acquire, Rollback, tables
<1> QED BY <1>1, <1>2, <1>3, <1>4 DEF Next, vars, tables

\* Only a request's own steps change what its sign-in found.
LEMMA SignInUndisturbed ==
    ASSUME Inductive, [Next]_vars, NEW v \in Workers, tx'[v] = tx[v]
    PROVE  SignInKnows(tx[v])'
<1> DEFINE t == tx[v]
<1>t. TypeOK /\ Exclusive /\ RequestInv
  BY DEF Inductive
<1>1. SignInKnows(t) /\ t \in Tx
  BY <1>t DEF RequestInv, TypeOK
<1>2. SUFFICES ASSUME t.op = "issue"
               PROVE  /\ identity'[t.other] = t.account
                      /\ t.account # None => life'[t.account] = "active"
  BY <1>1 DEF SignInKnows
<1>3. /\ t.other \in Identities /\ t.account \in Accounts \cup {None}
      /\ <<"identity", t.other>> \in t.held
      /\ identity[t.other] = t.account
      /\ t.account # None => life[t.account] = "active"
  BY <1>1, <1>2 DEF SignInKnows, SignIns, Tx
<1>4. ASSUME NEW w \in Workers, NEW s \in Sessions, NEW a \in Accounts, NEW recent \in BOOLEAN,
             SignUp(w, s, a, recent)
      PROVE  /\ identity'[t.other] = t.account
             /\ t.account # None => life'[t.account] = "active"
  <2>1. tx'[w] = NoTx
    BY <1>4, <1>t DEF SignUp, Done, TypeOK
  <2>2. w # v
    BY <1>2, <2>1 DEF NoTx
  <2>3. tx[w].other \in Identities /\ <<"identity", tx[w].other>> \in tx[w].held
    BY <1>4, <1>t DEF SignUp, Ready, RequestInv, SignInKnows, SignIns
  <2>4. tx[w].other # t.other
    BY <1>3, <1>t, <2>2, <2>3 DEF Exclusive
  <2>5. identity'[t.other] = identity[t.other]
    BY <1>3, <1>4, <1>t, <2>4 DEF SignUp, TypeOK
  <2>6. t.account # None => life'[t.account] = "active"
    BY <1>3, <1>4, <1>t DEF SignUp, TypeOK
  <2> QED BY <1>3, <2>5, <2>6
<1>5. ASSUME NEW w \in Workers, DeleteAccount(w)
      PROVE  /\ identity'[t.other] = t.account
             /\ t.account # None => life'[t.account] = "active"
  <2> DEFINE a == tx[w].account
  <2>1. tx[w].op = "purge"
    BY <1>5 DEF DeleteAccount, Ready
  <2>2. a \in Accounts /\ \A i \in Identities : identity[i] = a => <<"identity", i>> \in tx[w].held
    BY <1>t, <2>1 DEF RequestInv, DeletionKnows, Deletions
  <2>3. w # v
    BY <1>2, <2>1
  <2>4. t.account # a
    BY <1>3, <1>t, <2>2, <2>3 DEF Exclusive
  <2>5. identity'[t.other] = identity[t.other]
    BY <1>3, <1>5, <2>4 DEF DeleteAccount
  <2>6. t.account # None => life'[t.account] = "active"
    BY <1>3, <1>5, <1>t, <2>4 DEF DeleteAccount, TypeOK
  <2> QED BY <1>3, <2>5, <2>6
<1> QED BY <1>3, <1>4, <1>5, AccountStep

\* A deletion's account, session and identities stay as it found them.
LEMMA DeletionUndisturbed ==
    ASSUME Inductive, [Next]_vars, NEW v \in Workers, tx'[v] = tx[v]
    PROVE  DeletionKnows(tx[v])'
<1> DEFINE t == tx[v]
<1>t. TypeOK /\ Exclusive /\ RequestInv /\ SessionInv
  BY DEF Inductive
<1>1. DeletionKnows(t)
  BY <1>t DEF RequestInv
<1>2. SUFFICES ASSUME t.op \in Deletions
               PROVE  /\ life'[t.account] # "none"
                      /\ sessions'[t.session].status # "free"
                      /\ sessions'[t.session].account \in {t.account, None}
                      /\ t.op = "purge" =>
                           \A i \in Identities : identity'[i] = t.account => identity[i] = t.account
  BY <1>1 DEF DeletionKnows
<1>3. /\ t.account \in Accounts /\ life[t.account] # "none"
      /\ t.session \in Sessions /\ sessions[t.session].status # "free"
      /\ sessions[t.session].account \in {t.account, None}
  BY <1>1, <1>2 DEF DeletionKnows
<1>4. /\ sessions'[t.session].status # "free"
      /\ sessions'[t.session].account \in {t.account, None}
  <2>1. ASSUME OldRow(t.session)
        PROVE  /\ sessions'[t.session].status # "free"
               /\ sessions'[t.session].account \in {t.account, None}
    BY <1>3, <2>1 DEF OldRow
  <2>2. ASSUME NEW w \in Workers, NEW s \in Sessions, NewRow(w, s)
        PROVE  /\ sessions'[t.session].status # "free"
               /\ sessions'[t.session].account \in {t.account, None}
    BY <1>3, <2>2 DEF NewRow
  <2> QED BY <1>3, <2>1, <2>2, SessionStep
<1>5. ASSUME NEW w \in Workers, NEW s \in Sessions, NEW a \in Accounts, NEW recent \in BOOLEAN,
             SignUp(w, s, a, recent)
      PROVE  /\ life'[t.account] # "none"
             /\ \A i \in Identities : identity'[i] = t.account => identity[i] = t.account
  BY <1>3, <1>5, <1>t DEF SignUp, TypeOK
<1>6. ASSUME NEW w \in Workers, DeleteAccount(w)
      PROVE  /\ life'[t.account] # "none"
             /\ \A i \in Identities : identity'[i] = t.account => identity[i] = t.account
  BY <1>3, <1>6, <1>t, NoneAssumption DEF DeleteAccount, TypeOK
<1> QED BY <1>3, <1>4, <1>5, <1>6, AccountStep

\* What a step does to one worker's request, seen from that worker.
LEMMA OwnStep ==
    ASSUME Inductive, [Next]_vars, NEW w \in Workers
    PROVE  \/ tx'[w] = tx[w]
           \/ tx'[w] = NoTx
           \/ \E l \in Logins, i \in Identities : ConsumeLogin(w, l, i)
           \/ FindAccount(w)
           \/ \E s \in Sessions :
                \/ BeginMember(w, "profile", s, None, <<User(OfSession(s))>>)
                \/ \E c \in Accounts : BeginFollow(w, s, c)
                \/ BeginDelete(w, s)
           \/ LockIdentities(w) \/ LockSessions(w) \/ Acquire(w)
<1>t. tx \in [Workers -> Tx]
  BY DEF Inductive, TypeOK
<1>1. ASSUME NEW o \in Workers, NEW t, tx' = [tx EXCEPT ![o] = t]
      PROVE  w # o => tx'[w] = tx[w]
  BY <1>1, <1>t
<1>2. ASSUME NEW o \in Workers, Done(o)
      PROVE  tx'[w] = tx[w] \/ tx'[w] = NoTx
  BY <1>2, <1>t DEF Done
<1>3. CASE SignInStep
  <2>1. CASE \/ \E l \in Logins : StartLogin(l) \/ \E s \in Sessions : StartReauthentication(s, l)
             \/ \E s \in Sessions : Logout(s)
    BY <2>1 DEF StartLogin, StartReauthentication, Logout
  <2>2. ASSUME NEW o \in Workers, NEW l \in Logins, NEW i \in Identities, ConsumeLogin(o, l, i)
        PROVE  w # o => tx'[w] = tx[w]
    BY <1>1, <2>2 DEF ConsumeLogin
  <2>3. ASSUME NEW o \in Workers, FindAccount(o)
        PROVE  w # o => tx'[w] = tx[w]
    BY <1>t, <2>3 DEF FindAccount
  <2>4. CASE \E o \in Workers, s \in Sessions :
               \/ \E recent \in BOOLEAN : \/ IssueSession(o, s, recent)
                                          \/ \E a \in Accounts : SignUp(o, s, a, recent)
               \/ RotateSession(o, s)
    BY <1>2, <2>4 DEF IssueSession, SignUp, RotateSession
  <2> QED BY <1>3, <2>1, <2>2, <2>3, <2>4 DEF SignInStep
<1>4. CASE WriteStep
  <2>1. ASSUME NEW o \in Workers, NEW s, NEW op, NEW other, NEW locks,
               BeginMember(o, op, s, other, locks)
        PROVE  w # o => tx'[w] = tx[w]
    BY <1>1, <2>1 DEF BeginMember, Begin
  <2>2. ASSUME NEW o \in Workers, NEW s, NEW c, BeginFollow(o, s, c)
        PROVE  w # o => tx'[w] = tx[w]
    BY <2>1, <2>2 DEF BeginFollow
  <2>3. CASE \/ \E s \in Sessions : Write(s)
             \/ \E o \in Workers : Follow(o) \/ UpdateProfile(o)
    BY <1>2, <2>3 DEF Write, Follow, UpdateProfile
  <2> QED BY <1>4, <2>1, <2>2, <2>3 DEF WriteStep
<1>5. CASE DeleteStep
  <2>1. ASSUME NEW o \in Workers, NEW s \in Sessions, BeginDelete(o, s)
        PROVE  w # o => tx'[w] = tx[w]
    BY <1>1, <2>1 DEF BeginDelete, Begin
  <2>2. ASSUME NEW o \in Workers, LockIdentities(o) \/ LockSessions(o)
        PROVE  w # o => tx'[w] = tx[w]
    BY <1>t, <2>2 DEF LockIdentities, LockSessions
  <2>3. CASE \E o \in Workers : DeleteAccount(o)
    BY <1>2, <2>3 DEF DeleteAccount
  <2> QED BY <1>5, <2>1, <2>2, <2>3 DEF DeleteStep
<1>6. CASE \E o \in Workers : Acquire(o) \/ Rollback(o)
  <2>1. ASSUME NEW o \in Workers, Acquire(o)
        PROVE  w # o => tx'[w] = tx[w]
    BY <1>t, <2>1 DEF Acquire
  <2> QED BY <1>2, <1>6, <2>1 DEF Rollback
<1> QED BY <1>3, <1>4, <1>5, <1>6 DEF Next, vars

\* A request that goes on waiting holds at least the locks it held.
LEMMA AcquireKnows ==
    ASSUME Inductive, NEW w \in Workers, Acquire(w)
    PROVE  /\ SignInKnows(tx[w])' /\ DeletionKnows(tx[w])'
           /\ tx'[w].op = tx[w].op /\ tx'[w].account = tx[w].account
<1> DEFINE t == tx[w]
<1>t. TypeOK /\ SignInKnows(t) /\ DeletionKnows(t)
  BY DEF Inductive, RequestInv
<1>1. /\ tx'[w].op = t.op /\ tx'[w].account = t.account /\ tx'[w].session = t.session
      /\ tx'[w].other = t.other /\ tx'[w].login = t.login
      /\ tx'[w].wants = Tail(t.wants) /\ tx'[w].held = t.held \cup {Head(t.wants)}
  BY <1>t DEF Acquire, TypeOK, Tx
<1>2. UNCHANGED tables /\ t.wants # <<>>
  BY DEF Acquire
<1>3. DeletionKnows(tx[w])'
  BY <1>t, <1>1, <1>2 DEF DeletionKnows, tables
<1>4. t.op = "signin" => tx'[w].wants = <<>> /\ <<"identity", t.other>> \in tx'[w].held
  BY <1>t, <1>1, <1>2, Wants DEF SignInKnows
<1>5. SignInKnows(tx[w])'
  BY <1>t, <1>1, <1>2, <1>4 DEF SignInKnows, tables
<1> QED BY <1>1, <1>3, <1>5

\* What in-flight requests know stays true until they commit or roll back.
LEMMA RequestInvPreserved == Inductive /\ [Next]_vars => RequestInv'
<1> DEFINE Known(w) == /\ SignInKnows(tx[w])' /\ DeletionKnows(tx[w])'
                       /\ tx'[w].op \in Operations => tx'[w].account \in Accounts
<1> SUFFICES ASSUME Inductive, [Next]_vars, NEW w \in Workers PROVE Known(w)
  BY DEF RequestInv
<1>t. TypeOK /\ SessionInv /\ RequestInv /\ tx \in [Workers -> Tx]
  BY DEF Inductive, TypeOK
<1>1. ASSUME tx'[w] = tx[w]
      PROVE  Known(w)
  BY <1>1, <1>t, SignInUndisturbed, DeletionUndisturbed DEF RequestInv
<1>2. ASSUME tx'[w] = NoTx
      PROVE  Known(w)
  <2>1. tx'[w].op = "idle"
    BY <1>2 DEF NoTx
  <2> QED BY <2>1 DEF SignInKnows, DeletionKnows, SignIns, Deletions, Operations
<1>3. ASSUME NEW l \in Logins, NEW i \in Identities, ConsumeLogin(w, l, i)
      PROVE  Known(w)
  <2> DEFINE b == logins[l].bound
             op == IF b = None THEN "signin" ELSE "rotate"
             wants == IF b = None THEN <<<<"identity", i>>>>
                      ELSE <<<<"identity", i>>, <<"session", b>>, User(OfSession(b))>>
             t == [NoTx EXCEPT !.op = op, !.login = l, !.other = i, !.session = b, !.wants = wants]
  <2>1. tx'[w] = t
    BY <1>3, <1>t DEF ConsumeLogin
  <2>2. /\ t.op = op /\ t.login = l /\ t.other = i /\ t.session = b /\ t.wants = wants
    <3> HIDE DEF op, wants, b
    <3> QED BY DEF NoTx
  <2>3. b \in Sessions \cup {None}
    BY <1>t DEF TypeOK, Login
  <2>4. \/ op = "signin" /\ wants = <<<<"identity", i>>>>
        \/ op = "rotate" /\ b \in Sessions
    <3>1. CASE b = None
      BY <3>1
    <3>2. CASE b # None
      BY <2>3, <3>2
    <3> QED BY <3>1, <3>2
  <2> HIDE DEF op, wants, b, t
  <2> QED BY <2>1, <2>2, <2>4 DEF SignInKnows, DeletionKnows, SignIns, Deletions, Operations
<1>4. ASSUME FindAccount(w)
      PROVE  Known(w)
  <2> DEFINE i == tx[w].other
             a == identity[i]
  <2>1. /\ i \in Identities /\ tx[w].login \in Logins /\ <<"identity", i>> \in tx[w].held
    BY <1>4, <1>t DEF FindAccount, Ready, RequestInv, SignInKnows, SignIns
  <2>2. /\ tx'[w].op = "issue" /\ tx'[w].account = a /\ tx'[w].other = i
        /\ tx'[w].login = tx[w].login /\ tx'[w].held = tx[w].held
    BY <1>4, <1>t DEF FindAccount, Tx
  <2>3. a # None => life[a] = "active"
    BY <1>4 DEF FindAccount
  <2>4. UNCHANGED tables
    BY <1>4 DEF FindAccount
  <2> QED BY <2>1, <2>2, <2>3, <2>4
          DEF SignInKnows, DeletionKnows, SignIns, Deletions, Operations, tables
<1>5. ASSUME NEW s \in Sessions, NEW op \in Operations, NEW other, NEW locks,
             BeginMember(w, op, s, other, locks)
      PROVE  Known(w)
  <2> DEFINE wants == TouchLock(op, s) \o locks
             t == [NoTx EXCEPT !.op = op, !.account = OfSession(s), !.other = other, !.wants = wants]
  <2>1. tx'[w] = t
    BY <1>5, <1>t DEF BeginMember, Begin
  <2>2. t.op = op /\ t.account = OfSession(s)
    <3> HIDE DEF wants
    <3> QED BY DEF NoTx
  <2>3. OfSession(s) \in Accounts
    BY <1>5, <1>t DEF BeginMember, Live, OfSession, SessionInv, TypeOK, Session
  <2> HIDE DEF t, wants
  <2> QED BY <2>1, <2>2, <2>3 DEF SignInKnows, DeletionKnows, SignIns, Deletions, Operations
<1>6. ASSUME NEW s \in Sessions, BeginDelete(w, s)
      PROVE  Known(w)
  <2> DEFINE wants == <<<<"life", OfSession(s)>>>>
             t == [NoTx EXCEPT !.op = "delete", !.account = OfSession(s), !.session = s, !.wants = wants]
  <2>1. tx'[w] = t /\ UNCHANGED tables
    BY <1>6, <1>t DEF BeginDelete, Begin
  <2>2. t.op = "delete" /\ t.account = OfSession(s) /\ t.session = s
    <3> HIDE DEF wants
    <3> QED BY DEF NoTx
  <2>3. /\ OfSession(s) \in Accounts /\ life[OfSession(s)] = "active"
        /\ sessions[s].status = "live" /\ OfSession(s) = sessions[s].account
    BY <1>6, <1>t DEF BeginDelete, Live, OfSession, SessionInv, TypeOK, Session
  <2> HIDE DEF t, wants
  <2> QED BY <2>1, <2>2, <2>3
          DEF SignInKnows, DeletionKnows, SignIns, Deletions, Operations, tables
<1>7. ASSUME LockIdentities(w)
      PROVE  Known(w)
  <2>1. /\ tx'[w].op = "delete" /\ tx'[w].account = tx[w].account /\ tx'[w].session = tx[w].session
    BY <1>7, <1>t DEF LockIdentities, Ready, Tx
  <2>2. UNCHANGED tables /\ DeletionKnows(tx[w]) /\ tx[w].op = "delete"
    BY <1>7, <1>t DEF LockIdentities, Ready, RequestInv
  <2> QED BY <2>1, <2>2 DEF SignInKnows, DeletionKnows, SignIns, Deletions, Operations, tables
<1>8. ASSUME LockSessions(w)
      PROVE  Known(w)
  <2>1. PICK wants : tx' = [tx EXCEPT ![w].op = "purge", ![w].wants = wants]
    BY <1>8 DEF LockSessions
  <2>2. /\ tx'[w].op = "purge" /\ tx'[w].account = tx[w].account
        /\ tx'[w].session = tx[w].session /\ tx'[w].held = tx[w].held
    BY <1>t, <2>1 DEF Tx
  <2>3. /\ UNCHANGED tables /\ DeletionKnows(tx[w]) /\ tx[w].op = "delete"
        /\ \A i \in Identities : identity[i] = tx[w].account => <<"identity", i>> \in tx[w].held
    BY <1>8, <1>t DEF LockSessions, Ready, RequestInv
  <2> QED BY <2>2, <2>3 DEF SignInKnows, DeletionKnows, SignIns, Deletions, Operations, tables
<1>9. ASSUME Acquire(w)
      PROVE  Known(w)
  BY <1>9, <1>t, AcquireKnows DEF RequestInv
<1>10. ASSUME NEW s \in Sessions, NEW c \in Accounts, BeginFollow(w, s, c)
       PROVE  Known(w)
  BY <1>5, <1>10 DEF BeginFollow, Operations
<1>11. ASSUME NEW s \in Sessions, BeginMember(w, "profile", s, None, <<User(OfSession(s))>>)
       PROVE  Known(w)
  BY <1>5, <1>11 DEF Operations
<1> HIDE DEF Known
<1> QED BY <1>1, <1>2, <1>3, <1>4, <1>6, <1>7, <1>8, <1>9, <1>10, <1>11, OwnStep

-----------------------------------------------------------------------------
(* Login transactions *)

\* A consumed login state is consumed for good.
LEMMA ConsumedForGood ==
    ASSUME Inductive, [Next]_vars, NEW l \in Logins, logins[l].status = "consumed"
    PROVE  logins'[l].status = "consumed"
<1>t. logins \in [Logins -> Login]
  BY DEF Inductive, TypeOK
<1>1. CASE SignInStep
  <2>1. ASSUME NEW k \in Logins, StartLogin(k)
        PROVE  logins'[l] = logins[l]
    BY <1>t, <2>1 DEF StartLogin
  <2>2. ASSUME NEW k \in Logins, NEW s \in Sessions, StartReauthentication(s, k)
        PROVE  logins'[l] = logins[l]
    BY <1>t, <2>2 DEF StartReauthentication
  <2>3. ASSUME NEW w \in Workers, NEW k \in Logins, NEW i \in Identities, ConsumeLogin(w, k, i)
        PROVE  logins'[l] \in {logins[l], Consumed}
    BY <1>t, <2>3 DEF ConsumeLogin
  <2>4. Consumed.status = "consumed"
    BY DEF Consumed
  <2>5. CASE UNCHANGED logins
    BY <2>5
  <2> QED BY <1>1, <2>1, <2>2, <2>3, <2>4, <2>5
          DEF SignInStep, Logout, FindAccount, IssueSession, SignUp, RotateSession, tables
<1>2. CASE WriteStep
  BY <1>2 DEF WriteStep, BeginMember, Begin, BeginFollow, Write, Follow, UpdateProfile, tables
<1>3. CASE DeleteStep
  <2>1. ASSUME NEW w \in Workers, DeleteAccount(w)
        PROVE  logins'[l].status = "consumed"
    BY <2>1 DEF DeleteAccount, Unprompted, Consumed
  <2> QED BY <1>3, <2>1 DEF DeleteStep, BeginDelete, Begin, LockIdentities, LockSessions, tables
<1>4. CASE \E w \in Workers : Acquire(w) \/ Rollback(w)
  BY <1>4 DEF Acquire, Rollback, tables
<1> QED BY <1>1, <1>2, <1>3, <1>4 DEF Next, vars, tables

\* A request that answers a callback has consumed its login in this step or before.
LEMMA SignInRequest ==
    ASSUME Inductive, [Next]_vars, NEW w \in Workers, tx'[w].op \in SignIns
    PROVE  \/ tx[w].op \in SignIns /\ tx'[w].login = tx[w].login
           \/ \E l \in Logins, i \in Identities : ConsumeLogin(w, l, i) /\ tx'[w].login = l
<1>t. tx \in [Workers -> Tx]
  BY DEF Inductive, TypeOK
<1>1. CASE tx'[w] = NoTx
  BY <1>1 DEF NoTx, SignIns
<1>2. ASSUME NEW l \in Logins, NEW i \in Identities, ConsumeLogin(w, l, i)
      PROVE  tx'[w].login = l
  <2> DEFINE b == logins[l].bound
             op == IF b = None THEN "signin" ELSE "rotate"
             wants == IF b = None THEN <<<<"identity", i>>>>
                      ELSE <<<<"identity", i>>, <<"session", b>>, User(OfSession(b))>>
             t == [NoTx EXCEPT !.op = op, !.login = l, !.other = i, !.session = b, !.wants = wants]
  <2>1. tx'[w] = t
    BY <1>2, <1>t DEF ConsumeLogin
  <2>2. t.login = l
    <3> HIDE DEF op, wants, b
    <3> QED BY DEF NoTx
  <2> QED BY <2>1, <2>2
<1>3. CASE FindAccount(w)
  BY <1>3, <1>t DEF FindAccount, Ready, SignIns, Tx
<1>4. ASSUME NEW s \in Sessions, NEW op \in Operations, NEW other, NEW locks,
             BeginMember(w, op, s, other, locks)
      PROVE  FALSE
  <2> DEFINE wants == TouchLock(op, s) \o locks
             t == [NoTx EXCEPT !.op = op, !.account = OfSession(s), !.other = other, !.wants = wants]
  <2>1. tx'[w] = t
    BY <1>4, <1>t DEF BeginMember, Begin
  <2>2. t.op = op
    <3> HIDE DEF wants
    <3> QED BY DEF NoTx
  <2> QED BY <2>1, <2>2 DEF SignIns, Operations
<1>5. ASSUME NEW s \in Sessions, BeginDelete(w, s)
      PROVE  FALSE
  BY <1>5, <1>t DEF BeginDelete, Begin, NoTx, SignIns
<1>6. CASE LockIdentities(w)
  BY <1>6, <1>t DEF LockIdentities, Ready, SignIns, Tx
<1>7. CASE LockSessions(w)
  <2>1. PICK wants : tx' = [tx EXCEPT ![w].op = "purge", ![w].wants = wants]
    BY <1>7 DEF LockSessions
  <2>2. tx'[w].op = "purge"
    BY <1>t, <2>1 DEF Tx
  <2> QED BY <2>2 DEF SignIns
<1>8. CASE Acquire(w)
  BY <1>8, AcquireKnows, <1>t DEF Acquire, Tx
<1>9. ASSUME NEW s \in Sessions, NEW c \in Accounts, BeginFollow(w, s, c)
      PROVE  FALSE
  BY <1>4, <1>9 DEF BeginFollow, Operations
<1>10. ASSUME NEW s \in Sessions, BeginMember(w, "profile", s, None, <<User(OfSession(s))>>)
       PROVE  FALSE
  BY <1>4, <1>10 DEF Operations
<1> QED BY <1>1, <1>2, <1>3, <1>5, <1>6, <1>7, <1>8, <1>9, <1>10, OwnStep

\* A login that is still on its way to a session has given none yet.
LEMMA LoginInvPreserved == Inductive /\ [Next]_vars => LoginInv'
<1> SUFFICES ASSUME Inductive, [Next]_vars PROVE LoginInv'
  OBVIOUS
<1>t. LoginInv /\ RequestInv /\ logins \in [Logins -> Login]
  BY DEF Inductive, TypeOK
<1>l. \A w \in Workers : tx[w].op \in SignIns => tx[w].login \in Logins
  BY <1>t DEF RequestInv, SignInKnows
<1>c. ASSUME NEW w \in Workers, NEW l \in Logins, NEW i \in Identities, ConsumeLogin(w, l, i)
      PROVE  /\ logins[l].status = "open" /\ logins'[l].status = "consumed"
             /\ UNCHANGED sessions
             /\ \A o \in Workers \ {w} : tx'[o] = tx[o]
  <2>1. logins[l].status = "open" /\ UNCHANGED sessions
    BY <1>c DEF ConsumeLogin
  <2>2. logins'[l].status = "consumed"
    BY <1>c, <1>t DEF ConsumeLogin, Consumed
  <2>3. \A o \in Workers \ {w} : tx'[o] = tx[o]
    BY <1>c DEF ConsumeLogin, Inductive, TypeOK
  <2> QED BY <2>1, <2>2, <2>3
\* What a step makes the logins of the sessions be.
<1>n. ASSUME NEW w \in Workers, NEW r \in Sessions, NewRow(w, r)
      PROVE  \A s \in Sessions :
               /\ sessions'[s].via \in {sessions[s].via, tx[w].login}
               /\ \E b \in Sessions : sessions'[s].root \in {sessions[b].root, tx[w].login}
  <2>1. \A s \in Sessions \ {r} : sessions'[s].via = sessions[s].via
                                  /\ sessions'[s].root = sessions[s].root
    BY <1>n DEF NewRow
  <2>2. sessions'[r].via = tx[w].login
    BY <1>n DEF NewRow
  <2>3. \E b \in Sessions : sessions'[r].root \in {sessions[b].root, tx[w].login}
    BY <1>n DEF NewRow
  <2> QED BY <2>1, <2>2, <2>3
<1>o. ASSUME \A s \in Sessions : OldRow(s)
      PROVE  \A s \in Sessions : sessions'[s].via = sessions[s].via
                                 /\ sessions'[s].root = sessions[s].root
  BY <1>o DEF OldRow
<1>w. ASSUME NEW w \in Workers, NEW r \in Sessions, NewRow(w, r)
      PROVE  tx[w].op \in SignIns /\ tx'[w].op \notin SignIns
  BY <1>w DEF NewRow, Ready, SignIns, NoTx
<1>1. ASSUME NEW w \in Workers, tx'[w].op \in SignIns
      PROVE  /\ logins'[tx'[w].login].status = "consumed"
             /\ \A s \in Sessions : tx'[w].login \notin {sessions'[s].via, sessions'[s].root}
  <2>1. CASE tx[w].op \in SignIns /\ tx'[w].login = tx[w].login
    <3>1. logins'[tx'[w].login].status = "consumed"
      BY <1>l, <1>t, <2>1, ConsumedForGood DEF LoginInv
    <3>2. ASSUME NEW v \in Workers, NEW r \in Sessions, NewRow(v, r)
          PROVE  \A s \in Sessions : tx[w].login \notin {sessions'[s].via, sessions'[s].root}
      <4>1. v # w /\ tx[v].op \in SignIns
        BY <1>1, <1>w, <3>2
      <4>2. tx[v].login # tx[w].login
        BY <1>t, <2>1, <4>1 DEF LoginInv
      <4>3. \A s \in Sessions : tx[w].login \notin {sessions[s].via, sessions[s].root}
        BY <1>t, <2>1 DEF LoginInv
      <4> QED BY <1>n, <3>2, <4>2, <4>3
    <3>3. ASSUME \A s \in Sessions : OldRow(s)
          PROVE  \A s \in Sessions : tx[w].login \notin {sessions'[s].via, sessions'[s].root}
      BY <1>o, <1>t, <2>1, <3>3 DEF LoginInv
    <3> QED BY <2>1, <3>1, <3>2, <3>3, SessionStep
  <2>2. ASSUME NEW l \in Logins, NEW i \in Identities, ConsumeLogin(w, l, i), tx'[w].login = l
        PROVE  /\ logins'[tx'[w].login].status = "consumed"
               /\ \A s \in Sessions : tx'[w].login \notin {sessions'[s].via, sessions'[s].root}
    BY <1>c, <1>t, <2>2 DEF LoginInv
  <2> QED BY <1>1, <2>1, <2>2, SignInRequest
<1>2. ASSUME NEW w \in Workers, NEW o \in Workers \ {w}, tx'[w].op \in SignIns, tx'[o].op \in SignIns
      PROVE  tx'[o].login # tx'[w].login
  <2>1. ASSUME NEW v \in Workers, NEW u \in Workers \ {v}, NEW l \in Logins, NEW i \in Identities,
               ConsumeLogin(v, l, i), tx'[v].login = l, tx'[u].op \in SignIns
        PROVE  tx'[u].login # l
    <3>1. tx[u].op \in SignIns /\ tx'[u].login = tx[u].login
      BY <1>c, <2>1
    <3>2. logins[tx[u].login].status = "consumed"
      BY <1>t, <3>1 DEF LoginInv
    <3> QED BY <1>c, <2>1, <3>1, <3>2
  <2>2. CASE /\ tx[w].op \in SignIns /\ tx'[w].login = tx[w].login
             /\ tx[o].op \in SignIns /\ tx'[o].login = tx[o].login
    BY <1>t, <2>2 DEF LoginInv
  <2> QED BY <1>2, <2>1, <2>2, SignInRequest
<1>3. ASSUME NEW s \in Sessions, NEW l \in Logins, l \in {sessions'[s].via, sessions'[s].root}
      PROVE  logins'[l].status = "consumed"
  <2>1. ASSUME NEW w \in Workers, NEW r \in Sessions, NewRow(w, r)
        PROVE  logins[l].status = "consumed"
    <3>1. \/ l = tx[w].login
          \/ \E b \in Sessions : l \in {sessions[b].via, sessions[b].root}
      BY <1>3, <1>n, <2>1
    <3> QED BY <1>t, <1>w, <2>1, <3>1 DEF LoginInv
  <2>2. CASE \A r \in Sessions : OldRow(r)
    BY <1>3, <1>o, <1>t, <2>2, ConsumedForGood DEF LoginInv
  <2> QED BY <2>1, <2>2, SessionStep, ConsumedForGood
<1> QED BY <1>1, <1>2, <1>3 DEF LoginInv

\* A login gives one session and a sign-in has one live session.
LEMMA SessionsDifferPreserved == Inductive /\ [Next]_vars => SessionsDiffer'
<1> SUFFICES ASSUME Inductive, [Next]_vars PROVE SessionsDiffer'
  OBVIOUS
<1>t. LoginInv /\ SessionsDiffer
  BY DEF Inductive
<1>1. CASE \A s \in Sessions : OldRow(s)
  <2>1. \A s \in Sessions :
          /\ sessions'[s].via = sessions[s].via /\ sessions'[s].root = sessions[s].root
          /\ sessions'[s].status = "live" => sessions[s].status = "live"
    BY <1>1 DEF OldRow
  <2> QED BY <1>t, <2>1 DEF SessionsDiffer
<1>2. ASSUME NEW w \in Workers, NEW r \in Sessions, NewRow(w, r)
      PROVE  SessionsDiffer'
  <2>1. tx[w].op \in SignIns
    BY <1>2 DEF NewRow, Ready, SignIns
  <2>2. \A s \in Sessions : tx[w].login \notin {sessions[s].via, sessions[s].root}
    BY <1>t, <2>1 DEF LoginInv
  <2>3. /\ sessions'[r].via = tx[w].login
        /\ \A s \in Sessions \ {r} : sessions'[s].via = sessions[s].via
                                     /\ sessions'[s].root = sessions[s].root
    BY <1>2 DEF NewRow
  <2>4. \A s \in Sessions \ {r} : sessions'[s].status = "live" => sessions[s].status = "live"
    BY <1>2 DEF NewRow
  <2>5. \A s \in Sessions \ {r} :
          sessions'[s].status = "live" /\ sessions'[s].root \in Logins
            => sessions'[s].root # sessions'[r].root
    <3>1. CASE sessions'[r].root = tx[w].login
      BY <2>2, <2>3, <3>1
    <3>2. ASSUME NEW b \in Sessions \ {r}, sessions[b].status = "live",
                 sessions'[b].status = "revoked", sessions'[r].root = sessions[b].root
          PROVE  \A s \in Sessions \ {r} :
                   sessions'[s].status = "live" /\ sessions'[s].root \in Logins
                     => sessions'[s].root # sessions'[r].root
      <4> SUFFICES ASSUME NEW s \in Sessions \ {r}, sessions'[s].status = "live",
                          sessions'[s].root \in Logins
                   PROVE  sessions'[s].root # sessions[b].root
        BY <3>2
      <4>1. s # b /\ sessions[s].status = "live" /\ sessions'[s].root = sessions[s].root
        BY <2>3, <2>4, <3>2
      <4> QED BY <1>t, <3>2, <4>1 DEF SessionsDiffer
    <3> QED BY <1>2, <3>1, <3>2 DEF NewRow
  <2> QED BY <1>t, <2>2, <2>3, <2>4, <2>5 DEF SessionsDiffer
<1> QED BY <1>1, <1>2, SessionStep

-----------------------------------------------------------------------------
(* Personal data *)

\* What it takes for nothing of an account to be kept.
KeepsNothing(a) ==
    /\ a \notin named /\ a \notin owns
    /\ \A i \in Identities : identity[i] # a
    /\ \A s \in Sessions : sessions[s].account # a
    /\ \A e \in follows : a \notin {e[1], e[2]}

\* Nothing is kept of an account exactly when none of the tables refers to it.
LEMMA KeptNothing ==
    TypeOK /\ SessionInv => \A a \in Accounts : Kept(a) = {} <=> KeepsNothing(a)
<1> SUFFICES ASSUME TypeOK, SessionInv, NEW a \in Accounts PROVE Kept(a) = {} <=> KeepsNothing(a)
  OBVIOUS
<1>1. Rows(a) = {} <=> \A s \in Sessions : sessions[s].account # a
  BY NoneAssumption DEF Rows, SessionInv
<1>2. ASSUME \A s \in Sessions : sessions[s].account # a
      PROVE  ~\E l \in Logins : /\ logins[l].status = "open" /\ logins[l].bound # None
                                /\ OfSession(logins[l].bound) = a
  BY <1>2 DEF TypeOK, Login, OfSession
<1>3. ASSUME KeepsNothing(a) PROVE Kept(a) = {}
  <2> SUFFICES ASSUME NEW k \in Kept(a) PROVE FALSE
    OBVIOUS
  <2>1. k \in Kinds
    BY DEF Kept
  <2>2. CASE k = "handle"
    BY <1>3, <2>2 DEF Kept, KeepsNothing
  <2>3. CASE k = "identity"
    BY <1>3, <2>3 DEF Kept, KeepsNothing
  <2>4. CASE k = "session"
    BY <1>1, <1>3, <2>4 DEF Kept, KeepsNothing
  <2>5. CASE k = "reauthentication"
    BY <1>2, <1>3, <2>5 DEF Kept, KeepsNothing
  <2>6. CASE k = "private rows"
    BY <1>3, <2>6 DEF Kept, KeepsNothing
  <2>7. CASE k = "follow"
    BY <1>3, <2>7 DEF Kept, KeepsNothing
  <2> QED BY <2>1, <2>2, <2>3, <2>4, <2>5, <2>6, <2>7 DEF Kinds
<1>4. ASSUME Kept(a) = {} PROVE KeepsNothing(a)
  <2>1. a \notin named
    <3>1. "handle" \notin Kept(a)
      BY <1>4
    <3> QED BY <3>1 DEF Kept, Kinds
  <2>2. \A i \in Identities : identity[i] # a
    <3>1. "identity" \notin Kept(a)
      BY <1>4
    <3> QED BY <3>1 DEF Kept, Kinds
  <2>3. \A s \in Sessions : sessions[s].account # a
    <3>1. "session" \notin Kept(a)
      BY <1>4
    <3> QED BY <1>1, <3>1 DEF Kept, Kinds
  <2>4. a \notin owns
    <3>1. "private rows" \notin Kept(a)
      BY <1>4
    <3> QED BY <3>1 DEF Kept, Kinds
  <2>5. \A e \in follows : a \notin {e[1], e[2]}
    <3>1. "follow" \notin Kept(a)
      BY <1>4
    <3> QED BY <3>1 DEF Kept, Kinds
  <2> QED BY <2>1, <2>2, <2>3, <2>4, <2>5 DEF KeepsNothing
<1> QED BY <1>3, <1>4

\* The account of a new session is active.
LEMMA NewSessionIsActive ==
    ASSUME Inductive, [Next]_vars, NEW w \in Workers, NEW s \in Sessions, NewRow(w, s)
    PROVE  life'[sessions'[s].account] = "active"
<1>t. /\ sessions \in [Sessions -> Session] /\ tx \in [Workers -> Tx]
      /\ life \in [Accounts -> {"none", "active", "deleted"}]
      /\ SessionInv /\ RequestInv
  BY DEF Inductive, TypeOK
<1>r. sessions[s].status = "free" /\ sessions'[s].status = "live"
  BY DEF NewRow
<1>1. ASSUME NEW o \in Workers, NEW r \in Sessions, NEW recent \in BOOLEAN, IssueSession(o, r, recent)
      PROVE  life'[sessions'[s].account] = "active"
  <2> DEFINE a == tx[o].account
  <2>1. /\ life' = life /\ a # None /\ tx[o].op = "issue"
        /\ sessions' = NewSession(r, a, tx[o].login, tx[o].login, recent)
    BY <1>1 DEF IssueSession, Ready
  <2>2. life[a] = "active"
    BY <1>t, <2>1 DEF RequestInv, SignInKnows
  <2>3. s = r
    BY <1>r, <1>t, <2>1 DEF NewSession
  <2>4. sessions'[s].account = a
    BY <1>t, <2>1, <2>3 DEF NewSession
  <2> QED BY <2>1, <2>2, <2>4
<1>2. ASSUME NEW o \in Workers, NEW r \in Sessions, NEW a \in Accounts, NEW recent \in BOOLEAN,
             SignUp(o, r, a, recent)
      PROVE  life'[sessions'[s].account] = "active"
  <2>1. /\ life' = [life EXCEPT ![a] = "active"]
        /\ sessions' = NewSession(r, a, tx[o].login, tx[o].login, recent)
    BY <1>2 DEF SignUp
  <2>2. s = r
    BY <1>r, <1>t, <2>1 DEF NewSession
  <2>3. sessions'[s].account = a
    BY <1>t, <2>1, <2>2 DEF NewSession
  <2> QED BY <1>t, <2>1, <2>3
<1>3. ASSUME NEW o \in Workers, NEW r \in Sessions, RotateSession(o, r)
      PROVE  life'[sessions'[s].account] = "active"
  <2> DEFINE b == tx[o].session
             new == NewSession(r, OfSession(b), tx[o].login, sessions[b].root, TRUE)
  <2>1. /\ life' = life /\ life[OfSession(b)] = "active" /\ sessions' = [new EXCEPT ![b] = Revoked(b)]
        /\ sessions[b].status = "live"
    BY <1>3 DEF RotateSession, Live, OfSession
  <2>2. b \in Sessions /\ b # s
    BY <1>3, <1>r, <1>t, <2>1 DEF RotateSession, Ready, RequestInv, SignInKnows
  <2>3. sessions'[s] = new[s]
    <3>1. DOMAIN new = Sessions
      BY <1>t DEF NewSession
    <3> HIDE DEF new, b
    <3> QED BY <2>1, <2>2, <3>1
  <2>4. new[s].status = "live"
    BY <1>r, <2>3
  <2>5. s = r
    <3> HIDE DEF b
    <3> QED BY <1>r, <1>t, <2>4 DEF NewSession
  <2>6. sessions'[s].account = OfSession(b)
    <3> HIDE DEF b
    <3> QED BY <1>t, <2>3, <2>5 DEF NewSession
  <2> QED BY <2>1, <2>6
<1>4. CASE UNCHANGED sessions
  BY <1>r, <1>4
<1>5. ASSUME NEW r \in Sessions, Logout(r)
      PROVE  FALSE
  BY <1>5, <1>r, <1>t DEF Logout, Revoked, Session
<1>6. ASSUME NEW o \in Workers, DeleteAccount(o)
      PROVE  FALSE
  BY <1>6, <1>r, <1>t DEF DeleteAccount, Erased, Session
<1>7. CASE SignInStep
  BY <1>1, <1>2, <1>3, <1>4, <1>5, <1>7
     DEF SignInStep, StartLogin, StartReauthentication, ConsumeLogin, FindAccount, tables
<1>8. CASE WriteStep
  BY <1>4, <1>8 DEF WriteStep, BeginMember, Begin, BeginFollow, Write, Follow, UpdateProfile, tables
<1>9. CASE DeleteStep
  BY <1>4, <1>6, <1>9 DEF DeleteStep, BeginDelete, Begin, LockIdentities, LockSessions, tables
<1>10. CASE \E o \in Workers : Acquire(o) \/ Rollback(o)
  BY <1>4, <1>10 DEF Acquire, Rollback, tables
<1> QED BY <1>4, <1>7, <1>8, <1>9, <1>10 DEF Next, vars, tables

\* No session comes to belong to an account that is not active.
LEMMA SessionsOfActive ==
    ASSUME Inductive, [Next]_vars, NEW a \in Accounts, life'[a] # "active",
           \A s \in Sessions : sessions[s].account # a
    PROVE  \A s \in Sessions : sessions'[s].account # a
<1> USE NoneAssumption
<1>1. ASSUME NEW w \in Workers, NEW r \in Sessions, NewRow(w, r)
      PROVE  \A s \in Sessions : sessions'[s].account # a
  <2>1. sessions'[r].account # a
    BY <1>1, NewSessionIsActive
  <2>2. \A s \in Sessions \ {r} : sessions'[s].account = sessions[s].account
    BY <1>1 DEF NewRow
  <2> QED BY <2>1, <2>2
<1>2. ASSUME \A s \in Sessions : OldRow(s)
      PROVE  \A s \in Sessions : sessions'[s].account # a
  BY <1>2 DEF OldRow
<1> QED BY <1>1, <1>2, SessionStep

\* What a handler adds to the tables, it adds for active accounts.
LEMMA KeepsNothingPreserved ==
    ASSUME Inductive, [Next]_vars, NEW a \in Accounts, life'[a] # "active",
           life[a] # "active" => KeepsNothing(a)
    PROVE  KeepsNothing(a)'
<1> USE NoneAssumption
<1>t. TypeOK /\ SessionInv /\ RequestInv
  BY DEF Inductive
<1>a. ASSUME KeepsNothing(a), UNCHANGED <<named, owns, identity, follows>>
      PROVE  KeepsNothing(a)'
  BY <1>a, SessionsOfActive DEF KeepsNothing
<1>1. CASE SignInStep
  <2>1. ASSUME NEW w \in Workers, NEW s \in Sessions, NEW b \in Accounts, NEW recent \in BOOLEAN,
               SignUp(w, s, b, recent)
        PROVE  KeepsNothing(a)'
    <3>1. a # b /\ life[a] # "active"
      BY <1>t, <2>1 DEF SignUp, TypeOK
    <3>2. \A i \in Identities : identity'[i] \in {identity[i], b}
      BY <1>t, <2>1 DEF SignUp, TypeOK
    <3>3. UNCHANGED <<named, owns, follows>>
      BY <2>1 DEF SignUp
    <3> QED BY <3>1, <3>2, <3>3, SessionsOfActive DEF KeepsNothing
  <2>2. CASE UNCHANGED <<life, named, owns, identity, follows>>
    BY <1>a, <2>2
  <2> QED BY <1>1, <2>1, <2>2 DEF SignInStep, StartLogin, StartReauthentication, Logout,
          ConsumeLogin, FindAccount, IssueSession, RotateSession, tables
<1>2. CASE WriteStep
  <2>1. ASSUME NEW s \in Sessions, Write(s)
        PROVE  KeepsNothing(a)'
    <3>1. life' = life /\ Active(OfSession(s)) /\ owns' \subseteq owns \cup {OfSession(s)}
      BY <2>1 DEF Write
    <3>2. a \notin owns'
      BY <3>1 DEF Active, KeepsNothing
    <3> QED BY <2>1, <3>1, <3>2, SessionsOfActive DEF Write, KeepsNothing
  <2>2. ASSUME NEW w \in Workers, Follow(w)
        PROVE  KeepsNothing(a)'
    <3> DEFINE p == tx[w].account
               q == tx[w].other
    <3>1. life' = life /\ Active(p) /\ Active(q) /\ follows' \subseteq follows \cup {<<p, q>>}
      BY <2>2 DEF Follow
    <3>2. a \notin {p, q} /\ KeepsNothing(a)
      BY <3>1 DEF Active
    <3>3. \A e \in follows' : a \notin {e[1], e[2]}
      BY <3>1, <3>2 DEF KeepsNothing
    <3> QED BY <2>2, <3>2, <3>3, SessionsOfActive DEF Follow, KeepsNothing
  <2>3. ASSUME NEW w \in Workers, UpdateProfile(w)
        PROVE  KeepsNothing(a)'
    <3>1. life' = life /\ a \notin named'
      BY <2>3 DEF UpdateProfile
    <3> QED BY <2>3, <3>1, SessionsOfActive DEF UpdateProfile, KeepsNothing
  <2>4. CASE UNCHANGED <<life, named, owns, identity, follows>>
    BY <1>a, <2>4
  <2> QED BY <1>2, <2>1, <2>2, <2>3, <2>4 DEF WriteStep, BeginMember, Begin, BeginFollow, tables
<1>3. CASE DeleteStep
  <2>1. ASSUME NEW w \in Workers, DeleteAccount(w)
        PROVE  KeepsNothing(a)'
    <3> DEFINE b == tx[w].account
    <3>1. b \in Accounts /\ life' = [life EXCEPT ![b] = "deleted"]
      BY <1>t, <2>1 DEF DeleteAccount, Ready, RequestInv, DeletionKnows, Deletions
    <3>2. /\ named' = named \ {b} /\ owns' = owns \ {b}
          /\ follows' = Unfollowed(b)
          /\ \A i \in Identities : identity'[i] = IF identity[i] = b THEN None ELSE identity[i]
          /\ \A s \in Sessions : sessions'[s] = IF s \in Rows(b) THEN Erased(s) ELSE sessions[s]
      BY <2>1 DEF DeleteAccount
    <3>3. CASE a = b
      <4>1. \A s \in Sessions : s \in Rows(b) => sessions'[s].account = None
        <5>1. \A s \in Sessions : Erased(s).account = None
          BY <1>t DEF Erased, TypeOK, Session
        <5> QED BY <3>2, <5>1
      <4>2. \A s \in Sessions : s \notin Rows(b) => sessions[s].account # b
        BY <1>t, <3>1 DEF Rows, SessionInv
      <4>3. \A s \in Sessions : sessions'[s].account # a
        BY <3>2, <3>3, <4>1, <4>2
      <4> QED BY <3>2, <3>3, <4>3 DEF KeepsNothing, Unfollowed
    <3>4. CASE a # b
      <4>1. KeepsNothing(a)
        BY <1>t, <3>1, <3>4 DEF TypeOK
      <4>2. \A s \in Sessions : sessions'[s].account # a
        BY <4>1, SessionsOfActive DEF KeepsNothing
      <4> QED BY <3>2, <4>1, <4>2 DEF KeepsNothing, Unfollowed
    <3> QED BY <3>3, <3>4
  <2>2. CASE UNCHANGED <<life, named, owns, identity, follows>>
    BY <1>a, <2>2
  <2> QED BY <1>3, <2>1, <2>2 DEF DeleteStep, BeginDelete, Begin, LockIdentities, LockSessions, tables
<1>4. CASE UNCHANGED tables
  BY <1>a, <1>4 DEF tables
<1> QED BY <1>1, <1>2, <1>3, <1>4 DEF Next, vars, Acquire, Rollback

\* No handler leaves or brings personal data of an account that is not active.
LEMMA NothingKeptPreserved == Inductive /\ [Next]_vars => NothingKept'
<1> SUFFICES ASSUME Inductive, [Next]_vars PROVE NothingKept'
  OBVIOUS
<1>1. TypeOK' /\ SessionInv'
  BY TypePreserved, SessionInvPreserved
<1>2. (TypeOK /\ SessionInv => \A a \in Accounts : Kept(a) = {} <=> KeepsNothing(a))'
  BY KeptNothing, PTL
<1>3. \A a \in Accounts : life[a] # "active" => KeepsNothing(a)
  BY KeptNothing DEF Inductive, NothingKept
<1>4. \A a \in Accounts : life'[a] # "active" => KeepsNothing(a)'
  BY <1>3, KeepsNothingPreserved
<1> QED BY <1>1, <1>2, <1>4 DEF NothingKept

-----------------------------------------------------------------------------
(* The theorems *)

\* A database without members satisfies the inductive invariant.
LEMMA InductiveInit == Init => Inductive
<1> SUFFICES ASSUME Init PROVE Inductive
  OBVIOUS
<1> USE NoneAssumption
<1>1. NoTx \in Tx /\ NoSession \in Session
  BY DEF NoTx, Tx, NoSession, Session
<1>2. TypeOK
  BY <1>1 DEF Init, TypeOK, Login
<1>3. \A s \in Sessions : /\ sessions[s].status = "free" /\ sessions[s].account = None
                          /\ sessions[s].via = None /\ sessions[s].root = None
  BY DEF Init, NoSession
<1>4. \A w \in Workers : tx[w].op = "idle" /\ tx[w].held = {}
  BY DEF Init, NoTx
<1>5. SessionInv /\ SessionsDiffer
  BY <1>3 DEF SessionInv, SessionsDiffer
<1>6. Exclusive
  BY <1>4 DEF Exclusive
<1>7. RequestInv
  BY <1>4 DEF RequestInv, SignInKnows, DeletionKnows, SignIns, Deletions, Operations
<1>8. LoginInv
  BY <1>3, <1>4 DEF LoginInv, SignIns
<1>9. \A a \in Accounts : KeepsNothing(a)
  BY <1>3 DEF KeepsNothing, Init
<1>10. NothingKept
  BY <1>2, <1>5, <1>9, KeptNothing DEF NothingKept
<1> QED BY <1>2, <1>5, <1>6, <1>7, <1>8, <1>10 DEF Inductive

\* Every handler preserves the inductive invariant.
LEMMA InductiveStep == Inductive /\ [Next]_vars => Inductive'
BY TypePreserved, SessionInvPreserved, ExclusivePreserved, RequestInvPreserved,
   LoginInvPreserved, SessionsDifferPreserved, NothingKeptPreserved DEF Inductive

\* Every reachable state of every instance satisfies the inductive invariant.
THEOREM Invariance == Spec => []Inductive
BY InductiveInit, InductiveStep, PTL DEF Spec

\* Every table keeps the types of its columns, through every handler.
THEOREM TypeCorrect == Spec => []TypeOK
<1>1. Inductive => TypeOK
  BY DEF Inductive
<1> QED BY Invariance, <1>1, PTL

\* A login state yields at most one session, however often its callback arrives and
\* however the requests that answer it interleave.
THEOREM CallbacksAnswerOnce == Spec => []OneSessionPerCallback
<1>1. Inductive => OneSessionPerCallback
  <2> SUFFICES ASSUME Inductive, NEW l \in Logins
               PROVE  Cardinality({s \in Sessions : sessions[s].via = l}) <= 1
    BY DEF OneSessionPerCallback
  <2> DEFINE S == {s \in Sessions : sessions[s].via = l}
  <2>1. \A s, t \in S : s = t
    BY DEF Inductive, SessionsDiffer
  <2> HIDE DEF S
  <2>2. Cardinality(S) <= 1
    BY <2>1, AtMostOne
  <2> QED BY <2>2 DEF S
<1> QED BY Invariance, <1>1, PTL

\* A sign-in has at most one live session after every step, and a sign-in that has
\* lost its last one gets no other.
THEOREM LostSignInsStayLost == Spec => SignInsEndForGood
<1>1. Inductive /\ Inductive' /\ [Next]_vars =>
        [\A l \in Logins :
            /\ Cardinality(Line(l)') <= 1
            /\ Line(l) = {} /\ (\E s \in Sessions : sessions[s].root = l) => Line(l)' = {}]_vars
  <2> SUFFICES ASSUME Inductive, Inductive', [Next]_vars, NEW l \in Logins
               PROVE  /\ Cardinality(Line(l)') <= 1
                      /\ Line(l) = {} /\ (\E s \in Sessions : sessions[s].root = l) => Line(l)' = {}
    OBVIOUS
  <2>1. Cardinality(Line(l)') <= 1
    <3> DEFINE S == {s \in Sessions : sessions'[s].status = "live" /\ sessions'[s].root = l}
    <3>1. \A s, t \in S : s = t
      BY DEF Inductive, SessionsDiffer
    <3> HIDE DEF S
    <3>2. Cardinality(S) <= 1
      BY <3>1, AtMostOne
    <3> QED BY <3>2 DEF Line, S
  <2>2. ASSUME Line(l) = {}, NEW r \in Sessions, sessions[r].root = l
        PROVE  Line(l)' = {}
    <3>1. SUFFICES ASSUME NEW s \in Sessions, sessions'[s].status = "live", sessions'[s].root = l
                   PROVE  FALSE
      BY DEF Line
    <3>2. ~(sessions[s].status = "live" /\ sessions[s].root = l)
      BY <2>2 DEF Line
    <3>3. CASE \A b \in Sessions : OldRow(b)
      BY <3>1, <3>2, <3>3 DEF OldRow
    <3>4. ASSUME NEW w \in Workers, NEW t \in Sessions, NewRow(w, t)
          PROVE  FALSE
      <4>1. tx[w].login # l
        <5>1. tx[w].op \in SignIns
          BY <3>4 DEF NewRow, Ready, SignIns
        <5> QED BY <2>2, <5>1 DEF Inductive, LoginInv
      <4>2. s = t
        BY <3>1, <3>2, <3>4 DEF NewRow
      <4>3. PICK b \in Sessions : sessions[b].status = "live" /\ sessions[b].root = l
        BY <3>1, <3>4, <4>1, <4>2 DEF NewRow
      <4> QED BY <2>2, <4>3 DEF Line
    <3> QED BY <3>3, <3>4, SessionStep
  <2> QED BY <2>1, <2>2
<1> QED BY Invariance, <1>1, PTL DEF Spec, SignInsEndForGood

\* A sign-up adds to what its own account keeps and to no other's.
LEMMA SignUpKeeps ==
    ASSUME Inductive, Inductive', NEW w \in Workers, NEW s \in Sessions, NEW a \in Accounts,
           NEW recent \in BOOLEAN, SignUp(w, s, a, recent), NEW b \in Accounts \ {a}
    PROVE  Kept(b)' = Kept(b)
<1> USE NoneAssumption
<1>t. TypeOK /\ SessionInv /\ RequestInv
  BY DEF Inductive
<1> DEFINE i == tx[w].other
<1>1. i \in Identities /\ identity[i] = None
  BY <1>t DEF SignUp, Ready, RequestInv, SignInKnows, SignIns
<1>2. UNCHANGED <<named, owns, logins, follows>>
  BY DEF SignUp
<1>3. identity' = [identity EXCEPT ![i] = a]
  BY DEF SignUp
<1>4. /\ sessions[s].account = None /\ sessions'[s].account = a
      /\ \A r \in Sessions \ {s} : sessions'[r] = sessions[r]
  BY <1>t DEF SignUp, NewSession, SessionInv, TypeOK
<1>5. (\E j \in Identities : identity[j] = b)' <=> \E j \in Identities : identity[j] = b
  BY <1>t, <1>1, <1>3 DEF TypeOK
<1>6. Rows(b)' = Rows(b)
  BY <1>4 DEF Rows
<1>7. ASSUME NEW l \in Logins, logins[l].bound # None
      PROVE  OfSession(logins[l].bound)' = b <=> OfSession(logins[l].bound) = b
  <2>1. logins[l].bound \in Sessions /\ logins[l].bound # s
    BY <1>t, <1>4, <1>7 DEF TypeOK, Login, OfSession
  <2> QED BY <1>2, <1>4, <2>1 DEF OfSession
<1>8. (\E l \in Logins : /\ logins[l].status = "open" /\ logins[l].bound # None
                         /\ OfSession(logins[l].bound) = b)'
        <=> \E l \in Logins : /\ logins[l].status = "open" /\ logins[l].bound # None
                              /\ OfSession(logins[l].bound) = b
  BY <1>2, <1>7
<1>9. ASSUME NEW k \in Kinds PROVE k \in Kept(b)' <=> k \in Kept(b)
  <2>1. CASE k = "handle"
    BY <1>2, <2>1 DEF Kept
  <2>2. CASE k = "identity"
    BY <1>5, <2>2 DEF Kept
  <2>3. CASE k = "session"
    BY <1>6, <2>3 DEF Kept
  <2>4. CASE k = "reauthentication"
    BY <1>8, <2>4 DEF Kept
  <2>5. CASE k = "private rows"
    BY <1>2, <2>5 DEF Kept
  <2>6. CASE k = "follow"
    BY <1>2, <2>6 DEF Kept
  <2> QED BY <2>1, <2>2, <2>3, <2>4, <2>5, <2>6 DEF Kinds
<1>10. Kept(b) \subseteq Kinds /\ Kept(b)' \subseteq Kinds
  BY DEF Kept, Kinds
<1> QED BY <1>9, <1>10

\* Every step of the handlers is a step of PersonalData: a member joins, leaves with
\* nothing kept, or something changes of what active members keep.
LEMMA DataStep ==
    ASSUME Inductive, Inductive', [Next]_vars
    PROVE  [Data!Next]_(Data!vars)
<1> DEFINE kept == [a \in Accounts |-> Kept(a)]
           kept1 == [a \in Accounts |-> Kept(a)']
<1>t. TypeOK /\ RequestInv /\ SessionInv /\ NothingKept /\ NothingKept' /\ TypeOK'
  BY DEF Inductive
<1>1. /\ kept \in [Accounts -> SUBSET Kinds] /\ kept1 \in [Accounts -> SUBSET Kinds]
  BY DEF Kept, Kinds
<1>2. \A a \in Accounts : /\ life[a] # "active" => kept[a] = {}
                          /\ life'[a] # "active" => kept1[a] = {}
  BY <1>t DEF NothingKept
<1>3. CASE life' = life
  <2>1. \A a \in Accounts : life[a] # "active" => kept1[a] = kept[a]
    BY <1>2, <1>3
  <2> QED BY <1>1, <1>3, <2>1 DEF Data!Next, Data!Change
<1>4. ASSUME NEW w \in Workers, NEW s \in Sessions, NEW a \in Accounts, NEW recent \in BOOLEAN,
             SignUp(w, s, a, recent)
      PROVE  Data!Join(a)
  <2>1. life[a] = "none" /\ life' = [life EXCEPT ![a] = "active"]
    BY <1>4 DEF SignUp
  <2>2. \A b \in Accounts \ {a} : Kept(b)' = Kept(b)
    BY <1>4, SignUpKeeps
  <2>3. Kept(a)' \in SUBSET Kinds
    BY DEF Kept, Kinds
  <2>4. kept1 = [kept EXCEPT ![a] = Kept(a)']
    BY <2>2
  <2> QED BY <2>1, <2>3, <2>4 DEF Data!Join
<1>5. ASSUME NEW w \in Workers, DeleteAccount(w)
      PROVE  \E a \in Accounts : Data!Leave(a)
  <2> DEFINE a == tx[w].account
             s == tx[w].session
  <2>1. /\ a \in Accounts /\ s \in Sessions /\ sessions[s].account \in {a, None}
        /\ Live(s) /\ life' = [life EXCEPT ![a] = "deleted"]
    BY <1>5, <1>t DEF DeleteAccount, Ready, RequestInv, DeletionKnows, Deletions
  <2>2. life[a] = "active" /\ life'[a] # "active"
    BY <1>t, <2>1 DEF Live, SessionInv, TypeOK
  <2>3. kept1[a] = {}
    BY <1>2, <2>1, <2>2
  <2>4. \A b \in Accounts \ {a} : life[b] # "active" => kept1[b] = kept[b]
    BY <1>2, <1>t, <2>1 DEF TypeOK
  <2> HIDE DEF a
  <2> QED BY <1>1, <2>1, <2>2, <2>3, <2>4 DEF Data!Leave
<1>6. Data!Next \/ UNCHANGED life
  BY <1>4, <1>5, AccountStep DEF Data!Next
<1> QED BY <1>3, <1>6

\* The handlers implement PersonalData: deletion erases a member's personal data in
\* one step and for good, whatever requests are in flight around it.
THEOREM KeepsPersonalDataPromise == Spec => ImplementsPersonalData
<1>1. Init => Data!Init
  <2> SUFFICES ASSUME Init PROVE Data!Init
    OBVIOUS
  <2>1. TypeOK /\ SessionInv /\ NothingKept
    BY InductiveInit DEF Inductive
  <2>2. \A a \in Accounts : life[a] # "active"
    BY DEF Init
  <2>3. \A a \in Accounts : Kept(a) = {}
    BY <2>1, <2>2 DEF NothingKept
  <2> QED BY <2>3 DEF Init, Data!Init
<1>2. Inductive /\ Inductive' /\ [Next]_vars => [Data!Next]_(Data!vars)
  BY DataStep
<1> QED BY Invariance, <1>1, <1>2, PTL DEF Spec, ImplementsPersonalData, Data!Spec

-----------------------------------------------------------------------------
(* The order of the locks *)

Life(a) == <<"life", a>>
Identity(i) == <<"identity", i>>
Row(s) == <<"session", s>>

\* How far each request has come with its locks, and what it holds while it waits.
SignInOrder(t) ==
    /\ t.op = "idle" => t.wants = <<>>
    /\ t.op = "signin" => \/ t.wants = <<Identity(t.other)>> /\ t.held = {}
                          \/ t.wants = <<>> /\ t.held = {Identity(t.other)}
    /\ t.op = "issue" => \/ t.wants = <<>>
                         \/ /\ t.held = {Identity(t.other)}
                            /\ \E u \in Accounts : t.wants = <<User(u)>>
    /\ t.op = "rotate" =>
         \/ t.wants = <<>>
         \/ \E u \in Accounts :
              \/ t.wants = <<Identity(t.other), Row(t.session), User(u)>> /\ t.held = {}
              \/ t.wants = <<Row(t.session), User(u)>> /\ t.held = {Identity(t.other)}
              \/ t.wants = <<User(u)>> /\ t.held = {Identity(t.other), Row(t.session)}

WriteOrder(t) ==
    /\ t.op = "profile" =>
         \/ t.wants = <<>>
         \/ \E s \in Sessions : \/ t.wants = <<Row(s), User(t.account)>> /\ t.held = {}
                                \/ t.wants = <<User(t.account)>> /\ t.held \subseteq {Row(s)}
    /\ t.op = "follow" =>
         \/ t.wants = <<>>
         \/ \E m, n \in Accounts :
              /\ m < n /\ t.account # t.other /\ {t.account, t.other} = {m, n}
              /\ \/ t.held = {} /\ t.wants = <<Life(m), Life(n), User(t.account), User(t.other)>>
                 \/ t.held = {Life(m)} /\ t.wants = <<Life(n), User(t.account), User(t.other)>>
                 \/ t.held = {Life(m), Life(n)} /\ t.wants = <<User(t.account), User(t.other)>>
                 \/ t.held = {Life(m), Life(n), User(t.account)} /\ t.wants = <<User(t.other)>>

IdentityLocks(a) == {Identity(i) : i \in {i \in Identities : identity[i] = a}}
RowLocks(a) == {Row(s) : s \in Rows(a)}

DeleteOrder(t) ==
    LET a == t.account IN
    /\ t.op = "delete" =>
         \/ t.wants = <<Life(a)>> /\ t.held = {}
         \/ /\ Life(a) \in t.held /\ t.held \subseteq {Life(a)} \cup IdentityLocks(a)
            /\ t.wants = <<>> \/ \E x \in IdentityLocks(a) : t.wants = <<x>>
    /\ t.op = "purge" =>
         /\ Life(a) \in t.held
         /\ t.wants # <<>> =>
              /\ t.held \subseteq {Life(a)} \cup IdentityLocks(a) \cup RowLocks(a)
              /\ t.wants[Len(t.wants)] = User(a)
              /\ \A n \in 1..(Len(t.wants) - 1) : t.wants[n] \in RowLocks(a)

OrderInv == \A w \in Workers : /\ SignInOrder(tx[w])
                               /\ WriteOrder(tx[w])
                               /\ DeleteOrder(tx[w])

\* The identities and the sessions of an account being deleted stay its own.
LEMMA LocksStay ==
    ASSUME Inductive, [Next]_vars, NEW v \in Workers, tx'[v] = tx[v],
           tx[v].op \in Deletions, Life(tx[v].account) \in tx[v].held,
           \A w \in Workers : tx[w].op = "purge" => Life(tx[w].account) \in tx[w].held
    PROVE  /\ IdentityLocks(tx[v].account) \subseteq IdentityLocks(tx[v].account)'
           /\ RowLocks(tx[v].account) \subseteq RowLocks(tx[v].account)'
<1> DEFINE a == tx[v].account
<1> USE NoneAssumption
<1>t. TypeOK /\ Exclusive /\ RequestInv /\ SessionInv
  BY DEF Inductive
<1>1. a \in Accounts
  BY <1>t DEF RequestInv, DeletionKnows
<1>2. ASSUME NEW w \in Workers, DeleteAccount(w) PROVE tx[w].account # a
  <2>1. tx[w].op = "purge" /\ tx'[w] = NoTx
    BY <1>2, <1>t DEF DeleteAccount, Ready, Done, TypeOK
  <2>2. w # v
    BY <2>1 DEF NoTx, Deletions
  <2> QED BY <1>t, <2>1, <2>2 DEF Exclusive
<1>3. ASSUME NEW i \in Identities, identity[i] = a PROVE identity'[i] = a
  <2>1. ASSUME NEW w \in Workers, NEW s \in Sessions, NEW b \in Accounts, NEW recent \in BOOLEAN,
               SignUp(w, s, b, recent)
        PROVE  identity'[i] = a
    <3>1. identity[tx[w].other] = None
      BY <1>t, <2>1 DEF SignUp, Ready, RequestInv, SignInKnows
    <3> QED BY <1>1, <1>3, <1>t, <2>1, <3>1 DEF SignUp, TypeOK
  <2>2. ASSUME NEW w \in Workers, DeleteAccount(w)
        PROVE  identity'[i] = a
    BY <1>2, <1>3, <2>2 DEF DeleteAccount
  <2> QED BY <1>3, <2>1, <2>2, AccountStep
<1>4. ASSUME NEW s \in Rows(a) PROVE s \in Rows(a)'
  <2>0. s \in Sessions /\ sessions[s].account = a /\ sessions[s].status \notin {"free", "erased"}
    BY <1>1, <1>t DEF Rows, SessionInv
  <2>1. ASSUME NEW w \in Workers, NEW r \in Sessions, NewRow(w, r)
        PROVE  sessions'[s].account = a /\ sessions'[s].status # "erased"
    BY <2>0, <2>1 DEF NewRow
  <2>2. ASSUME OldRow(s)
        PROVE  sessions'[s].account = a /\ sessions'[s].status # "erased"
    <3>1. ASSUME NEW w \in Workers, DeleteAccount(w), s \in Rows(tx[w].account)
          PROVE  FALSE
      BY <1>2, <2>0, <3>1 DEF Rows
    <3> QED BY <2>0, <2>2, <3>1 DEF OldRow
  <2>3. sessions'[s].account = a /\ sessions'[s].status # "erased"
    BY <2>0, <2>1, <2>2, SessionStep
  <2> QED BY <2>0, <2>3 DEF Rows
<1> QED BY <1>3, <1>4 DEF IdentityLocks, RowLocks, Identity, Row

\* A request that is not moved keeps its place in the order.
LEMMA OrderUndisturbed ==
    ASSUME Inductive, [Next]_vars, OrderInv, NEW v \in Workers, tx'[v] = tx[v]
    PROVE  SignInOrder(tx[v])' /\ WriteOrder(tx[v])' /\ DeleteOrder(tx[v])'
<1>1. SignInOrder(tx[v])' /\ WriteOrder(tx[v])'
  BY DEF OrderInv, SignInOrder, WriteOrder
<1>2. DeleteOrder(tx[v])
  BY DEF OrderInv
<1>3. CASE tx[v].op \in Deletions /\ Life(tx[v].account) \in tx[v].held
  <2>1. \A w \in Workers : tx[w].op = "purge" => Life(tx[w].account) \in tx[w].held
    BY DEF OrderInv, DeleteOrder
  <2>2. /\ IdentityLocks(tx[v].account) \subseteq IdentityLocks(tx[v].account)'
        /\ RowLocks(tx[v].account) \subseteq RowLocks(tx[v].account)'
    BY <1>3, <2>1, LocksStay
  <2>3. tx[v].op = "delete" => DeleteOrder(tx[v])'
    BY <1>2, <1>3, <2>2 DEF DeleteOrder
  <2>4. tx[v].op = "purge" => DeleteOrder(tx[v])'
    BY <1>2, <1>3, <2>2 DEF DeleteOrder
  <2>5. tx[v].op = "delete" \/ tx[v].op = "purge"
    BY <1>3 DEF Deletions
  <2> QED BY <1>1, <2>3, <2>4, <2>5
<1>4. CASE ~(tx[v].op \in Deletions /\ Life(tx[v].account) \in tx[v].held)
  <2>1. tx[v].op # "purge"
    BY <1>2, <1>4 DEF DeleteOrder, Deletions
  <2>2. tx[v].op = "delete" => tx[v].wants = <<Life(tx[v].account)>> /\ tx[v].held = {}
    BY <1>2, <1>4 DEF DeleteOrder, Deletions
  <2>3. DeleteOrder(tx[v])'
    BY <2>1, <2>2 DEF DeleteOrder
  <2> QED BY <1>1, <2>3
<1> QED BY <1>3, <1>4

\* Taking a lock moves a request to its next place.
LEMMA AcquireOrder ==
    ASSUME Inductive, OrderInv, NEW w \in Workers, Acquire(w)
    PROVE  SignInOrder(tx[w])' /\ WriteOrder(tx[w])' /\ DeleteOrder(tx[w])'
<1> DEFINE t == tx[w]
           u == tx'[w]
           x == Head(t.wants)
<1>t. t \in Tx /\ SignInOrder(t) /\ WriteOrder(t) /\ DeleteOrder(t)
  BY DEF Inductive, TypeOK, OrderInv
<1>1. /\ u.op = t.op /\ u.account = t.account /\ u.session = t.session
      /\ u.other = t.other /\ u.login = t.login
      /\ u.wants = Tail(t.wants) /\ u.held = t.held \cup {x}
  BY DEF Acquire, Inductive, TypeOK, Tx
<1>2. UNCHANGED tables /\ t.wants # <<>>
  BY DEF Acquire
<1>3. IdentityLocks(t.account)' = IdentityLocks(t.account) /\ RowLocks(t.account)' = RowLocks(t.account)
  BY <1>1, <1>2 DEF IdentityLocks, RowLocks, Rows, tables
<1> HIDE DEF t, u
<1>4. SignInOrder(u)
  <2>1. CASE t.op = "signin"
    BY <1>t, <1>1, <1>2, <2>1, Wants DEF SignInOrder
  <2>2. CASE t.op = "issue"
    BY <1>t, <1>1, <1>2, <2>2, Wants DEF SignInOrder
  <2>3. CASE t.op = "rotate"
    <3> DEFINE i == Identity(t.other)
               r == Row(t.session)
    <3>1. PICK o \in Accounts :
            \/ t.wants = <<i, r, User(o)>> /\ t.held = {}
            \/ t.wants = <<r, User(o)>> /\ t.held = {i}
            \/ t.wants = <<User(o)>> /\ t.held = {i, r}
      BY <1>t, <1>2, <2>3 DEF SignInOrder
    <3> HIDE DEF i, r
    <3>2. CASE t.wants = <<i, r, User(o)>> /\ t.held = {}
      <4>1. x = i /\ Tail(t.wants) = <<r, User(o)>>
        BY <3>2, Wants
      <4>2. u.wants = <<r, User(o)>> /\ u.held = {i}
        BY <1>1, <3>2, <4>1
      <4> QED BY <1>1, <2>3, <4>2 DEF SignInOrder, i, r
    <3>3. CASE t.wants = <<r, User(o)>> /\ t.held = {i}
      <4>1. x = r /\ Tail(t.wants) = <<User(o)>>
        BY <3>3, Wants
      <4>2. u.wants = <<User(o)>> /\ u.held = {i, r}
        BY <1>1, <3>3, <4>1
      <4> QED BY <1>1, <2>3, <4>2 DEF SignInOrder, i, r
    <3>4. CASE t.wants = <<User(o)>> /\ t.held = {i, r}
      <4>1. u.wants = <<>>
        BY <1>1, <3>4, Wants
      <4> QED BY <1>1, <2>3, <4>1 DEF SignInOrder
    <3> QED BY <3>1, <3>2, <3>3, <3>4
  <2> QED BY <1>t, <1>1, <1>2, <2>1, <2>2, <2>3 DEF SignInOrder
<1>5. WriteOrder(u)
  <2>1. CASE t.op = "profile"
    <3>1. PICK s \in Sessions :
            \/ t.wants = <<Row(s), User(t.account)>> /\ t.held = {}
            \/ t.wants = <<User(t.account)>>
      BY <1>t, <1>2, <2>1 DEF WriteOrder
    <3>2. CASE t.wants = <<Row(s), User(t.account)>> /\ t.held = {}
      <4>1. x = Row(s) /\ Tail(t.wants) = <<User(t.account)>>
        BY <3>2, Wants
      <4>2. u.wants = <<User(u.account)>> /\ u.held \subseteq {Row(s)}
        BY <1>1, <3>2, <4>1
      <4> QED BY <1>1, <2>1, <4>2 DEF WriteOrder
    <3>3. CASE t.wants = <<User(t.account)>>
      <4>1. u.wants = <<>>
        BY <1>1, <3>3, Wants
      <4> QED BY <1>1, <2>1, <4>1 DEF WriteOrder
    <3> QED BY <3>1, <3>2, <3>3
  <2>2. CASE t.op = "follow"
    <3>1. PICK m, n \in Accounts :
            /\ m < n /\ t.account # t.other /\ {t.account, t.other} = {m, n}
            /\ \/ t.held = {} /\ t.wants = <<Life(m), Life(n), User(t.account), User(t.other)>>
               \/ t.held = {Life(m)} /\ t.wants = <<Life(n), User(t.account), User(t.other)>>
               \/ t.held = {Life(m), Life(n)} /\ t.wants = <<User(t.account), User(t.other)>>
               \/ t.held = {Life(m), Life(n), User(t.account)} /\ t.wants = <<User(t.other)>>
      BY <1>t, <1>2, <2>2 DEF WriteOrder
    <3>2. \/ u.wants = <<>>
          \/ u.held = {Life(m)} /\ u.wants = <<Life(n), User(t.account), User(t.other)>>
          \/ u.held = {Life(m), Life(n)} /\ u.wants = <<User(t.account), User(t.other)>>
          \/ u.held = {Life(m), Life(n), User(t.account)} /\ u.wants = <<User(t.other)>>
      <4> DEFINE a == Life(m)
                 b == Life(n)
                 c == User(t.account)
                 d == User(t.other)
      <4> HIDE DEF a, b, c, d
      <4>1. CASE t.held = {} /\ t.wants = <<a, b, c, d>>
        <5>1. x = a /\ Tail(t.wants) = <<b, c, d>>
          BY <4>1, Wants
        <5> QED BY <1>1, <4>1, <5>1 DEF a, b, c, d
      <4>2. CASE t.held = {a} /\ t.wants = <<b, c, d>>
        <5>1. x = b /\ Tail(t.wants) = <<c, d>>
          BY <4>2, Wants
        <5>2. u.held = {a, b} /\ u.wants = <<c, d>>
          BY <1>1, <4>2, <5>1
        <5> QED BY <5>2 DEF a, b, c, d
      <4>3. CASE t.held = {a, b} /\ t.wants = <<c, d>>
        <5>1. x = c /\ Tail(t.wants) = <<d>>
          BY <4>3, Wants
        <5>2. u.held = {a, b, c} /\ u.wants = <<d>>
          BY <1>1, <4>3, <5>1
        <5> QED BY <5>2 DEF a, b, c, d
      <4>4. CASE t.wants = <<d>>
        <5>1. u.wants = <<>>
          BY <1>1, <4>4, Wants
        <5> QED BY <5>1
      <4> QED BY <3>1, <4>1, <4>2, <4>3, <4>4 DEF a, b, c, d
    <3> QED BY <1>1, <2>2, <3>1, <3>2 DEF WriteOrder
  <2> QED BY <1>1, <2>1, <2>2 DEF WriteOrder
<1>6. DeleteOrder(tx[w])'
  <2> DEFINE a == t.account
  <2>1. CASE t.op = "delete"
    <3>1. Life(a) \in u.held /\ u.held \subseteq {Life(a)} \cup IdentityLocks(a) /\ u.wants = <<>>
      <4>1. CASE t.wants = <<Life(a)>> /\ t.held = {}
        <5>1. x = Life(a) /\ Tail(t.wants) = <<>>
          BY <4>1, Wants
        <5> QED BY <1>1, <4>1, <5>1
      <4>2. ASSUME NEW y \in IdentityLocks(a), t.wants = <<y>>, Life(a) \in t.held,
                   t.held \subseteq {Life(a)} \cup IdentityLocks(a)
            PROVE  Life(a) \in u.held /\ u.held \subseteq {Life(a)} \cup IdentityLocks(a)
                   /\ u.wants = <<>>
        <5>1. x = y /\ Tail(t.wants) = <<>>
          BY <4>2, Wants
        <5> QED BY <1>1, <4>2, <5>1
      <4> QED BY <1>t, <1>2, <2>1, <4>1, <4>2 DEF DeleteOrder
    <3> QED BY <1>1, <1>3, <2>1, <3>1 DEF DeleteOrder, u, t
  <2>2. CASE t.op = "purge"
    <3>1. t.wants \in Seq(Locks) /\ t.wants # <<>>
      BY <1>t, <1>2 DEF Tx
    <3>2. /\ u.wants \in Seq(Locks) /\ Len(u.wants) = Len(t.wants) - 1
          /\ \A n \in 1..Len(u.wants) : u.wants[n] = t.wants[n + 1]
          /\ x = t.wants[1] /\ Len(t.wants) \in Nat
      BY <1>1, <3>1
    <3>3. /\ Life(a) \in t.held
          /\ t.held \subseteq {Life(a)} \cup IdentityLocks(a) \cup RowLocks(a)
          /\ t.wants[Len(t.wants)] = User(a)
          /\ \A n \in 1..(Len(t.wants) - 1) : t.wants[n] \in RowLocks(a)
      BY <1>t, <1>2, <2>2 DEF DeleteOrder
    <3>4. ASSUME u.wants # <<>>
          PROVE  /\ u.held \subseteq {Life(a)} \cup IdentityLocks(a) \cup RowLocks(a)
                 /\ u.wants[Len(u.wants)] = User(a)
                 /\ \A n \in 1..(Len(u.wants) - 1) : u.wants[n] \in RowLocks(a)
      <4>1. Len(u.wants) \in Nat \ {0}
        BY <3>2, <3>4
      <4> DEFINE j == Len(t.wants)
                 k == Len(u.wants)
      <4>n. j \in Nat /\ k = j - 1 /\ k \in Nat \ {0}
        BY <3>2, <4>1
      <4>r. 1 \in 1..(j - 1) /\ k \in 1..k /\ k + 1 = j
        <5> HIDE DEF j, k
        <5> QED BY <4>n
      <4>2. x \in RowLocks(a)
        <5>1. 1 \in 1..(Len(t.wants) - 1)
          BY <4>r
        <5> HIDE DEF x, a
        <5> QED BY <3>2, <3>3, <5>1
      <4>3. u.wants[k] = User(a)
        <5>1. k \in 1..k /\ k + 1 = Len(t.wants)
          BY <4>r
        <5>2. u.wants[k] = t.wants[k + 1]
          BY <3>2, <5>1
        <5> QED BY <3>3, <5>1, <5>2
      <4>4. \A n \in 1..(Len(u.wants) - 1) : u.wants[n] \in RowLocks(a)
        BY <3>2, <3>3, <4>1
      <4> QED BY <1>1, <3>3, <4>2, <4>3, <4>4
    <3> QED BY <1>1, <1>3, <2>2, <3>3, <3>4 DEF DeleteOrder, u, t
  <2> QED BY <1>1, <2>1, <2>2 DEF DeleteOrder, u
<1> QED BY <1>4, <1>5, <1>6 DEF u, SignInOrder, WriteOrder

\* What a request with a touch, and one without, has to lock.
LEMMA FirstLocks ==
    /\ \A y : <<>> \o <<y>> = <<y>>
    /\ \A x, y : <<x>> \o <<y>> = <<x, y>>
    /\ \A x, y, z, u : <<>> \o <<x, y, z, u>> = <<x, y, z, u>>
<1>1. ASSUME NEW x, NEW y PROVE <<x>> \o <<y>> = <<x, y>>
  <2> DEFINE S == {x, y}
             s == <<x>> \o <<y>>
             t == <<x, y>>
  <2>1. <<x>> \in Seq(S) /\ <<y>> \in Seq(S) /\ t \in Seq(S)
    OBVIOUS
  <2>2. s \in Seq(S) /\ Len(s) = 2 /\ s[1] = x /\ s[2] = y
    BY <2>1
  <2>3. Len(t) = 2 /\ t[1] = x /\ t[2] = y
    OBVIOUS
  <2>4. \A n \in 1..2 : n = 1 \/ n = 2
    OBVIOUS
  <2>5. Len(s) = Len(t) /\ \A n \in 1..Len(s) : s[n] = t[n]
    <3> HIDE DEF s, t
    <3> QED BY <2>2, <2>3, <2>4
  <2> HIDE DEF S, s, t
  <2>6. s = t
    BY <2>1, <2>2, <2>5, SeqEqual
  <2> QED BY <2>6 DEF s, t
<1>2. \A y : <<>> \o <<y>> = <<y>>
  OBVIOUS
<1>3. \A x, y, z, u : <<>> \o <<x, y, z, u>> = <<x, y, z, u>>
  OBVIOUS
<1> QED BY <1>1, <1>2, <1>3

\* Every request takes its locks in order; a session of a member who follows is not
\* due for a touch.
LEMMA OrderInvPreserved ==
    ASSUME "follow" \notin Touching, Inductive, [Next]_vars, OrderInv
    PROVE  OrderInv'
<1> DEFINE Ordered(w) == SignInOrder(tx[w])' /\ WriteOrder(tx[w])' /\ DeleteOrder(tx[w])'
<1> SUFFICES ASSUME NEW w \in Workers PROVE Ordered(w)
  BY DEF OrderInv
<1> USE NoneAssumption
<1>t. TypeOK /\ SessionInv /\ RequestInv /\ tx \in [Workers -> Tx]
  BY DEF Inductive, TypeOK
<1>o. SignInOrder(tx[w]) /\ WriteOrder(tx[w]) /\ DeleteOrder(tx[w])
  BY DEF OrderInv
<1>1. ASSUME tx'[w] = tx[w]
      PROVE  Ordered(w)
  BY <1>1, OrderUndisturbed
<1>2. ASSUME tx'[w] = NoTx
      PROVE  Ordered(w)
  <2>1. tx'[w].op = "idle" /\ tx'[w].wants = <<>>
    BY <1>2 DEF NoTx
  <2> QED BY <2>1 DEF SignInOrder, WriteOrder, DeleteOrder
<1>3. ASSUME NEW l \in Logins, NEW i \in Identities, ConsumeLogin(w, l, i)
      PROVE  Ordered(w)
  <2> DEFINE b == logins[l].bound
             op == IF b = None THEN "signin" ELSE "rotate"
             wants == IF b = None THEN <<<<"identity", i>>>>
                      ELSE <<<<"identity", i>>, <<"session", b>>, User(OfSession(b))>>
             t == [NoTx EXCEPT !.op = op, !.login = l, !.other = i, !.session = b, !.wants = wants]
  <2>1. tx'[w] = t
    BY <1>3, <1>t DEF ConsumeLogin
  <2>2. t.op = op /\ t.other = i /\ t.session = b /\ t.wants = wants /\ t.held = {}
    <3> HIDE DEF op, wants, b
    <3> QED BY DEF NoTx
  <2>3. b # None => OfSession(b) \in Accounts
    BY <1>t DEF TypeOK, Login, OfSession, Session
  <2>4. \/ op = "signin" /\ wants = <<Identity(i)>>
        \/ /\ op = "rotate"
           /\ \E u \in Accounts : wants = <<Identity(i), Row(b), User(u)>>
    <3>1. CASE b = None
      BY <3>1 DEF Identity
    <3>2. CASE b # None
      BY <2>3, <3>2 DEF Identity, Row
    <3> QED BY <3>1, <3>2
  <2> HIDE DEF op, wants, b, t
  <2>5. SignInOrder(tx[w])'
    BY <2>1, <2>2, <2>4 DEF SignInOrder
  <2> QED BY <2>1, <2>2, <2>4, <2>5 DEF WriteOrder, DeleteOrder
<1>4. ASSUME FindAccount(w)
      PROVE  Ordered(w)
  <2> DEFINE a == identity[tx[w].other]
             wants == IF a = None THEN <<>> ELSE <<User(a)>>
  <2>1. /\ tx[w].op = "signin" /\ tx[w].wants = <<>> /\ tx[w].other \in Identities
    BY <1>4, <1>t DEF FindAccount, Ready, RequestInv, SignInKnows, SignIns
  <2>2. tx[w].held = {Identity(tx[w].other)}
    BY <1>o, <2>1 DEF SignInOrder
  <2>3. /\ tx'[w].op = "issue" /\ tx'[w].other = tx[w].other
        /\ tx'[w].wants = wants /\ tx'[w].held = tx[w].held
    <3>1. tx' = [tx EXCEPT ![w].op = "issue", ![w].account = a, ![w].wants = wants]
      BY <1>4 DEF FindAccount
    <3> HIDE DEF a, wants
    <3> QED BY <1>t, <3>1 DEF Tx
  <2>4. wants = <<>> \/ \E u \in Accounts : wants = <<User(u)>>
    BY <1>t, <2>1 DEF TypeOK
  <2> HIDE DEF wants
  <2> QED BY <2>2, <2>3, <2>4 DEF SignInOrder, WriteOrder, DeleteOrder
<1>5. ASSUME NEW s \in Sessions, NEW op \in Operations, NEW other \in Accounts \cup {None}, NEW locks,
             BeginMember(w, op, s, other, locks)
      PROVE  /\ tx'[w].op = op /\ tx'[w].account = OfSession(s) /\ tx'[w].other = other
             /\ tx'[w].wants = TouchLock(op, s) \o locks /\ tx'[w].held = {}
             /\ OfSession(s) \in Accounts
  <2> DEFINE wants == TouchLock(op, s) \o locks
             t == [NoTx EXCEPT !.op = op, !.account = OfSession(s), !.other = other, !.wants = wants]
  <2>1. tx'[w] = t
    BY <1>5, <1>t DEF BeginMember, Begin
  <2>2. t.op = op /\ t.account = OfSession(s) /\ t.other = other /\ t.wants = wants /\ t.held = {}
    <3> HIDE DEF wants
    <3> QED BY DEF NoTx
  <2>3. OfSession(s) \in Accounts
    BY <1>5, <1>t DEF BeginMember, Live, OfSession, SessionInv, TypeOK, Session
  <2> HIDE DEF t
  <2> QED BY <2>1, <2>2, <2>3
<1>6. ASSUME NEW s \in Sessions, BeginMember(w, "profile", s, None, <<User(OfSession(s))>>)
      PROVE  Ordered(w)
  <2>1. /\ tx'[w].op = "profile" /\ tx'[w].account = OfSession(s) /\ tx'[w].held = {}
        /\ tx'[w].wants = TouchLock("profile", s) \o <<User(OfSession(s))>>
    BY <1>5, <1>6 DEF Operations
  <2>2. \/ tx'[w].wants = <<Row(s), User(tx'[w].account)>>
        \/ tx'[w].wants = <<User(tx'[w].account)>>
    <3> DEFINE y == User(OfSession(s))
    <3>1. TouchLock("profile", s) \in {<<Row(s)>>, <<>>}
      BY DEF TouchLock, Row
    <3> HIDE DEF y
    <3> QED BY <2>1, <3>1, FirstLocks DEF y
  <2> QED BY <2>1, <2>2 DEF SignInOrder, WriteOrder, DeleteOrder
<1>7. ASSUME NEW s \in Sessions, NEW c \in Accounts, BeginFollow(w, s, c)
      PROVE  Ordered(w)
  <2> DEFINE a == OfSession(s)
             both == Sorted(a, c)
             locks == <<<<"life", both[1]>>, <<"life", both[2]>>, User(a), User(c)>>
  <2>1. BeginMember(w, "follow", s, c, locks) /\ c # a
    BY <1>7 DEF BeginFollow
  <2>2. /\ tx'[w].op = "follow" /\ tx'[w].account = a /\ tx'[w].other = c /\ tx'[w].held = {}
        /\ tx'[w].wants = TouchLock("follow", s) \o locks /\ a \in Accounts
    <3> HIDE DEF locks
    <3> QED BY <1>5, <2>1 DEF Operations
  <2>3. tx'[w].wants = locks
    <3> DEFINE x == <<"life", both[1]>>
               y == <<"life", both[2]>>
               z == User(a)
               u == User(c)
    <3>1. TouchLock("follow", s) = <<>>
      BY DEF TouchLock
    <3>2. tx'[w].wants = TouchLock("follow", s) \o <<x, y, z, u>>
      BY <2>2
    <3> HIDE DEF x, y, z, u
    <3>3. tx'[w].wants = <<x, y, z, u>>
      BY <3>1, <3>2, FirstLocks
    <3> QED BY <3>3 DEF x, y, z, u
  <2>4. \E m, n \in Accounts : /\ m < n /\ {a, c} = {m, n}
                               /\ locks = <<Life(m), Life(n), User(a), User(c)>>
    <3>0. a \in Nat /\ c \in Nat /\ a # c
      BY <2>1, <2>2, AccountsAssumption
    <3> HIDE DEF a
    <3>1. CASE a < c
      <4>1. both[1] = a /\ both[2] = c
        BY <3>1 DEF Sorted
      <4> HIDE DEF both
      <4> QED BY <2>2, <3>1, <4>1 DEF Life
    <3>2. CASE c < a
      <4>1. both[1] = c /\ both[2] = a
        BY <3>0, <3>2 DEF Sorted
      <4> HIDE DEF both
      <4> QED BY <2>2, <3>2, <4>1 DEF Life
    <3>3. a < c \/ c < a
      BY <3>0
    <3> QED BY <3>1, <3>2, <3>3
  <2> HIDE DEF locks, a
  <2>5. WriteOrder(tx[w])'
    BY <2>1, <2>2, <2>3, <2>4 DEF WriteOrder
  <2> QED BY <2>2, <2>5 DEF SignInOrder, DeleteOrder
<1>8. ASSUME NEW s \in Sessions, BeginDelete(w, s)
      PROVE  Ordered(w)
  <2> DEFINE wants == <<<<"life", OfSession(s)>>>>
             t == [NoTx EXCEPT !.op = "delete", !.account = OfSession(s), !.session = s, !.wants = wants]
  <2>1. tx'[w] = t
    BY <1>8, <1>t DEF BeginDelete, Begin
  <2>2. t.op = "delete" /\ t.account = OfSession(s) /\ t.wants = wants /\ t.held = {}
    <3> HIDE DEF wants
    <3> QED BY DEF NoTx
  <2>3. tx'[w].wants = <<Life(tx'[w].account)>>
    BY <2>1, <2>2 DEF Life
  <2> HIDE DEF t
  <2> QED BY <2>1, <2>2, <2>3 DEF SignInOrder, WriteOrder, DeleteOrder
<1>9. ASSUME tx[w].op = "delete", tx[w].wants = <<>>
      PROVE  /\ Life(tx[w].account) \in tx[w].held
             /\ tx[w].held \subseteq {Life(tx[w].account)} \cup IdentityLocks(tx[w].account)
  <2>1. \A x : <<>> # <<x>>
    OBVIOUS
  <2> QED BY <1>9, <1>o, <2>1 DEF DeleteOrder
<1>10. ASSUME LockIdentities(w)
       PROVE  Ordered(w)
  <2>1. PICK i \in Identities : identity[i] = tx[w].account
                                /\ tx' = [tx EXCEPT ![w].wants = <<<<"identity", i>>>>]
    BY <1>10 DEF LockIdentities
  <2>2. /\ tx'[w].op = "delete" /\ tx'[w].account = tx[w].account /\ tx'[w].held = tx[w].held
        /\ tx'[w].wants = <<Identity(i)>>
    BY <1>10, <1>t, <2>1 DEF LockIdentities, Ready, Tx, Identity
  <2>3. UNCHANGED tables /\ tx[w].op = "delete" /\ tx[w].wants = <<>>
    BY <1>10 DEF LockIdentities, Ready
  <2>4. IdentityLocks(tx[w].account)' = IdentityLocks(tx[w].account)
    BY <2>2, <2>3 DEF IdentityLocks, tables
  <2>5. Identity(i) \in IdentityLocks(tx[w].account)
    BY <2>1 DEF IdentityLocks
  <2> QED BY <1>9, <2>2, <2>3, <2>4, <2>5 DEF SignInOrder, WriteOrder, DeleteOrder
<1>11. ASSUME LockSessions(w)
       PROVE  Ordered(w)
  <2> DEFINE a == tx[w].account
  <2>1. PICK order \in Orders(Rows(a)) :
          tx' = [tx EXCEPT ![w].op = "purge",
                           ![w].wants = [n \in DOMAIN order |-> <<"session", order[n]>>] \o <<User(a)>>]
    BY <1>11 DEF LockSessions
  <2> DEFINE rows == [n \in DOMAIN order |-> <<"session", order[n]>>]
             wants == rows \o <<User(a)>>
  <2>2. tx' = [tx EXCEPT ![w].op = "purge", ![w].wants = wants]
    BY <2>1
  <2>3. /\ tx'[w].op = "purge" /\ tx'[w].account = a /\ tx'[w].held = tx[w].held
        /\ tx'[w].wants = wants
    <3> HIDE DEF wants
    <3> QED BY <1>t, <2>2 DEF Tx
  <2>4. UNCHANGED tables /\ tx[w].op = "delete" /\ tx[w].wants = <<>>
    BY <1>11 DEF LockSessions, Ready
  <2>5. IdentityLocks(a)' = IdentityLocks(a) /\ RowLocks(a)' = RowLocks(a)
    BY <2>3, <2>4 DEF IdentityLocks, RowLocks, Rows, tables
  <2>6. PICK k \in Nat : order \in [1..k -> Rows(a)]
    <3>1. IsFiniteSet(Rows(a))
      BY FiniteAssumption, FS_Subset DEF Rows
    <3>2. Cardinality(Rows(a)) \in Nat
      BY <3>1, FS_CardinalityType
    <3> QED BY <3>2 DEF Orders
  <2>7. rows \in [1..k -> RowLocks(a)]
    BY <2>6 DEF RowLocks, Row
  <2>8. /\ Len(wants) = k + 1 /\ wants[k + 1] = User(a)
        /\ \A n \in 1..k : wants[n] \in RowLocks(a)
    <3> HIDE DEF rows
    <3>1. rows \in Seq(RowLocks(a)) /\ Len(rows) = k
      BY <2>6, <2>7
    <3>2. /\ Len(rows \o <<User(a)>>) = k + 1
          /\ (rows \o <<User(a)>>)[k + 1] = User(a)
          /\ \A n \in 1..k : (rows \o <<User(a)>>)[n] = rows[n]
      BY <2>6, <3>1
    <3> QED BY <2>7, <3>2
  <2>9. DeleteOrder(tx[w])'
    <3>1. \A n \in 1..(Len(wants) - 1) : wants[n] \in RowLocks(a)
      BY <2>6, <2>8
    <3> HIDE DEF wants
    <3> QED BY <1>9, <2>3, <2>4, <2>5, <2>8, <3>1 DEF DeleteOrder
  <2> QED BY <2>3, <2>9 DEF SignInOrder, WriteOrder
<1>12. ASSUME Acquire(w)
       PROVE  Ordered(w)
  BY <1>12, AcquireOrder
<1> HIDE DEF Ordered
<1> QED BY <1>1, <1>2, <1>3, <1>4, <1>6, <1>7, <1>8, <1>10, <1>11, <1>12, OwnStep

\* Where a waiting request stands: it holds nothing, or it waits for a lock of a kind
\* that the locks it holds come before.
Waiting(t) ==
    LET x == Head(t.wants) IN
    \/ t.held = {}
    \/ \E m, n \in Accounts : m < n /\ t.held = {Life(m)} /\ x = Life(n)
    \/ \E a \in Accounts :
         /\ Life(a) \in t.held
         /\ \/ x \in IdentityLocks(a) /\ t.held \subseteq {Life(a)} \cup IdentityLocks(a)
            \/ /\ x \in RowLocks(a)
               /\ t.held \subseteq {Life(a)} \cup IdentityLocks(a) \cup RowLocks(a)
    \/ x[1] = "session" /\ \A y \in t.held : y[1] = "identity"
    \/ x[1] = "user" /\ \A y \in t.held : y[1] # "user"
    \/ \E a, b \in Accounts : /\ x = User(b)
                              /\ Life(a) \in t.held /\ Life(b) \in t.held
                              /\ \A y \in t.held : y[1] = "user" => y = User(a)

\* A request that waits stands in its place in the order.
LEMMA WaitingOrder ==
    ASSUME Inductive, OrderInv, NEW w \in Workers, tx[w].wants # <<>>
    PROVE  Waiting(tx[w])
<1> DEFINE t == tx[w]
           x == Head(t.wants)
<1>t. t \in Tx /\ SignInOrder(t) /\ WriteOrder(t) /\ DeleteOrder(t)
  BY DEF Inductive, TypeOK, OrderInv
<1>a. t.op \in Deletions \cup Operations => t.account \in Accounts
  BY DEF Inductive, RequestInv, DeletionKnows
<1>k. /\ \A u : User(u)[1] = "user"
      /\ \A i : Identity(i)[1] = "identity" /\ \A s : Row(s)[1] = "session"
      /\ \A m : Life(m)[1] = "life"
  BY DEF User, Identity, Row, Life
<1> HIDE DEF t
<1>1. CASE t.op = "signin"
  BY <1>t, <1>1 DEF SignInOrder, Waiting, t
<1>2. CASE t.op = "issue"
  <2>1. PICK u \in Accounts : t.held = {Identity(t.other)} /\ t.wants = <<User(u)>>
    BY <1>t, <1>2 DEF SignInOrder, t
  <2>2. x = User(u)
    BY <2>1, Wants
  <2> QED BY <1>k, <2>1, <2>2 DEF Waiting, t
<1>3. CASE t.op = "rotate"
  <2> DEFINE i == Identity(t.other)
             r == Row(t.session)
  <2>1. PICK u \in Accounts :
          \/ t.wants = <<i, r, User(u)>> /\ t.held = {}
          \/ t.wants = <<r, User(u)>> /\ t.held = {i}
          \/ t.wants = <<User(u)>> /\ t.held = {i, r}
    BY <1>t, <1>3 DEF SignInOrder, t
  <2>2. CASE t.held = {}
    BY <2>2 DEF Waiting, t
  <2>3. CASE t.wants = <<r, User(u)>> /\ t.held = {i}
    <3>1. x = r
      BY <2>3, Wants
    <3>2. x[1] = "session" /\ \A y \in t.held : y[1] = "identity"
      BY <1>k, <2>3, <3>1
    <3> QED BY <3>2 DEF Waiting, t
  <2>4. CASE t.wants = <<User(u)>> /\ t.held = {i, r}
    <3>1. x = User(u)
      BY <2>4, Wants
    <3>2. x[1] = "user" /\ \A y \in t.held : y[1] # "user"
      BY <1>k, <2>4, <3>1
    <3> QED BY <3>2 DEF Waiting, t
  <2> QED BY <2>1, <2>2, <2>3, <2>4
<1>4. CASE t.op = "profile"
  <2>1. PICK s \in Sessions :
          \/ t.wants = <<Row(s), User(t.account)>> /\ t.held = {}
          \/ t.wants = <<User(t.account)>> /\ t.held \subseteq {Row(s)}
    BY <1>t, <1>4 DEF WriteOrder, t
  <2>2. CASE t.held = {}
    BY <2>2 DEF Waiting, t
  <2>3. CASE t.wants = <<User(t.account)>> /\ t.held \subseteq {Row(s)}
    <3>1. x = User(t.account)
      BY <2>3, Wants
    <3>2. x[1] = "user" /\ \A y \in t.held : y[1] # "user"
      BY <1>k, <2>3, <3>1
    <3> QED BY <3>2 DEF Waiting, t
  <2> QED BY <2>1, <2>2, <2>3
<1>5. CASE t.op = "follow"
  <2> DEFINE a == t.account
             b == t.other
  <2>1. PICK m, n \in Accounts :
          /\ m < n /\ a # b /\ {a, b} = {m, n}
          /\ \/ t.held = {} /\ t.wants = <<Life(m), Life(n), User(a), User(b)>>
             \/ t.held = {Life(m)} /\ t.wants = <<Life(n), User(a), User(b)>>
             \/ t.held = {Life(m), Life(n)} /\ t.wants = <<User(a), User(b)>>
             \/ t.held = {Life(m), Life(n), User(a)} /\ t.wants = <<User(b)>>
    BY <1>t, <1>5 DEF WriteOrder, t
  <2>2. CASE t.held = {}
    BY <2>2 DEF Waiting, t
  <2>3. CASE t.held = {Life(m)} /\ t.wants = <<Life(n), User(a), User(b)>>
    <3>1. x = Life(n)
      BY <2>3, Wants
    <3> QED BY <2>1, <2>3, <3>1 DEF Waiting, t
  <2>4. CASE t.held = {Life(m), Life(n)} /\ t.wants = <<User(a), User(b)>>
    <3>1. x = User(a)
      BY <2>4, Wants
    <3>2. x[1] = "user" /\ \A y \in t.held : y[1] # "user"
      BY <1>k, <2>4, <3>1
    <3> QED BY <3>2 DEF Waiting, t
  <2>5. CASE t.held = {Life(m), Life(n), User(a)} /\ t.wants = <<User(b)>>
    <3>1. x = User(b)
      BY <2>5, Wants
    <3>2. Life(a) \in t.held /\ Life(b) \in t.held /\ a \in Accounts /\ b \in Accounts
      BY <2>1, <2>5
    <3>3. \A y \in t.held : y[1] = "user" => y = User(a)
      BY <1>k, <2>5
    <3> QED BY <3>1, <3>2, <3>3 DEF Waiting, t
  <2> QED BY <2>1, <2>2, <2>3, <2>4, <2>5
<1>6. CASE t.op = "delete"
  <2> DEFINE a == t.account
  <2>1. CASE t.held = {}
    BY <2>1 DEF Waiting, t
  <2>2. ASSUME NEW y \in IdentityLocks(a), t.wants = <<y>>, Life(a) \in t.held,
               t.held \subseteq {Life(a)} \cup IdentityLocks(a)
        PROVE  Waiting(t)
    <3>1. x = y
      BY <2>2, Wants
    <3>2. a \in Accounts
      BY <1>6, <1>a DEF Deletions
    <3> QED BY <2>2, <3>1, <3>2 DEF Waiting
  <2>3. t.wants # <<>>
    BY DEF t
  <2> QED BY <1>t, <1>6, <2>1, <2>2, <2>3 DEF DeleteOrder, t
<1>7. CASE t.op = "purge"
  <2> DEFINE a == t.account
             k == Len(t.wants)
  <2>1. /\ Life(a) \in t.held /\ a \in Accounts
        /\ t.held \subseteq {Life(a)} \cup IdentityLocks(a) \cup RowLocks(a)
        /\ t.wants[k] = User(a)
        /\ \A n \in 1..(k - 1) : t.wants[n] \in RowLocks(a)
    BY <1>t, <1>7, <1>a DEF DeleteOrder, Deletions, t
  <2>2. x = t.wants[1] /\ k \in Nat /\ k # 0
    <3>1. t.wants \in Seq(Locks) /\ t.wants # <<>>
      BY <1>t DEF Tx, t
    <3> QED BY <3>1
  <2>3. CASE k = 1
    <3>1. x[1] = "user"
      BY <1>k, <2>1, <2>2, <2>3
    <3>2. \A y \in t.held : y[1] # "user"
      BY <1>k, <2>1 DEF IdentityLocks, RowLocks
    <3> QED BY <3>1, <3>2 DEF Waiting, t
  <2>4. CASE k # 1
    <3>1. 1 \in 1..(k - 1)
      <4> HIDE DEF k
      <4> QED BY <2>2, <2>4
    <3>2. x \in RowLocks(a)
      BY <2>1, <2>2, <3>1
    <3> QED BY <2>1, <3>2 DEF Waiting, t
  <2> QED BY <2>3, <2>4
<1>8. CASE t.op = "idle"
  BY <1>t, <1>8 DEF SignInOrder, t
<1> QED BY <1>t, <1>1, <1>2, <1>3, <1>4, <1>5, <1>6, <1>7, <1>8 DEF Tx, Operations, t

\* No group of requests waits for itself: a request that waited in one would wait for
\* a later lock than every lock it holds, up to the last member whose lifecycle lock
\* is waited for.
LEMMA OrderedWaitsEnd ==
    ASSUME Inductive, OrderInv
    PROVE  NoWaitCycle
<1> SUFFICES ASSUME NEW S \in SUBSET Workers, S # {},
                    \A w \in S : \E o \in S : o # w /\ WaitsFor(w, o)
             PROVE  FALSE
  BY DEF NoWaitCycle
<1> DEFINE x(w) == Head(tx[w].wants)
           held(w) == tx[w].held
           Hands(w, o) == o # w /\ x(w) \in held(o)
<1>1. \A w \in S : Waiting(tx[w])
  BY WaitingOrder DEF WaitsFor
<1>2. \A w \in S : \E o \in S : Hands(w, o)
  BY DEF WaitsFor
<1>3. \A w, o \in S : held(w) \cap held(o) # {} => w = o
  BY DEF Inductive, Exclusive
<1>k. /\ \A u : User(u)[1] = "user" /\ \A v : User(u) = User(v) => u = v
      /\ \A i : Identity(i)[1] = "identity"
      /\ \A s : Row(s)[1] = "session" /\ \A t : Row(s) = Row(t) => s = t
      /\ \A m : Life(m)[1] = "life" /\ \A n : Life(m) = Life(n) => m = n
      /\ \A i, j : Identity(i) = Identity(j) => i = j
  BY DEF User, Identity, Row, Life
<1>l. \A a : /\ \A y \in IdentityLocks(a) : y[1] = "identity"
             /\ \A y \in RowLocks(a) : y[1] = "session"
  BY <1>k DEF IdentityLocks, RowLocks
<1>m. \A a, b, y : \/ y \in IdentityLocks(a) /\ y \in IdentityLocks(b)
                   \/ y \in RowLocks(a) /\ y \in RowLocks(b)
                   => a = b
  BY <1>k DEF IdentityLocks, RowLocks, Rows
<1> DEFINE Users(w) == \E a, b \in Accounts : /\ x(w) = User(b)
                                              /\ Life(a) \in held(w) /\ Life(b) \in held(w)
                                              /\ \A y \in held(w) : y[1] = "user" => y = User(a)
           Purges(w) == \E a \in Accounts : /\ Life(a) \in held(w) /\ x(w) \in RowLocks(a)
                                            /\ held(w) \subseteq {Life(a)} \cup IdentityLocks(a) \cup RowLocks(a)
           Deletes(w) == \E a \in Accounts : /\ Life(a) \in held(w) /\ x(w) \in IdentityLocks(a)
                                             /\ held(w) \subseteq {Life(a)} \cup IdentityLocks(a)
           Follows(w) == \E m, n \in Accounts : m < n /\ held(w) = {Life(m)} /\ x(w) = Life(n)
           Rotates(w) == x(w)[1] = "session" /\ \A y \in held(w) : y[1] = "identity"
           Locks1(w) == x(w)[1] = "user" /\ \A y \in held(w) : y[1] # "user"
<1>4. \A w \in S : held(w) = {} \/ Follows(w) \/ Deletes(w) \/ Purges(w) \/ Rotates(w) \/ Locks1(w) \/ Users(w)
  BY <1>1 DEF Waiting
<1> HIDE DEF x, held
<1>5. ASSUME NEW w \in S, NEW y \in held(w)
      PROVE  /\ y[1] = "user" => Users(w)
             /\ y[1] = "session" => Purges(w) \/ Locks1(w) \/ Users(w)
             /\ y[1] = "identity" => Deletes(w) \/ Purges(w) \/ Rotates(w) \/ Locks1(w) \/ Users(w)
  <2>1. y[1] = "user" => Users(w)
    BY <1>4, <1>5, <1>k, <1>l
  <2>2. y[1] = "session" => Purges(w) \/ Locks1(w) \/ Users(w)
    BY <1>4, <1>5, <1>k, <1>l
  <2>3. y[1] = "identity" => Deletes(w) \/ Purges(w) \/ Rotates(w) \/ Locks1(w) \/ Users(w)
    <3>1. ~Follows(w) \/ y[1] # "identity"
      BY <1>5, <1>k
    <3> QED BY <1>4, <1>5, <3>1
  <2> QED BY <2>1, <2>2, <2>3
<1>6. \A w \in S : ~Users(w)
  <2> SUFFICES ASSUME NEW w \in S, NEW a \in Accounts, NEW b \in Accounts,
                      x(w) = User(b), Life(b) \in held(w)
               PROVE  FALSE
    OBVIOUS
  <2>1. PICK o \in S : Hands(w, o)
    BY <1>2
  <2>2. Users(o)
    BY <1>5, <1>k, <2>1
  <2>3. Life(b) \in held(o)
    BY <1>k, <2>1, <2>2
  <2> QED BY <1>3, <2>1, <2>3
<1>7. \A w \in S : ~Locks1(w)
  BY <1>2, <1>5, <1>6
<1>8. \A w \in S : ~Purges(w)
  <2> SUFFICES ASSUME NEW w \in S, NEW a \in Accounts, x(w) \in RowLocks(a), Life(a) \in held(w)
               PROVE  FALSE
    OBVIOUS
  <2>1. PICK o \in S : Hands(w, o)
    BY <1>2
  <2>2. Purges(o)
    BY <1>5, <1>6, <1>7, <1>l, <2>1
  <2>3. PICK b \in Accounts : /\ Life(b) \in held(o)
                              /\ held(o) \subseteq {Life(b)} \cup IdentityLocks(b) \cup RowLocks(b)
    BY <2>2
  <2>4. a = b
    BY <1>k, <1>l, <1>m, <2>1, <2>3
  <2> QED BY <1>3, <2>1, <2>3, <2>4
<1>9. \A w \in S : ~Rotates(w)
  BY <1>2, <1>5, <1>6, <1>7, <1>8
<1>10. \A w \in S : ~Deletes(w)
  <2> SUFFICES ASSUME NEW w \in S, NEW a \in Accounts, x(w) \in IdentityLocks(a), Life(a) \in held(w)
               PROVE  FALSE
    OBVIOUS
  <2>1. PICK o \in S : Hands(w, o)
    BY <1>2
  <2>2. Deletes(o)
    BY <1>5, <1>6, <1>7, <1>8, <1>9, <1>l, <2>1
  <2>3. PICK b \in Accounts : /\ Life(b) \in held(o)
                              /\ held(o) \subseteq {Life(b)} \cup IdentityLocks(b)
    BY <2>2
  <2>4. a = b
    BY <1>k, <1>l, <1>m, <2>1, <2>3
  <2> QED BY <1>3, <2>1, <2>3, <2>4
<1> DEFINE W == {w \in S : held(w) # {}}
           number == [w \in W |-> x(w)[2]]
<1>11. \A w \in W : Follows(w)
  BY <1>4, <1>6, <1>7, <1>8, <1>9, <1>10
<1>12. \A w \in S : \E o \in W : Hands(w, o)
  BY <1>2
<1>13. IsFiniteSet(W)
  BY FiniteAssumption, FS_Subset
<1>14. number \in [W -> Nat]
  <2>1. \A n : Life(n)[2] = n
    BY DEF Life
  <2> QED BY <1>11, <2>1, AccountsAssumption
<1>15. W # {}
  BY <1>12
<1>16. PICK w \in W : \A o \in W : number[o] <= number[w]
  <2> HIDE DEF W, number
  <2> QED BY <1>13, <1>14, <1>15, LastOf
<1>17. PICK o \in W : Hands(w, o)
  BY <1>12
<1>18. PICK n \in Accounts : x(w) = Life(n)
  BY <1>11
<1>19. PICK m \in Accounts, p \in Accounts : m < p /\ held(o) = {Life(m)} /\ x(o) = Life(p)
  BY <1>11
<1>20. m = n
  BY <1>17, <1>18, <1>19, <1>k
<1>21. number[w] = n /\ number[o] = p
  BY <1>18, <1>19 DEF Life
<1>22. number[o] <= number[w] /\ m < p /\ n \in Nat /\ p \in Nat
  <2> HIDE DEF number
  <2> QED BY <1>16, <1>17, <1>19, AccountsAssumption
<1> HIDE DEF number
<1> QED BY <1>20, <1>21, <1>22

\* Whatever sign-ins, rotations, profile updates, follows and deletions are in flight,
\* no group of requests waits for itself, as long as no follow finds its session due
\* for a touch.
THEOREM NoDeadlock ==
    ASSUME "follow" \notin Touching
    PROVE  Spec => []NoWaitCycle
<1>1. Init => OrderInv
  <2> SUFFICES ASSUME Init PROVE OrderInv
    OBVIOUS
  <2>1. \A w \in Workers : tx[w].op = "idle" /\ tx[w].wants = <<>>
    BY DEF Init, NoTx
  <2> QED BY <2>1 DEF OrderInv, SignInOrder, WriteOrder, DeleteOrder
<1>2. Inductive /\ OrderInv /\ [Next]_vars => OrderInv'
  BY OrderInvPreserved
<1>3. Inductive /\ OrderInv => NoWaitCycle
  BY OrderedWaitsEnd
<1> QED BY Invariance, <1>1, <1>2, <1>3, PTL DEF Spec

=============================================================================
