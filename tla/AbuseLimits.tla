----------------------------- MODULE AbuseLimits -----------------------------
(***************************************************************************)
(* Fixed-window rate limits (services/abuse_limits.py,                      *)
(* repositories/abuse_limits.py): before an endpoint runs, one transaction  *)
(* prunes expired buckets, counts the attempt in the buckets of its network *)
(* and its account, or of its provider identity, and commits whatever the   *)
(* verdict.                                                                 *)
(*                                                                          *)
(* Rows are locked as PostgreSQL does it: who writes a row holds it to the  *)
(* end of the transaction, and who wants to write it then waits and goes on *)
(* from what was committed.                                                 *)
(***************************************************************************)
EXTENDS Integers, Sequences, FiniteSets, FiniteSetsExt

CONSTANTS Workers,                         \* requests handled at a time
          Networks, Accounts, Identities,  \* what is counted by
          Untouched,                       \* a bucket a transaction has not written
          Limit,                           \* of each, per window
          Width,                           \* rate_limit_window_seconds
          Batch,                           \* EXPIRED_BUCKET_PRUNE_BATCH_SIZE
          MaxTime, MaxAttempts             \* bounds

Subjects == Networks \cup Accounts \cup Identities

ASSUME LimitsAssumption == /\ Limit \in [Subjects -> Nat]
                           /\ Width \in Nat \ {0} /\ Batch \in Nat \ {0}
                           /\ MaxTime \in Nat /\ MaxAttempts \in Nat
                           /\ Untouched \notin Nat

VARIABLES
    clock,      \* now
    buckets,    \* abuse_rate_limit_buckets as committed: counts, 0 if there is no row
    attempt,    \* what each worker is at
    counted,    \* ghost: attempts answered, by bucket
    admitted,   \* ghost: of them, those let through before their window was over
    arrived     \* attempts so far

limitVars == <<clock, buckets, attempt, counted, admitted, arrived>>

Window(now) == now \div Width

Keys == Subjects \X (0..Window(MaxTime))

Ends(key) == (key[2] + 1) * Width

Resting == [stage |-> "rest", dims |-> <<>>, left |-> <<>>, now |-> 0, expired |-> {},
            own |-> [key \in Keys |-> Untouched], over |-> FALSE]

LimitsInit == /\ clock = 0
              /\ buckets = [key \in Keys |-> 0]
              /\ attempt = [w \in Workers |-> Resting]
              /\ counted = [key \in Keys |-> 0]
              /\ admitted = [key \in Keys |-> 0]
              /\ arrived = 0

-----------------------------------------------------------------------------
Is(w, a) == attempt' = [attempt EXCEPT ![w] = a]
books == <<buckets, counted, admitted>>

Tick == /\ clock < MaxTime /\ clock' = clock + 1
        /\ UNCHANGED <<books, attempt, arrived>>

\* The network, and the account if there is a session; or the identity of a callback.
Dimensions == {<<n>> : n \in Networks} \cup (Networks \X Accounts) \cup {<<i>> : i \in Identities}

\* The time is taken once, before the transaction.
Arrive(w) ==
    /\ attempt[w].stage = "rest"
    /\ arrived < MaxAttempts /\ arrived' = arrived + 1
    /\ \E dims \in Dimensions :
         Is(w, [Resting EXCEPT !.stage = "prune", !.dims = dims, !.left = dims, !.now = clock])
    /\ UNCHANGED <<clock, books>>

SlipNeverLocked(w, key) == FALSE

\* Written by another transaction that has not ended.
Locked(w, key) == \E x \in Workers \ {w} : attempt[x].own[key] # Untouched

\* The expired buckets the statement sees.
Expired(w) == {key \in Keys : /\ buckets[key] > 0 /\ attempt[w].own[key] = Untouched
                              /\ Ends(key) <= attempt[w].now}

\* The oldest of them, and then those of the very subject: two statements, one step.
Prunings(w) ==
    {batch \cup {key \in Expired(w) : key[1] = Head(attempt[w].left)} :
        batch \in {b \in kSubset(Min({Batch, Cardinality(Expired(w))}), Expired(w)) :
                      \A key \in b, other \in Expired(w) \ b : Ends(key) <= Ends(other)}}

Prune(w) ==
    /\ attempt[w].stage = "prune"
    /\ \E keys \in Prunings(w) : Is(w, [attempt[w] EXCEPT !.stage = "count", !.expired = keys])
    /\ UNCHANGED <<clock, books, arrived>>

\* In no order of its own.  A row that another transaction has deleted meanwhile is gone.
Delete(w) == \E key \in attempt[w].expired :
    /\ ~Locked(w, key)
    /\ Is(w, [attempt[w] EXCEPT !.expired = @ \ {key},
                                !.own[key] = IF buckets[key] = 0 THEN @ ELSE 0])
    /\ UNCHANGED <<clock, books, arrived>>

\* insert ... on_conflict_do_update
Count(w) ==
    LET subject == Head(attempt[w].left)
        key == <<subject, Window(attempt[w].now)>>
        more == Tail(attempt[w].left)
    IN /\ attempt[w].stage = "count" /\ attempt[w].expired = {}
       /\ ~Locked(w, key)
       /\ Is(w, [attempt[w] EXCEPT !.own[key] = buckets[key] + 1,
                                   !.over = @ \/ buckets[key] + 1 > Limit[subject],
                                   !.left = more,
                                   !.stage = IF more = <<>> THEN "commit" ELSE "prune"])
       /\ UNCHANGED <<clock, books, arrived>>

Buckets(a) == {<<a.dims[i], Window(a.now)>> : i \in DOMAIN a.dims}
Once(f, keys) == [key \in Keys |-> IF key \in keys THEN f[key] + 1 ELSE f[key]]

SlipKeepsNothing(w) == IF attempt[w].over THEN buckets
                       ELSE [key \in Keys |-> IF attempt[w].own[key] = Untouched THEN buckets[key]
                                              ELSE attempt[w].own[key]]

Written(w) == [key \in Keys |-> IF attempt[w].own[key] = Untouched THEN buckets[key]
                                ELSE attempt[w].own[key]]

\* The attempt counts whether it is let through or refused.
Commit(w) ==
    /\ attempt[w].stage = "commit"
    /\ buckets' = Written(w)
    /\ counted' = Once(counted, Buckets(attempt[w]))
    /\ admitted' = IF attempt[w].over \/ Window(clock) # Window(attempt[w].now) THEN admitted
                   ELSE Once(admitted, Buckets(attempt[w]))
    /\ Is(w, Resting)
    /\ UNCHANGED <<clock, arrived>>

\* An error of the database, as when it ends a deadlock: rolled back, and the request refused.
Fail(w) == /\ attempt[w].stage # "rest"
           /\ Is(w, Resting)
           /\ UNCHANGED <<clock, books, arrived>>

LimitsNext == \/ Tick
              \/ \E w \in Workers : \/ Arrive(w) \/ Prune(w) \/ Delete(w) \/ Count(w)
                                    \/ Commit(w) \/ Fail(w)

LimitsSpec == LimitsInit /\ [][LimitsNext]_limitVars

-----------------------------------------------------------------------------
(* Correctness *)

\* However attempts, prunings and failures of one time and the next cross, no more are let
\* through while a window lasts than its limit.
LimitsHold == \A key \in Keys : admitted[key] <= Limit[key[1]]

\* While a window lasts its bucket counts every attempt that was answered, let through or
\* refused on another count, and none that failed.
AnsweredAttemptsCount ==
    \A key \in Keys : key[2] = Window(clock) => buckets[key] = counted[key]
=============================================================================
