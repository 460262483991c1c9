--------------------------- MODULE DeletionRecovery ---------------------------
(***************************************************************************)
(* Deletion evidence outside the database, and a restore that keeps         *)
(* deleted accounts deleted (recovery/account_deletions.py,                 *)
(* services/account_lifecycle.py, services/auth_workflows.py,               *)
(* repositories/account_lifecycle.py; the operator's part is the restore    *)
(* procedure of docs/reference/recovery.md).                                *)
(*                                                                          *)
(* Members delete their accounts while the application serves; the          *)
(* exporter writes ledgers of tombstones to new private files; backups are  *)
(* taken.  To go back to a backup, the operator stops traffic, restores it  *)
(* into an isolated database, replays the ledgers there and admits traffic  *)
(* to it.  Any command may be killed and given again.  A ledger's digest is *)
(* printed when the export ends: a file left by a killed export has none    *)
(* on record and is refused.                                                *)
(***************************************************************************)
EXTENDS Naturals, FiniteSets

CONSTANTS
    Accounts, Backups, None,
    Files,         \* paths for ledgers; an export never replaces a file
    MaxTime,       \* bound on the clock
    MaxRestores    \* bound on the restores

ASSUME BoundsAssumption == MaxTime \in Nat /\ MaxRestores \in Nat

VARIABLES
    clock,      \* of the application and of PostgreSQL
    mode,       \* "serving" or "stopped"
    db,         \* the database that serves, or served last
    asked,      \* the time each deletion request in flight took on arrival
    sharing,    \* the deletion requests that hold the ledger lock, shared
    limiting,   \* accounts with a request whose attempt is still to be counted
    export,     \* the ledger an export has read, the lock held
    ledgers,    \* the files
    recorded,   \* files with a digest on record
    backups,
    stopped,    \* when traffic stopped: the coverage required of a ledger
    restored,   \* the isolated database
    replayed,   \* ledgers known to be replayed to it
    covered,    \* whether one of them had the required coverage
    restores,   \* restores so far
    joined,     \* accounts that ever were, whatever a database says of them
    gone        \* and when they were deleted

users == <<joined, gone>>
serving == <<clock, mode, db, asked, sharing, limiting, users>>
exporting == <<export, ledgers, recorded>>
restoring == <<stopped, restored, replayed, covered, restores>>
vars == <<serving, exporting, backups, restoring>>

Times == 0..MaxTime

\* bucket: an account bucket of the rate limits outlived the deletion.
Row == [status : {"none", "active", "deleted"}, at : Times, bucket : BOOLEAN]
NoRow == [status |-> "none", at |-> 0, bucket |-> FALSE]
Active == [NoRow EXCEPT !.status = "active"]
Tombstone(t) == [status |-> "deleted", at |-> t, bucket |-> FALSE]
Database == [Accounts -> Row]

\* deletions: the deletion time of each account in it.
Ledger == [through : Times, deletions : [Accounts -> Times \cup {None}]]
Export == [ledger : Ledger, path : Files \cup {None}]

ASSUME NoneAssumption == None \notin Nat \cup Files \cup Database \cup Ledger \cup Export

Init == /\ clock = 0 /\ mode = "serving"
        /\ db = [a \in Accounts |-> NoRow]
        /\ asked = [a \in Accounts |-> None] /\ sharing = {} /\ limiting = {}
        /\ export = None /\ ledgers = [f \in Files |-> None] /\ recorded = {}
        /\ backups = [b \in Backups |-> None]
        /\ stopped = None /\ restored = None /\ replayed = {} /\ covered = FALSE
        /\ restores = 0
        /\ joined = {} /\ gone = [a \in Accounts |-> None]

-----------------------------------------------------------------------------
(* The application *)

Tick == /\ clock < MaxTime
        /\ clock' = clock + 1
        /\ UNCHANGED <<mode, db, asked, sharing, limiting, users, exporting, backups, restoring>>

\* Identifiers are never used twice: an account a restore lost does not return.
Join(a) ==
    /\ mode = "serving" /\ a \notin joined
    /\ db' = [db EXCEPT ![a] = Active]
    /\ joined' = joined \cup {a}
    /\ UNCHANGED <<clock, mode, asked, sharing, limiting, gone, exporting, backups, restoring>>

\* now is taken before any lock is.
AskDeletion(a) ==
    /\ mode = "serving" /\ db[a].status = "active" /\ asked[a] = None
    /\ asked' = [asked EXCEPT ![a] = clock]
    /\ UNCHANGED <<clock, mode, db, sharing, limiting, users, exporting, backups, restoring>>

\* Deletions proceed together, but not with an export.
LockLedger(a) ==
    /\ asked[a] # None /\ a \notin sharing
    /\ export = None
    /\ sharing' = sharing \cup {a}
    /\ UNCHANGED <<clock, mode, db, asked, limiting, users, exporting, backups, restoring>>

DeleteAccount(a) ==
    /\ a \in sharing
    /\ db' = [db EXCEPT ![a] = Tombstone(asked[a])]
    /\ gone' = [gone EXCEPT ![a] = asked[a]]
    /\ asked' = [asked EXCEPT ![a] = None]
    /\ sharing' = sharing \ {a}
    /\ UNCHANGED <<clock, mode, limiting, joined, exporting, backups, restoring>>

\* Refused, or its worker is gone.
AbandonDeletion(a) ==
    /\ asked[a] # None
    /\ asked' = [asked EXCEPT ![a] = None]
    /\ sharing' = sharing \ {a}
    /\ UNCHANGED <<clock, mode, db, limiting, users, exporting, backups, restoring>>

\* The session was read without a lock; the attempt is counted later, without
\* another look at the account.  Buckets of active accounts are left out.
BeginAttempt(a) ==
    /\ mode = "serving" /\ db[a].status = "active"
    /\ limiting' = limiting \cup {a}
    /\ UNCHANGED <<clock, mode, db, asked, sharing, users, exporting, backups, restoring>>

CountAttempt(a) ==
    /\ a \in limiting
    /\ db' = [db EXCEPT ![a].bucket = db[a].status = "deleted"]
    /\ limiting' = limiting \ {a}
    /\ UNCHANGED <<clock, mode, asked, sharing, users, exporting, backups, restoring>>

\* An attempt of anybody prunes what has expired.
PruneBucket(a) ==
    /\ mode = "serving" /\ db[a].bucket
    /\ db' = [db EXCEPT ![a].bucket = FALSE]
    /\ UNCHANGED <<clock, mode, asked, sharing, limiting, users, exporting, backups, restoring>>

-----------------------------------------------------------------------------
(* Exports and backups *)

Unused == {f \in Files : ledgers[f] = None}
Deleted(rows) == {a \in Accounts : rows[a].status = "deleted"}

\* _verify_deleted_members: nothing private is left of these tombstones.
Verified(rows, S) == \A a \in S : ~rows[a].bucket

\* pg_advisory_xact_lock: no deletion between its lock and its commit.
Exclusive == export = None /\ sharing = {}

\* The coverage is read from the clock under the lock, then the tombstones.
\* One path is kept for the export that follows a stop (a bound).
ReadTombstones ==
    /\ Exclusive
    /\ Cardinality(Unused) > (IF mode = "serving" THEN 1 ELSE 0)
    /\ Verified(db, Deleted(db))
    /\ export' = [ledger |-> [through |-> clock, deletions |->
                       [a \in Accounts |-> IF a \in Deleted(db) THEN db[a].at ELSE None]],
                  path |-> None]
    /\ UNCHANGED <<serving, ledgers, recorded, backups, restoring>>

\* A temporary file, written and synced, is linked to the path, which must be new.
Publish(f) ==
    /\ export # None /\ export.path = None
    /\ ledgers[f] = None
    /\ ledgers' = [ledgers EXCEPT ![f] = export.ledger]
    /\ export' = [export EXCEPT !.path = f]
    /\ UNCHANGED <<serving, recorded, backups, restoring>>

\* The lock is released and the digest printed.
ReportDigest(f) ==
    /\ export # None /\ export.path = f
    /\ recorded' = recorded \cup {f}
    /\ export' = None
    /\ UNCHANGED <<serving, ledgers, backups, restoring>>

\* Another path remains (a bound).
KillExport ==
    /\ export # None /\ Unused # {}
    /\ export' = None
    /\ UNCHANGED <<serving, ledgers, recorded, backups, restoring>>

TakeBackup(b) ==
    /\ mode = "serving" /\ backups[b] = None
    /\ backups' = [backups EXCEPT ![b] = db]
    /\ UNCHANGED <<serving, exporting, restoring>>

-----------------------------------------------------------------------------
(* Restores *)

\* Requests in flight end with their workers.  Nothing else happens at that
\* instant, from which on a ledger must cover.
StopTraffic ==
    /\ mode = "serving" /\ clock < MaxTime /\ restores < MaxRestores
    /\ Unused # {} /\ \E b \in Backups : backups[b] # None
    /\ mode' = "stopped"
    /\ clock' = clock + 1 /\ stopped' = clock + 1
    /\ asked' = [a \in Accounts |-> None] /\ sharing' = {} /\ limiting' = {}
    /\ UNCHANGED <<db, users, exporting, backups, restored, replayed, covered, restores>>

SlipAnyLedger(f, since) == f \in recorded

\* prepare_deletion_replay
Prepared(f, since) == f \in recorded /\ ledgers[f].through >= since

Entries(f) == {a \in Accounts : ledgers[f].deletions[a] # None}

SlipNotTwice(f) == \A a \in Entries(f) : restored[a].status # "deleted"

\* A tombstone already there must be the ledger's, and verified.
Classified(f) ==
    LET there == Entries(f) \cap Deleted(restored) IN
    /\ \A a \in there : restored[a].at = ledgers[f].deletions[a]
    /\ Verified(restored, there)

Replayed(f) ==
    [a \in Accounts |-> IF a \in Entries(f) /\ restored[a].status = "active"
                        THEN Tombstone(ledgers[f].deletions[a]) ELSE restored[a]]

\* Into a new database; one to which a ledger could not be replayed is destroyed.
RestoreBackup(b) ==
    /\ mode = "stopped" /\ backups[b] # None
    /\ restored # None => \E f \in recorded : ~Classified(f)
    /\ restored' = backups[b]
    /\ replayed' = {} /\ covered' = FALSE
    /\ UNCHANGED <<serving, exporting, backups, stopped, restores>>

\* One transaction, given the coverage to require; killed after its commit, it
\* is not known to have been replayed.
ReplayLedger(f, since, known) ==
    /\ restored # None
    /\ Prepared(f, since)
    /\ Classified(f)
    /\ restored' = Replayed(f)
    /\ replayed' = IF known THEN replayed \cup {f} ELSE replayed
    /\ covered' = (covered \/ (known /\ since = stopped))
    /\ UNCHANGED <<serving, exporting, backups, stopped, restores>>

\* Every deletion that can be newer than the backup is replayed: the ledgers of
\* the time before an earlier restore too, which know of accounts it lost.
AdmitTraffic ==
    /\ restored # None /\ export = None
    /\ covered /\ recorded \subseteq replayed
    /\ mode' = "serving" /\ db' = restored
    /\ stopped' = None /\ restored' = None /\ replayed' = {} /\ covered' = FALSE
    /\ restores' = restores + 1
    /\ UNCHANGED <<clock, asked, sharing, limiting, users, exporting, backups>>

-----------------------------------------------------------------------------
Application == \E a \in Accounts : \/ Join(a) \/ AskDeletion(a) \/ LockLedger(a)
                                   \/ DeleteAccount(a) \/ AbandonDeletion(a)
                                   \/ BeginAttempt(a) \/ CountAttempt(a) \/ PruneBucket(a)
ExportStep == ReadTombstones \/ KillExport \/ \E f \in Files : Publish(f) \/ ReportDigest(f)
Replay == \E f \in Files, since \in {0, stopped}, known \in BOOLEAN : ReplayLedger(f, since, known)
Restore == \/ StopTraffic \/ AdmitTraffic \/ Replay
           \/ \E b \in Backups : RestoreBackup(b)

Next == Tick \/ Application \/ ExportStep \/ (\E b \in Backups : TakeBackup(b)) \/ Restore

Spec == Init /\ [][Next]_vars

\* The operator goes on with the restore, gives a killed command again, which is
\* not killed every time, and comes to a usable backup if there is one.
Usable(b) == backups[b] # None /\ Verified(backups[b], Deleted(backups[b]))
Fairness ==
    /\ WF_vars(mode = "stopped" /\ ReadTombstones) /\ WF_vars(AdmitTraffic)
    /\ SF_vars(\E f \in Files : Publish(f)) /\ SF_vars(\E f \in Files : ReportDigest(f))
    /\ SF_vars(\E b \in Backups : Usable(b) /\ RestoreBackup(b))
    /\ \A f \in Files : SF_vars(ReplayLedger(f, 0, TRUE))
    /\ SF_vars(\E f \in Files : ReplayLedger(f, stopped, TRUE))

FairSpec == Spec /\ Fairness
-----------------------------------------------------------------------------
(* Correctness *)

\* Clocks, databases, files and backups have their shape; what a deletion shares it has
\* asked for, and what has a digest on record is a file.
TypeOK == /\ clock \in Times /\ mode \in {"serving", "stopped"}
          /\ db \in Database /\ restored \in Database \cup {None}
          /\ asked \in [Accounts -> Times \cup {None}] /\ gone \in [Accounts -> Times \cup {None}]
          /\ sharing \subseteq {a \in Accounts : asked[a] # None}
          /\ limiting \subseteq Accounts /\ joined \subseteq Accounts
          /\ export \in Export \cup {None}
          /\ ledgers \in [Files -> Ledger \cup {None}]
          /\ recorded \subseteq Files \ Unused /\ replayed \subseteq recorded
          /\ backups \in [Backups -> Database \cup {None}]
          /\ stopped \in Times \cup {None} /\ covered \in BOOLEAN
          /\ restores \in 0..MaxRestores

\* Whatever backups are restored, a deleted account is never active again once
\* traffic is admitted, its tombstone keeps the time of the deletion, and nobody
\* else is deleted.
DeletionsSurviveRestores ==
    mode = "serving" =>
        \A a \in Accounts :
            /\ gone[a] # None => db[a].status # "active"
            /\ db[a].status = "deleted" => gone[a] # None /\ db[a].at = gone[a]

\* A deletion dated before the time a ledger covers is in the ledger.
LedgersAreComplete ==
    \A f \in recorded, a \in Accounts :
        gone[a] # None =>
            (gone[a] < ledgers[f].through => ledgers[f].deletions[a] = gone[a])

\* A stop ends with the service restored, unless a deleted account has rows left,
\* in the database or in every backup, that the export and the replay refuse.
RestoreCompletes ==
    (mode = "stopped" /\ Verified(db, Deleted(db)) /\ \E b \in Backups : Usable(b))
        ~> mode = "serving"
=============================================================================
