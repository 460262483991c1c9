----------------------- MODULE DeletionRecovery_proofs -----------------------
(***************************************************************************)
(* Proofs about DeletionRecovery, for every number of accounts, backups,   *)
(* ledger files and restores, and however far the clock runs.              *)
(***************************************************************************)
EXTENDS DeletionRecovery, TLAPS

\* Requests in flight are of active accounts of a database that serves.
RequestsInv ==
    /\ \A a \in Accounts : asked[a] # None => mode = "serving" /\ db[a].status = "active"
    /\ mode = "stopped" => limiting = {}

\* What a restore keeps is there exactly while traffic is stopped.
ModeInv ==
    /\ mode = "serving" => stopped = None /\ restored = None
    /\ mode = "stopped" => stopped # None /\ stopped <= clock /\ restores < MaxRestores
    /\ restored = None => replayed = {} /\ ~covered

\* Who is gone was a member, and is not one in the database.
GoneInv == \A a \in Accounts : gone[a] # None => a \in joined /\ db[a].status # "active"

\* A database knows only accounts that joined, and a tombstone in it is true.
True(rows, members, deletions) ==
    \A a \in Accounts :
        /\ rows[a].status # "none" => a \in members
        /\ rows[a].status = "deleted" => deletions[a] # None /\ rows[a].at = deletions[a]

TablesInv == /\ True(db, joined, gone)
             /\ restored # None => True(restored, joined, gone)
             /\ \A b \in Backups : backups[b] # None => True(backups[b], joined, gone)

\* A ledger is no younger than the clock, its entries are true, and one made since
\* traffic stopped has every tombstone of the database.
Sound(ledger) ==
    /\ ledger.through <= clock
    /\ \A a \in Accounts : ledger.deletions[a] # None => ledger.deletions[a] = gone[a]
    /\ mode = "stopped" /\ ledger.through >= stopped =>
          \A a \in Deleted(db) : ledger.deletions[a] # None

LedgersInv ==
    /\ \A f \in Files \ Unused : Sound(ledgers[f])
    /\ export # None => /\ Sound(export.ledger)
                        /\ export.path # None => export.path \notin Unused

\* A deletion the database does not show is in a ledger with a digest on record.
EvidenceInv ==
    \A a \in Accounts : gone[a] # None /\ db[a].status # "deleted" =>
        \E f \in recorded : a \in Entries(f)

\* What was replayed is done, and covering means that a ledger that covers was.
ReplayInv ==
    /\ \A f \in replayed : \A a \in Entries(f) : restored[a].status # "active"
    /\ covered => \E f \in replayed : ledgers[f].through >= stopped

Inductive == /\ TypeOK
             /\ RequestsInv
             /\ ModeInv
             /\ GoneInv
             /\ TablesInv
             /\ LedgersInv
             /\ EvidenceInv
             /\ ReplayInv

-----------------------------------------------------------------------------
(* Steps and types *)

\* The steps of the system; a replay is given a coverage or none.
LEMMA NextCases ==
    ASSUME Next
    PROVE  \/ Tick
           \/ \E a \in Accounts : \/ Join(a) \/ AskDeletion(a) \/ LockLedger(a)
                                  \/ DeleteAccount(a) \/ AbandonDeletion(a)
                                  \/ BeginAttempt(a) \/ CountAttempt(a) \/ PruneBucket(a)
           \/ ReadTombstones \/ KillExport
           \/ \E f \in Files : Publish(f) \/ ReportDigest(f)
           \/ \E b \in Backups : TakeBackup(b)
           \/ StopTraffic \/ AdmitTraffic
           \/ \E f \in Files, since \in {0, stopped}, known \in BOOLEAN : ReplayLedger(f, since, known)
           \/ \E b \in Backups : RestoreBackup(b)
BY DEF Next, Application, ExportStep, Restore, Replay

\* The rows that handlers write are rows.
LEMMA RowTypes ==
    /\ 0 \in Times /\ NoRow \in Row /\ Active \in Row
    /\ Active.status = "active" /\ NoRow.status = "none"
    /\ \A t \in Times : /\ Tombstone(t) \in Row
                        /\ Tombstone(t).status = "deleted" /\ Tombstone(t).at = t
<1>1. 0 \in Times
  BY BoundsAssumption DEF Times
<1>2. NoRow \in Row /\ NoRow.status = "none"
  BY <1>1 DEF NoRow, Row
<1>3. Active \in Row /\ Active.status = "active"
  BY <1>2 DEF Active, NoRow, Row
<1>4. \A t \in Times : Tombstone(t) \in Row /\ Tombstone(t).status = "deleted" /\ Tombstone(t).at = t
  BY DEF Tombstone, Row
<1> QED BY <1>1, <1>2, <1>3, <1>4

\* Writing a row, or the bucket column of one, leaves a database.
LEMMA RowWrite ==
    ASSUME NEW rows \in Database, NEW a \in Accounts, NEW row \in Row, NEW flag \in BOOLEAN
    PROVE  /\ [rows EXCEPT ![a] = row] \in Database
           /\ [rows EXCEPT ![a].bucket = flag] \in Database
           /\ LET next == [rows EXCEPT ![a].bucket = flag] IN
              \A x \in Accounts : next[x].status = rows[x].status /\ next[x].at = rows[x].at
<1> DEFINE next == [rows EXCEPT ![a].bucket = flag]
           t == [rows[a] EXCEPT !.bucket = flag]
<1>1. rows[a] \in Row
  BY DEF Database
<1>2. t \in Row /\ t.status = rows[a].status /\ t.at = rows[a].at
  BY <1>1 DEF Row
<1>3. next = [rows EXCEPT ![a] = t]
  OBVIOUS
<1> HIDE DEF t, next
<1>4. next \in Database /\ [rows EXCEPT ![a] = row] \in Database
  BY <1>2, <1>3 DEF Database
<1>5. \A x \in Accounts : next[x] = IF x = a THEN t ELSE rows[x]
  BY <1>3 DEF Database
<1>6. \A x \in Accounts : next[x].status = rows[x].status /\ next[x].at = rows[x].at
  BY <1>2, <1>5
<1> QED BY <1>4, <1>6 DEF next

\* A ledger read from a database holds the times of its tombstones.
LEMMA ReadType ==
    ASSUME TypeOK, ReadTombstones
    PROVE  /\ export' \in Export /\ export' # None
           /\ export'.path = None /\ export'.ledger \in Ledger
           /\ export'.ledger.through = clock
           /\ \A a \in Accounts : export'.ledger.deletions[a]
                                     = IF a \in Deleted(db) THEN db[a].at ELSE None
<1> DEFINE d == [a \in Accounts |-> IF a \in Deleted(db) THEN db[a].at ELSE None]
           l == [through |-> clock, deletions |-> d]
           e == [ledger |-> l, path |-> None]
<1>1. export' = e
  BY DEF ReadTombstones
<1>2. d \in [Accounts -> Times \cup {None}]
  BY DEF TypeOK, Database, Row
<1> HIDE DEF d
<1>3. l \in Ledger
  BY <1>2 DEF Ledger, TypeOK
<1>4. l.through = clock /\ l.deletions = d
  OBVIOUS
<1> HIDE DEF l
<1>5. e \in Export /\ e.ledger = l /\ e.path = None
  BY <1>3 DEF Export
<1> HIDE DEF e
<1>6. e # None
  BY <1>5, NoneAssumption
<1>7. \A a \in Accounts : d[a] = IF a \in Deleted(db) THEN db[a].at ELSE None
  BY DEF d
<1> QED BY <1>1, <1>3, <1>4, <1>5, <1>6, <1>7

\* Publishing writes the ledger that was read to one unused path.
LEMMA PublishFacts ==
    ASSUME TypeOK, NEW f \in Files, Publish(f)
    PROVE  /\ export \in Export /\ export.ledger \in Ledger /\ export.ledger # None
           /\ f \in Unused /\ Unused' = Unused \ {f}
           /\ ledgers' = [ledgers EXCEPT ![f] = export.ledger]
           /\ ledgers' \in [Files -> Ledger \cup {None}]
           /\ export' \in Export /\ export' # None
           /\ export'.ledger = export.ledger /\ export'.path = f
<1>1. export \in Export /\ ledgers[f] = None
  BY DEF Publish, TypeOK
<1>2. export.ledger \in Ledger /\ export.ledger # None
  BY <1>1, NoneAssumption DEF Export
<1>3. ledgers' = [ledgers EXCEPT ![f] = export.ledger]
      /\ export' = [export EXCEPT !.path = f]
  BY DEF Publish
<1>4. export' \in Export /\ export'.ledger = export.ledger /\ export'.path = f
  BY <1>1, <1>3 DEF Export
<1>5. export' # None
  BY <1>4, NoneAssumption
<1>6. Unused' = Unused \ {f} /\ f \in Unused /\ ledgers' \in [Files -> Ledger \cup {None}]
  BY <1>1, <1>2, <1>3 DEF Unused, TypeOK
<1> QED BY <1>1, <1>2, <1>3, <1>4, <1>5, <1>6

\* A replay makes tombstones of active accounts only, with the times of the ledger.
LEMMA ReplayFacts ==
    ASSUME TypeOK, NEW f \in Files, NEW since, NEW known \in BOOLEAN, ReplayLedger(f, since, known)
    PROVE  /\ restored \in Database /\ ledgers[f] \in Ledger /\ f \in recorded
           /\ ledgers[f].through >= since
           /\ restored' \in Database /\ restored' # None
           /\ \A a \in Accounts :
                IF a \in Entries(f) /\ restored[a].status = "active"
                THEN restored'[a].status = "deleted" /\ restored'[a].at = ledgers[f].deletions[a]
                ELSE restored'[a] = restored[a]
<1>1. restored \in Database /\ f \in recorded /\ ledgers[f].through >= since
      /\ restored' = Replayed(f)
  BY DEF ReplayLedger, Prepared, TypeOK
<1>2. ledgers[f] \in Ledger
  BY <1>1 DEF TypeOK, Unused
<1>3. \A a \in Entries(f) : ledgers[f].deletions[a] \in Times
  BY <1>2 DEF Ledger, Entries
<1>4. Replayed(f) \in Database
  BY <1>1, <1>3, RowTypes DEF Replayed, Database
<1>5. \A a \in Accounts :
        Replayed(f)[a] = IF a \in Entries(f) /\ restored[a].status = "active"
                         THEN Tombstone(ledgers[f].deletions[a]) ELSE restored[a]
  BY DEF Replayed
<1>6. Replayed(f) # None
  BY <1>4, NoneAssumption
<1> QED BY <1>1, <1>2, <1>3, <1>4, <1>5, <1>6, RowTypes

\* Every step writes values of the right types.
LEMMA TypePreserved == Inductive /\ [Next]_vars => TypeOK'
<1> SUFFICES ASSUME Inductive, [Next]_vars PROVE TypeOK'
  OBVIOUS
<1>t. TypeOK /\ ModeInv /\ RequestsInv /\ LedgersInv
  BY DEF Inductive
<1>0. CASE UNCHANGED vars
  BY <1>t, <1>0 DEF TypeOK, vars, serving, exporting, restoring, users, Unused
<1>1. CASE Tick
  BY <1>t, <1>1, BoundsAssumption
     DEF TypeOK, Tick, Times, exporting, restoring, users, Unused
<1>2. ASSUME NEW a \in Accounts, \/ AskDeletion(a) \/ LockLedger(a) \/ AbandonDeletion(a)
                                 \/ BeginAttempt(a)
      PROVE  TypeOK'
  <2>1. UNCHANGED <<clock, mode, db, users, exporting, backups, restoring>>
    BY <1>2 DEF AskDeletion, LockLedger, AbandonDeletion, BeginAttempt
  <2>2. /\ asked' \in [Accounts -> Times \cup {None}]
        /\ sharing' \subseteq {x \in Accounts : asked'[x] # None}
        /\ limiting' \subseteq Accounts
    BY <1>2, <1>t DEF TypeOK, AskDeletion, LockLedger, AbandonDeletion, BeginAttempt
  <2> QED BY <1>t, <2>1, <2>2 DEF TypeOK, exporting, restoring, users, Unused
<1>3. ASSUME NEW a \in Accounts, \/ Join(a) \/ DeleteAccount(a) \/ CountAttempt(a) \/ PruneBucket(a)
      PROVE  TypeOK'
  <2>1. UNCHANGED <<clock, mode, exporting, backups, restoring>>
    BY <1>3 DEF Join, DeleteAccount, CountAttempt, PruneBucket
  <2>2. db' \in Database
    <3>1. CASE Join(a)
      BY <1>t, <3>1, RowTypes, RowWrite DEF Join, TypeOK
    <3>2. CASE DeleteAccount(a)
      <4>1. asked[a] \in Times
        BY <1>t, <3>2 DEF DeleteAccount, TypeOK
      <4> QED BY <1>t, <3>2, <4>1, RowTypes, RowWrite DEF DeleteAccount, TypeOK
    <3>3. CASE CountAttempt(a)
      <4> DEFINE flag == db[a].status = "deleted"
      <4>1. flag \in BOOLEAN /\ db' = [db EXCEPT ![a].bucket = flag]
        BY <3>3 DEF CountAttempt
      <4> HIDE DEF flag
      <4> QED BY <1>t, <4>1, RowTypes, RowWrite DEF TypeOK
    <3>4. CASE PruneBucket(a)
      <4>1. FALSE \in BOOLEAN
        OBVIOUS
      <4> QED BY <1>t, <3>4, <4>1, RowTypes, RowWrite DEF PruneBucket, TypeOK
    <3> QED BY <1>3, <3>1, <3>2, <3>3, <3>4
  <2>3. /\ asked' \in [Accounts -> Times \cup {None}] /\ gone' \in [Accounts -> Times \cup {None}]
        /\ sharing' \subseteq {x \in Accounts : asked'[x] # None}
        /\ limiting' \subseteq Accounts /\ joined' \subseteq Accounts
    BY <1>3, <1>t DEF TypeOK, Join, DeleteAccount, CountAttempt, PruneBucket, users
  <2> QED BY <1>t, <2>1, <2>2, <2>3 DEF TypeOK, exporting, restoring, Unused
<1>4. CASE ReadTombstones
  BY <1>t, <1>4, ReadType DEF ReadTombstones, TypeOK, serving, users, restoring, Unused
<1>5. CASE KillExport
  BY <1>t, <1>5 DEF KillExport, TypeOK, serving, users, restoring, Unused
<1>6. ASSUME NEW f \in Files, Publish(f)
      PROVE  TypeOK'
  <2>1. recorded' = recorded /\ recorded \subseteq Files \ Unused'
    BY <1>t, <1>6, PublishFacts DEF Publish, TypeOK
  <2> QED BY <1>t, <1>6, <2>1, PublishFacts DEF Publish, TypeOK, serving, users, restoring
<1>7. ASSUME NEW f \in Files, ReportDigest(f)
      PROVE  TypeOK'
  <2>1. f \notin Unused
    BY <1>t, <1>7, NoneAssumption DEF ReportDigest, LedgersInv
  <2> QED BY <1>t, <1>7, <2>1 DEF ReportDigest, TypeOK, serving, users, restoring, Unused
<1>8. ASSUME NEW b \in Backups, TakeBackup(b)
      PROVE  TypeOK'
  BY <1>t, <1>8 DEF TakeBackup, TypeOK, serving, exporting, users, restoring, Unused
<1>9. CASE StopTraffic
  BY <1>t, <1>9, BoundsAssumption DEF StopTraffic, TypeOK, exporting, users, Times, Unused
<1>10. CASE AdmitTraffic
  <2>1. restored \in Database /\ mode = "stopped" /\ restores + 1 \in 0..MaxRestores
    BY <1>t, <1>10, BoundsAssumption DEF AdmitTraffic, TypeOK, ModeInv
  <2> QED BY <1>t, <1>10, <2>1 DEF AdmitTraffic, TypeOK, exporting, users, Unused
<1>11. ASSUME NEW f \in Files, NEW since \in {0, stopped}, NEW known \in BOOLEAN,
              ReplayLedger(f, since, known)
       PROVE  TypeOK'
  <2>1. replayed' \subseteq recorded /\ covered' \in BOOLEAN
    BY <1>t, <1>11, ReplayFacts DEF ReplayLedger, TypeOK
  <2> QED BY <1>t, <1>11, <2>1, ReplayFacts DEF ReplayLedger, TypeOK, serving, exporting, users, Unused
<1>12. ASSUME NEW b \in Backups, RestoreBackup(b)
       PROVE  TypeOK'
  BY <1>t, <1>12 DEF RestoreBackup, TypeOK, serving, exporting, users, Unused
<1> QED BY <1>0, <1>1, <1>2, <1>3, <1>4, <1>5, <1>6, <1>7, <1>8, <1>9, <1>10, <1>11, <1>12, NextCases

-----------------------------------------------------------------------------
(* What the steps do to accounts and to files *)

SameAccounts(rows, other) ==
    \A a \in Accounts : rows[a].status = other[a].status /\ rows[a].at = other[a].at

\* A deletion is of an active account of the database that serves, which was not gone.
LEMMA DeletionFacts ==
    ASSUME Inductive, NEW a \in Accounts, DeleteAccount(a)
    PROVE  /\ mode = "serving" /\ db[a].status = "active" /\ gone[a] = None /\ a \in joined
           /\ asked[a] \in Times /\ asked[a] # None
           /\ db' \in Database /\ db'[a].status = "deleted" /\ db'[a].at = asked[a]
           /\ gone' = [gone EXCEPT ![a] = asked[a]] /\ joined' = joined
           /\ \A x \in Accounts \ {a} : db'[x] = db[x] /\ gone'[x] = gone[x]
<1>1. asked[a] \in Times /\ asked[a] # None
  BY NoneAssumption DEF DeleteAccount, Inductive, TypeOK
<1>2. mode = "serving" /\ db[a].status = "active"
  BY <1>1 DEF Inductive, RequestsInv
<1>3. gone[a] = None /\ a \in joined
  BY <1>2 DEF Inductive, GoneInv, TablesInv, True
<1>4. db' = [db EXCEPT ![a] = Tombstone(asked[a])] /\ gone' = [gone EXCEPT ![a] = asked[a]]
      /\ joined' = joined
  BY DEF DeleteAccount
<1>5. db' \in Database
  BY <1>1, <1>4, RowTypes, RowWrite DEF Inductive, TypeOK
<1>6. db'[a] = Tombstone(asked[a]) /\ \A x \in Accounts \ {a} : db'[x] = db[x] /\ gone'[x] = gone[x]
  BY <1>4 DEF Inductive, TypeOK, Database
<1> QED BY <1>1, <1>2, <1>3, <1>4, <1>5, <1>6, RowTypes

\* An account that joins was neither known nor gone.
LEMMA JoinFacts ==
    ASSUME Inductive, NEW a \in Accounts, Join(a)
    PROVE  /\ mode = "serving" /\ gone[a] = None
           /\ asked[a] = None
           /\ db'[a].status = "active" /\ joined' = joined \cup {a} /\ gone' = gone
           /\ \A x \in Accounts \ {a} : db'[x] = db[x]
<1>1. mode = "serving" /\ a \notin joined /\ gone[a] = None
  BY DEF Join, Inductive, GoneInv
<1>2. db[a].status = "none"
  BY <1>1 DEF Inductive, TablesInv, True
<1>3. asked[a] = None
  BY <1>2 DEF Inductive, RequestsInv
<1>4. db' = [db EXCEPT ![a] = Active] /\ joined' = joined \cup {a} /\ gone' = gone
  BY DEF Join, users
<1>5. db'[a] = Active /\ \A x \in Accounts \ {a} : db'[x] = db[x]
  BY <1>4 DEF Inductive, TypeOK, Database
<1> QED BY <1>1, <1>3, <1>4, <1>5, RowTypes

\* Nothing but joining, deletions and traffic admitted to another database changes what
\* a database says of an account, and nothing else but a bucket changes in it.
LEMMA AccountSteps ==
    ASSUME Inductive, [Next]_vars
    PROVE  \/ /\ UNCHANGED users /\ SameAccounts(db', db)
              /\ mode = "stopped" => db' = db
           \/ AdmitTraffic
           \/ \E a \in Accounts : Join(a)
           \/ \E a \in Accounts : DeleteAccount(a)
<1>t. TypeOK /\ RequestsInv
  BY DEF Inductive
<1>0. CASE UNCHANGED vars
  BY <1>0 DEF vars, serving, users, SameAccounts
<1>1. CASE Tick
  BY <1>1 DEF Tick, users, SameAccounts
<1>2. ASSUME NEW a \in Accounts, \/ AskDeletion(a) \/ LockLedger(a) \/ AbandonDeletion(a)
                                 \/ BeginAttempt(a)
      PROVE  UNCHANGED <<db, users>>
  BY <1>2 DEF AskDeletion, LockLedger, AbandonDeletion, BeginAttempt
<1>3. ASSUME NEW a \in Accounts, \/ CountAttempt(a) \/ PruneBucket(a)
      PROVE  UNCHANGED users /\ SameAccounts(db', db) /\ mode # "stopped"
  <2>1. mode # "stopped" /\ UNCHANGED users
    BY <1>3, <1>t DEF CountAttempt, PruneBucket, RequestsInv
  <2>2. PICK flag \in BOOLEAN : db' = [db EXCEPT ![a].bucket = flag]
    <3> DEFINE deleted == db[a].status = "deleted"
    <3>1. CASE CountAttempt(a)
      <4>1. deleted \in BOOLEAN /\ db' = [db EXCEPT ![a].bucket = deleted]
        BY <3>1 DEF CountAttempt
      <4> HIDE DEF deleted
      <4> QED BY <4>1
    <3>2. CASE PruneBucket(a)
      BY <3>2 DEF PruneBucket
    <3> QED BY <1>3, <3>1, <3>2
  <2>3. SameAccounts(db', db)
    BY <1>t, <2>2, RowTypes, RowWrite DEF SameAccounts, TypeOK
  <2> QED BY <2>1, <2>3
<1>4. CASE ReadTombstones \/ KillExport \/ \E f \in Files : Publish(f) \/ ReportDigest(f)
  BY <1>4 DEF ReadTombstones, KillExport, Publish, ReportDigest, serving, users, SameAccounts
<1>5. CASE \E b \in Backups : TakeBackup(b) \/ RestoreBackup(b)
  BY <1>5 DEF TakeBackup, RestoreBackup, serving, users, SameAccounts
<1>6. CASE StopTraffic
  BY <1>6 DEF StopTraffic, users, SameAccounts
<1>7. CASE \E f \in Files, since \in {0, stopped}, known \in BOOLEAN : ReplayLedger(f, since, known)
  BY <1>7 DEF ReplayLedger, serving, users, SameAccounts
<1>8. (UNCHANGED <<db, users>>) => (UNCHANGED users /\ SameAccounts(db', db) /\ db' = db)
  BY DEF SameAccounts
<1> QED BY <1>0, <1>1, <1>2, <1>3, <1>4, <1>5, <1>6, <1>7, <1>8, NextCases

\* A file once written stays as it is, and a digest on record stays on record.
LEMMA FilesStay ==
    ASSUME Inductive, [Next]_vars
    PROVE  /\ \A f \in Files \ Unused : f \notin Unused' /\ ledgers'[f] = ledgers[f]
           /\ recorded \subseteq recorded'
<1>t. TypeOK
  BY DEF Inductive
<1>1. CASE UNCHANGED vars
  BY <1>1 DEF vars, exporting, Unused
<1>2. CASE Tick \/ StopTraffic \/ AdmitTraffic
  BY <1>2 DEF Tick, StopTraffic, AdmitTraffic, exporting, Unused
<1>3. ASSUME NEW a \in Accounts, \/ Join(a) \/ AskDeletion(a) \/ LockLedger(a)
                                 \/ DeleteAccount(a) \/ AbandonDeletion(a)
                                 \/ BeginAttempt(a) \/ CountAttempt(a) \/ PruneBucket(a)
      PROVE  UNCHANGED exporting
  BY <1>3 DEF Join, AskDeletion, LockLedger, DeleteAccount, AbandonDeletion, BeginAttempt,
              CountAttempt, PruneBucket
<1>4. CASE ReadTombstones \/ KillExport \/ \E f \in Files : ReportDigest(f)
  BY <1>4 DEF ReadTombstones, KillExport, ReportDigest, Unused
<1>5. ASSUME NEW f \in Files, Publish(f)
      PROVE  /\ \A g \in Files \ Unused : g \notin Unused' /\ ledgers'[g] = ledgers[g]
             /\ recorded \subseteq recorded'
  BY <1>5, <1>t, PublishFacts DEF Publish, TypeOK
<1>6. CASE \E b \in Backups : TakeBackup(b) \/ RestoreBackup(b)
  BY <1>6 DEF TakeBackup, RestoreBackup, exporting, Unused
<1>7. CASE \E f \in Files, since \in {0, stopped}, known \in BOOLEAN : ReplayLedger(f, since, known)
  BY <1>7 DEF ReplayLedger, exporting, Unused
<1>8. (UNCHANGED exporting) => /\ \A f \in Files \ Unused : f \notin Unused' /\ ledgers'[f] = ledgers[f]
                               /\ recorded \subseteq recorded'
  BY DEF exporting, Unused
<1> QED BY <1>1, <1>2, <1>3, <1>4, <1>5, <1>6, <1>7, <1>8, NextCases

-----------------------------------------------------------------------------
(* The parts of the invariant, one by one *)

\* Requests stay with active accounts, and end when traffic stops.
LEMMA RequestsPreserved == Inductive /\ [Next]_vars => RequestsInv'
<1> SUFFICES ASSUME Inductive, [Next]_vars PROVE RequestsInv'
  OBVIOUS
<1>t. TypeOK /\ RequestsInv /\ ModeInv
  BY DEF Inductive
<1>0. CASE UNCHANGED vars
  BY <1>t, <1>0 DEF vars, serving, RequestsInv
<1>1. CASE Tick
  BY <1>t, <1>1 DEF Tick, RequestsInv
<1>2. ASSUME NEW a \in Accounts, \/ AskDeletion(a) \/ LockLedger(a) \/ AbandonDeletion(a)
                                 \/ BeginAttempt(a)
      PROVE  RequestsInv'
  <2>1. UNCHANGED <<mode, db>> /\ (mode = "stopped" => limiting' = limiting \/ BeginAttempt(a))
    BY <1>2 DEF AskDeletion, LockLedger, AbandonDeletion, BeginAttempt
  <2>2. \A x \in Accounts : asked'[x] # None => asked[x] # None \/ (x = a /\ AskDeletion(a))
    BY <1>2, <1>t DEF AskDeletion, LockLedger, AbandonDeletion, BeginAttempt, TypeOK
  <2>3. (AskDeletion(a) => mode = "serving" /\ db[a].status = "active")
        /\ (BeginAttempt(a) => mode = "serving")
    BY DEF AskDeletion, BeginAttempt
  <2>4. mode # "serving" \/ mode # "stopped"
    OBVIOUS
  <2> QED BY <1>t, <2>1, <2>2, <2>3, <2>4 DEF RequestsInv
<1>3. ASSUME NEW a \in Accounts, Join(a)
      PROVE  RequestsInv'
  <2>1. UNCHANGED <<mode, asked, limiting>>
    BY <1>3 DEF Join
  <2> QED BY <1>t, <1>3, <2>1, JoinFacts DEF RequestsInv
<1>4. ASSUME NEW a \in Accounts, DeleteAccount(a)
      PROVE  RequestsInv'
  <2>1. UNCHANGED <<mode, limiting>> /\ asked' = [asked EXCEPT ![a] = None]
    BY <1>4 DEF DeleteAccount
  <2>2. asked'[a] = None /\ \A x \in Accounts \ {a} : asked'[x] = asked[x]
    BY <1>t, <2>1 DEF TypeOK
  <2> QED BY <1>t, <1>4, <2>1, <2>2, DeletionFacts DEF RequestsInv
<1>5. ASSUME NEW a \in Accounts, \/ CountAttempt(a) \/ PruneBucket(a)
      PROVE  RequestsInv'
  <2>1. UNCHANGED <<mode, asked, users>> /\ limiting' \subseteq limiting
        /\ ~(\E x \in Accounts : Join(x) \/ DeleteAccount(x)) /\ ~AdmitTraffic
    <3>1. UNCHANGED <<mode, asked, users>> /\ limiting' \subseteq limiting
      BY <1>5 DEF CountAttempt, PruneBucket
    <3>2. ~(\E x \in Accounts : Join(x))
      BY <3>1, <1>t DEF Join, users, TypeOK
    <3>3. ~(\E x \in Accounts : DeleteAccount(x))
      BY <3>1, <1>t, DeletionFacts DEF users, TypeOK
    <3>4. ~AdmitTraffic
      BY <3>1, <1>t DEF AdmitTraffic, ModeInv
    <3> QED BY <3>1, <3>2, <3>3, <3>4
  <2>2. SameAccounts(db', db)
    BY <1>5, <2>1, AccountSteps DEF Next, Application
  <2> QED BY <1>t, <2>1, <2>2 DEF RequestsInv, SameAccounts
<1>6. CASE ReadTombstones \/ KillExport \/ \E f \in Files : Publish(f) \/ ReportDigest(f)
  BY <1>t, <1>6 DEF ReadTombstones, KillExport, Publish, ReportDigest, serving, RequestsInv
<1>7. CASE \E b \in Backups : TakeBackup(b) \/ RestoreBackup(b)
  BY <1>t, <1>7 DEF TakeBackup, RestoreBackup, serving, RequestsInv
<1>8. CASE StopTraffic
  BY <1>8 DEF StopTraffic, RequestsInv
<1>9. CASE AdmitTraffic
  <2>1. mode = "stopped"
    BY <1>t, <1>9 DEF AdmitTraffic, ModeInv, TypeOK
  <2>2. \A a \in Accounts : asked[a] = None
    BY <1>t, <2>1 DEF RequestsInv
  <2> QED BY <1>9, <2>2 DEF AdmitTraffic, RequestsInv
<1>10. CASE \E f \in Files, since \in {0, stopped}, known \in BOOLEAN : ReplayLedger(f, since, known)
  BY <1>t, <1>10 DEF ReplayLedger, serving, RequestsInv
<1> QED BY <1>0, <1>1, <1>2, <1>3, <1>4, <1>5, <1>6, <1>7, <1>8, <1>9, <1>10, NextCases

\* The steps that leave the restore and the clock alone.
LEMMA OutsideRestore ==
    ASSUME Next
    PROVE  \/ UNCHANGED <<clock, mode, restoring>>
           \/ Tick \/ StopTraffic \/ AdmitTraffic
           \/ \E f \in Files, since \in {0, stopped}, known \in BOOLEAN : ReplayLedger(f, since, known)
           \/ \E b \in Backups : RestoreBackup(b)
<1>1. ASSUME NEW a \in Accounts, \/ Join(a) \/ AskDeletion(a) \/ LockLedger(a)
                                 \/ DeleteAccount(a) \/ AbandonDeletion(a)
                                 \/ BeginAttempt(a) \/ CountAttempt(a) \/ PruneBucket(a)
      PROVE  UNCHANGED <<clock, mode, restoring>>
  BY <1>1 DEF Join, AskDeletion, LockLedger, DeleteAccount, AbandonDeletion, BeginAttempt,
              CountAttempt, PruneBucket
<1>2. CASE ReadTombstones \/ KillExport \/ \E f \in Files : Publish(f) \/ ReportDigest(f)
  BY <1>2 DEF ReadTombstones, KillExport, Publish, ReportDigest, serving
<1>3. CASE \E b \in Backups : TakeBackup(b)
  BY <1>3 DEF TakeBackup, serving
<1> QED BY <1>1, <1>2, <1>3, NextCases

\* The isolated database is there, if at all, while traffic is stopped.
LEMMA ModePreserved == Inductive /\ [Next]_vars => ModeInv'
<1> SUFFICES ASSUME Inductive, [Next]_vars PROVE ModeInv'
  OBVIOUS
<1>t. TypeOK /\ ModeInv
  BY DEF Inductive
<1>n. clock \in Nat /\ (stopped # None => stopped \in Nat) /\ restores \in Nat
  BY <1>t DEF TypeOK, Times
<1>0. CASE UNCHANGED vars \/ UNCHANGED <<clock, mode, restoring>>
  BY <1>t, <1>0 DEF vars, serving, restoring, ModeInv
<1>1. CASE Tick
  BY <1>t, <1>n, <1>1 DEF Tick, restoring, ModeInv
<1>2. CASE StopTraffic
  BY <1>t, <1>n, <1>2, NoneAssumption DEF StopTraffic, ModeInv
<1>3. CASE AdmitTraffic
  BY <1>3 DEF AdmitTraffic, ModeInv
<1>4. ASSUME NEW f \in Files, NEW since \in {0, stopped}, NEW known \in BOOLEAN,
             ReplayLedger(f, since, known)
      PROVE  ModeInv'
  <2>1. restored # None /\ restored' # None
    BY <1>t, <1>4, ReplayFacts DEF ReplayLedger
  <2>2. UNCHANGED <<mode, clock, stopped, restores>>
    BY <1>4 DEF ReplayLedger, serving
  <2> QED BY <1>t, <2>1, <2>2 DEF ModeInv
<1>5. ASSUME NEW b \in Backups, RestoreBackup(b)
      PROVE  ModeInv'
  <2>1. mode = "stopped" /\ restored' # None
    BY <1>t, <1>5, NoneAssumption DEF RestoreBackup, TypeOK
  <2>2. UNCHANGED <<mode, clock, stopped, restores>>
    BY <1>5 DEF RestoreBackup, serving
  <2> QED BY <1>t, <2>1, <2>2 DEF ModeInv
<1> QED BY <1>0, <1>1, <1>2, <1>3, <1>4, <1>5, OutsideRestore

\* What is true of a database stays true: deletions are of active accounts, once.
LEMMA TruthStays ==
    ASSUME Inductive, [Next]_vars
    PROVE  \A rows : True(rows, joined, gone) => True(rows, joined', gone')
<1>1. CASE UNCHANGED users
  BY <1>1 DEF users
<1>2. CASE AdmitTraffic
  BY <1>2 DEF AdmitTraffic, users
<1>3. ASSUME NEW a \in Accounts, Join(a)
      PROVE  joined \subseteq joined' /\ gone' = gone
  BY <1>3, JoinFacts
<1>4. ASSUME NEW a \in Accounts, DeleteAccount(a)
      PROVE  joined' = joined /\ \A x \in Accounts : gone[x] # None => gone'[x] = gone[x]
  <2>1. gone[a] = None /\ joined' = joined /\ \A x \in Accounts \ {a} : gone'[x] = gone[x]
    BY <1>4, DeletionFacts
  <2> QED BY <2>1
<1>5. joined \subseteq joined' /\ \A x \in Accounts : gone[x] # None => gone'[x] = gone[x]
  BY <1>1, <1>2, <1>3, <1>4, AccountSteps DEF users, AdmitTraffic
<1> QED BY <1>5 DEF True

\* A deletion the database does not show is in a ledger that was replayed, and so is, once
\* the coverage is there, every other one.
LEMMA GoneAreReplayed ==
    ASSUME Inductive, AdmitTraffic
    PROVE  /\ \A a \in Accounts : gone[a] # None => \E f \in recorded : a \in Entries(f)
           /\ \A a \in Accounts : gone[a] # None => restored[a].status # "active"
<1>t. TypeOK /\ ModeInv /\ GoneInv /\ LedgersInv /\ EvidenceInv /\ ReplayInv
  BY DEF Inductive
<1>1. mode = "stopped" /\ covered /\ recorded \subseteq replayed
  BY <1>t DEF AdmitTraffic, ModeInv, TypeOK
<1>2. PICK f \in replayed : ledgers[f].through >= stopped
  BY <1>t, <1>1 DEF ReplayInv
<1>3. f \in recorded /\ f \in Files \ Unused
  BY <1>t DEF TypeOK
<1>4. \A a \in Deleted(db) : a \in Entries(f)
  BY <1>t, <1>1, <1>2, <1>3 DEF LedgersInv, Sound, Entries, Deleted
<1>5. \A a \in Accounts : gone[a] # None => \E g \in recorded : a \in Entries(g)
  BY <1>t, <1>3, <1>4 DEF EvidenceInv, Deleted
<1>6. \A a \in Accounts : gone[a] # None => restored[a].status # "active"
  BY <1>t, <1>1, <1>5 DEF ReplayInv
<1> QED BY <1>5, <1>6

\* The deleted stay deleted, through every restore.
LEMMA GonePreserved == Inductive /\ [Next]_vars => GoneInv'
<1> SUFFICES ASSUME Inductive, [Next]_vars PROVE GoneInv'
  OBVIOUS
<1>t. TypeOK /\ GoneInv
  BY DEF Inductive
<1>1. CASE UNCHANGED users /\ SameAccounts(db', db)
  BY <1>t, <1>1 DEF users, SameAccounts, GoneInv
<1>2. CASE AdmitTraffic
  <2>1. db' = restored /\ gone' = gone /\ joined' = joined
    BY <1>2 DEF AdmitTraffic, users
  <2> QED BY <1>t, <1>2, <2>1, GoneAreReplayed DEF GoneInv
<1>3. ASSUME NEW a \in Accounts, Join(a)
      PROVE  GoneInv'
  BY <1>t, <1>3, JoinFacts DEF GoneInv
<1>4. ASSUME NEW a \in Accounts, DeleteAccount(a)
      PROVE  GoneInv'
  <2>1. a \in joined' /\ db'[a].status # "active"
    BY <1>4, DeletionFacts
  <2>2. joined' = joined /\ \A x \in Accounts \ {a} : db'[x] = db[x] /\ gone'[x] = gone[x]
    BY <1>4, DeletionFacts
  <2> QED BY <1>t, <2>1, <2>2 DEF GoneInv
<1> QED BY <1>1, <1>2, <1>3, <1>4, AccountSteps

\* Every database, the isolated one and the backups say nothing false.
LEMMA TablesPreserved == Inductive /\ [Next]_vars => TablesInv'
<1> SUFFICES ASSUME Inductive, [Next]_vars PROVE TablesInv'
  OBVIOUS
<1>t. TypeOK /\ TablesInv /\ LedgersInv /\ ModeInv
  BY DEF Inductive
<1>s. \A rows : True(rows, joined, gone) => True(rows, joined', gone')
  BY TruthStays
<1>1. True(db, joined', gone')
  BY <1>t, <1>s DEF TablesInv
<1>2. True(db', joined', gone')
  <2>1. CASE UNCHANGED users /\ SameAccounts(db', db)
    BY <1>1, <2>1 DEF True, SameAccounts
  <2>2. CASE AdmitTraffic
    <3>1. db' = restored /\ restored # None
      BY <2>2 DEF AdmitTraffic
    <3> QED BY <1>t, <1>s, <3>1 DEF TablesInv
  <2>3. ASSUME NEW a \in Accounts, Join(a)
        PROVE  True(db', joined', gone')
    BY <1>1, <2>3, JoinFacts DEF True
  <2>4. ASSUME NEW a \in Accounts, DeleteAccount(a)
        PROVE  True(db', joined', gone')
    <3>1. gone'[a] = asked[a] /\ asked[a] # None
      BY <1>t, <2>4, DeletionFacts DEF TypeOK
    <3> QED BY <1>1, <2>4, <3>1, DeletionFacts DEF True
  <2> QED BY <2>1, <2>2, <2>3, <2>4, AccountSteps
<1>3. restored' # None => True(restored', joined', gone')
  <2>1. CASE UNCHANGED restored
    BY <1>t, <1>s, <2>1 DEF TablesInv
  <2>2. ASSUME NEW f \in Files, NEW since \in {0, stopped}, NEW known \in BOOLEAN,
               ReplayLedger(f, since, known)
        PROVE  True(restored', joined', gone')
    <3>1. True(restored, joined, gone) /\ UNCHANGED users
      BY <1>t, <2>2 DEF ReplayLedger, serving, TablesInv
    <3>2. \A a \in Entries(f) : gone[a] # None /\ ledgers[f].deletions[a] = gone[a]
      BY <1>t, <2>2, ReplayFacts DEF LedgersInv, Sound, Entries, TypeOK
    <3>3. \A a \in Accounts :
            IF a \in Entries(f) /\ restored[a].status = "active"
            THEN restored'[a].status = "deleted" /\ restored'[a].at = ledgers[f].deletions[a]
            ELSE restored'[a] = restored[a]
      BY <1>t, <2>2, ReplayFacts
    <3>4. True(restored', joined, gone)
      BY <3>1, <3>2, <3>3 DEF True
    <3> QED BY <3>1, <3>4 DEF users
  <2>3. ASSUME NEW b \in Backups, RestoreBackup(b)
        PROVE  True(restored', joined', gone')
    BY <1>t, <1>s, <2>3 DEF RestoreBackup, TablesInv
  <2>4. CASE Tick \/ StopTraffic \/ AdmitTraffic \/ UNCHANGED restoring
    BY <1>t, <1>s, <2>1, <2>4 DEF Tick, StopTraffic, AdmitTraffic, restoring
  <2>5. CASE UNCHANGED vars
    BY <2>1, <2>5 DEF vars, restoring
  <2> QED BY <2>2, <2>3, <2>4, <2>5, OutsideRestore DEF restoring
<1>4. ASSUME NEW c \in Backups, backups'[c] # None
      PROVE  True(backups'[c], joined', gone')
  <2>1. backups'[c] = backups[c] \/ backups'[c] = db
    <3>1. CASE UNCHANGED backups
      BY <3>1
    <3>2. ASSUME NEW b \in Backups, TakeBackup(b)
          PROVE  backups'[c] = backups[c] \/ backups'[c] = db
      BY <1>t, <3>2 DEF TakeBackup, TypeOK
    <3>3. ASSUME NEW a \in Accounts, \/ Join(a) \/ AskDeletion(a) \/ LockLedger(a)
                                     \/ DeleteAccount(a) \/ AbandonDeletion(a)
                                     \/ BeginAttempt(a) \/ CountAttempt(a) \/ PruneBucket(a)
          PROVE  UNCHANGED backups
      BY <3>3 DEF Join, AskDeletion, LockLedger, DeleteAccount, AbandonDeletion, BeginAttempt,
                  CountAttempt, PruneBucket
    <3>4. CASE \/ Tick \/ ReadTombstones \/ KillExport
               \/ \E f \in Files : Publish(f) \/ ReportDigest(f)
               \/ StopTraffic \/ AdmitTraffic \/ \E b \in Backups : RestoreBackup(b)
      BY <3>1, <3>4 DEF Tick, ReadTombstones, KillExport, Publish, ReportDigest, StopTraffic,
                        AdmitTraffic, RestoreBackup
    <3>5. CASE \E f \in Files, since \in {0, stopped}, known \in BOOLEAN : ReplayLedger(f, since, known)
      BY <3>1, <3>5 DEF ReplayLedger
    <3> QED BY <3>1, <3>2, <3>3, <3>4, <3>5, NextCases DEF vars
  <2> QED BY <1>t, <1>s, <1>1, <1>4, <2>1 DEF TablesInv
<1> QED BY <1>2, <1>3, <1>4 DEF TablesInv

\* What is sound of a ledger stays so: deletions are new, and what serves is what served
\* when traffic stopped.
LEMMA SoundnessStays ==
    ASSUME Inductive, [Next]_vars
    PROVE  \A l \in Ledger : Sound(l) => Sound(l)'
<1>t. TypeOK /\ ModeInv
  BY DEF Inductive
<1>1. \A x \in Accounts : gone[x] # None => gone'[x] = gone[x]
  <2>1. ASSUME NEW a \in Accounts, DeleteAccount(a)
        PROVE  \A x \in Accounts : gone[x] # None => gone'[x] = gone[x]
    <3>1. gone[a] = None /\ \A x \in Accounts \ {a} : gone'[x] = gone[x]
      BY <2>1, DeletionFacts
    <3> QED BY <3>1
  <2>2. ASSUME NEW a \in Accounts, Join(a)
        PROVE  gone' = gone
    BY <2>2, JoinFacts
  <2> QED BY <2>1, <2>2, AccountSteps DEF AdmitTraffic, users
<1>2. clock \in Nat /\ clock' \in Nat /\ clock <= clock'
  <2>1. clock \in Nat /\ clock' \in Nat
    BY <1>t, TypePreserved DEF TypeOK, Times
  <2>2. clock' = clock \/ clock' = clock + 1
    <3>1. ASSUME NEW f \in Files, NEW since \in {0, stopped}, NEW known \in BOOLEAN,
                 ReplayLedger(f, since, known)
          PROVE  clock' = clock
      BY <3>1 DEF ReplayLedger, serving
    <3>2. CASE UNCHANGED vars \/ \E b \in Backups : RestoreBackup(b)
      BY <3>2 DEF vars, RestoreBackup, serving
    <3>3. CASE Tick \/ StopTraffic \/ AdmitTraffic
      BY <3>3 DEF Tick, StopTraffic, AdmitTraffic
    <3> QED BY <3>1, <3>2, <3>3, OutsideRestore
  <2> QED BY <2>1, <2>2
<1>3. mode' = "stopped" => \/ mode = "stopped" /\ stopped' = stopped /\ db' = db
                           \/ stopped' \in Nat /\ clock < stopped'
  <2> SUFFICES ASSUME mode' = "stopped"
               PROVE  \/ mode = "stopped" /\ stopped' = stopped /\ db' = db
                      \/ stopped' \in Nat /\ clock < stopped'
    OBVIOUS
  <2>1. CASE StopTraffic
    BY <1>2, <2>1 DEF StopTraffic
  <2>2. CASE mode = "stopped" /\ stopped' = stopped
    <3>1. ASSUME NEW a \in Accounts
          PROVE  ~Join(a) /\ ~DeleteAccount(a)
      BY <2>2, JoinFacts, DeletionFacts
    <3>2. ~AdmitTraffic
      BY DEF AdmitTraffic
    <3> QED BY <2>2, <3>1, <3>2, AccountSteps
  <2>3. CASE UNCHANGED vars \/ UNCHANGED <<clock, mode, restoring>>
    BY <2>2, <2>3 DEF vars, serving, restoring
  <2>4. CASE Tick
    BY <2>2, <2>4 DEF Tick, restoring
  <2>5. ~AdmitTraffic
    BY DEF AdmitTraffic
  <2>6. ASSUME NEW f \in Files, NEW since \in {0, stopped}, NEW known \in BOOLEAN,
               ReplayLedger(f, since, known)
        PROVE  mode = "stopped" /\ stopped' = stopped
    BY <2>6 DEF ReplayLedger, serving
  <2>7. ASSUME NEW b \in Backups, RestoreBackup(b)
        PROVE  mode = "stopped" /\ stopped' = stopped
    BY <2>7 DEF RestoreBackup
  <2> QED BY <2>1, <2>2, <2>3, <2>4, <2>5, <2>6, <2>7, OutsideRestore
<1> TAKE l \in Ledger
<1> HAVE Sound(l)
<1>4. l.through \in Nat /\ l.through <= clock
  BY DEF Ledger, Times, Sound
<1>5. l.through <= clock'
  BY <1>2, <1>4
<1>6. \A a \in Accounts : l.deletions[a] # None => l.deletions[a] = gone'[a]
  BY <1>1 DEF Sound
<1>7. mode' = "stopped" /\ l.through >= stopped' => \A a \in Deleted(db') : l.deletions[a] # None
  BY <1>2, <1>3, <1>4 DEF Sound
<1>8. Deleted(db)' = Deleted(db')
  BY DEF Deleted
<1> QED BY <1>5, <1>6, <1>7, <1>8 DEF Sound

\* Exports alone write files.
LEMMA ExportSteps ==
    ASSUME [Next]_vars
    PROVE  \/ UNCHANGED exporting
           \/ ReadTombstones \/ KillExport
           \/ \E f \in Files : Publish(f) \/ ReportDigest(f)
<1>1. CASE UNCHANGED vars \/ Tick \/ StopTraffic \/ AdmitTraffic
  BY <1>1 DEF vars, Tick, StopTraffic, AdmitTraffic
<1>2. ASSUME NEW a \in Accounts, \/ Join(a) \/ AskDeletion(a) \/ LockLedger(a)
                                 \/ DeleteAccount(a) \/ AbandonDeletion(a)
                                 \/ BeginAttempt(a) \/ CountAttempt(a) \/ PruneBucket(a)
      PROVE  UNCHANGED exporting
  BY <1>2 DEF Join, AskDeletion, LockLedger, DeleteAccount, AbandonDeletion, BeginAttempt,
              CountAttempt, PruneBucket
<1>3. CASE \E b \in Backups : TakeBackup(b) \/ RestoreBackup(b)
  BY <1>3 DEF TakeBackup, RestoreBackup
<1>4. CASE \E f \in Files, since \in {0, stopped}, known \in BOOLEAN : ReplayLedger(f, since, known)
  BY <1>4 DEF ReplayLedger
<1> QED BY <1>1, <1>2, <1>3, <1>4, NextCases

\* The ledgers are sound, the one of an export under way too.
LEMMA LedgersPreserved == Inductive /\ [Next]_vars => LedgersInv'
<1> SUFFICES ASSUME Inductive, [Next]_vars PROVE LedgersInv'
  OBVIOUS
<1>t. TypeOK /\ LedgersInv /\ TablesInv
  BY DEF Inductive
<1>s. \A l \in Ledger : Sound(l) => Sound(l)'
  BY SoundnessStays
<1>l. \A f \in Files \ Unused : ledgers[f] \in Ledger /\ Sound(ledgers[f])
  BY <1>t DEF TypeOK, Unused, LedgersInv
<1>1. ASSUME NEW f \in Files \ Unused'
      PROVE  Sound(ledgers[f])'
  <2>1. CASE f \notin Unused
    <3>1. ledgers'[f] = ledgers[f]
      BY <2>1, FilesStay
    <3>2. \A l \in Ledger : l = ledgers[f] => Sound(l)'
      BY <1>s, <1>l, <2>1
    <3> QED BY <1>l, <2>1, <3>1, <3>2 DEF Sound
  <2>2. ASSUME f \in Unused
        PROVE  export \in Export /\ ledgers'[f] = export.ledger /\ export # None
    <3>1. ASSUME NEW g \in Files, Publish(g)
          PROVE  export \in Export /\ ledgers'[f] = export.ledger /\ export # None
      <4>1. f = g
        BY <1>1, <1>t, <2>2, <3>1, PublishFacts
      <4> QED BY <1>t, <3>1, <4>1, PublishFacts DEF Publish, TypeOK
    <3>2. ASSUME ledgers' = ledgers
          PROVE  FALSE
      BY <1>1, <2>2, <3>2 DEF Unused
    <3> QED BY <3>1, <3>2, ExportSteps DEF exporting, ReadTombstones, KillExport, ReportDigest
  <2>3. ASSUME f \in Unused
        PROVE  Sound(ledgers[f])'
    <3>1. export.ledger \in Ledger /\ Sound(export.ledger) /\ ledgers'[f] = export.ledger
      BY <1>t, <2>2, <2>3 DEF LedgersInv, Export
    <3>2. \A l \in Ledger : l = export.ledger => Sound(l)'
      BY <1>s, <3>1
    <3> QED BY <3>1, <3>2 DEF Sound
  <2> QED BY <2>1, <2>3
<1>2. ASSUME export' # None
      PROVE  /\ Sound(export.ledger)'
             /\ export'.path # None => export'.path \notin Unused'
  <2>1. ASSUME NEW e \in Export, e = export, export'.ledger = e.ledger
        PROVE  Sound(export.ledger)'
    <3>1. e # None /\ e.ledger \in Ledger /\ Sound(e.ledger)
      BY <1>t, <2>1, NoneAssumption DEF LedgersInv, Export
    <3>2. \A l \in Ledger : l = e.ledger => Sound(l)'
      BY <1>s, <2>1, <3>1
    <3> QED BY <2>1, <3>1, <3>2 DEF Sound
  <2>2. CASE export' = export
    <3>1. export \in Export /\ export # None
      BY <1>t, <1>2, <2>2 DEF TypeOK
    <3>2. export'.path # None => export'.path \in Files \ Unused
      BY <1>t, <2>2, <3>1 DEF LedgersInv, Export
    <3> QED BY <2>1, <2>2, <3>1, <3>2, FilesStay
  <2>3. CASE ReadTombstones
    <3>1. /\ export'.path = None
          /\ export'.ledger.through = clock
          /\ \A a \in Accounts : export'.ledger.deletions[a]
                                    = IF a \in Deleted(db) THEN db[a].at ELSE None
      BY <1>t, <2>3, ReadType
    <3>2. \A a \in Deleted(db) : gone[a] # None /\ db[a].at = gone[a]
      BY <1>t DEF TablesInv, True, Deleted
    <3>3. UNCHANGED <<clock, mode, db, gone, stopped>> /\ clock <= clock
      BY <1>t, <2>3 DEF ReadTombstones, serving, users, restoring, TypeOK, Times
    <3>4. Deleted(db') = Deleted(db) /\ Deleted(db) \subseteq Accounts
      BY <3>3 DEF Deleted
    <3> QED BY <3>1, <3>2, <3>3, <3>4 DEF Sound, Deleted
  <2>4. ASSUME NEW f \in Files, Publish(f)
        PROVE  /\ Sound(export.ledger)'
               /\ export'.path # None => export'.path \notin Unused'
    <3>1. export \in Export /\ export'.ledger = export.ledger /\ export'.path = f /\ f \notin Unused'
      BY <1>t, <2>4, PublishFacts
    <3> QED BY <2>1, <3>1
  <2>5. ~KillExport /\ \A f \in Files : ~ReportDigest(f)
    BY <1>2 DEF KillExport, ReportDigest
  <2> QED BY <2>2, <2>3, <2>4, <2>5, ExportSteps DEF exporting
<1> QED BY <1>1, <1>2 DEF LedgersInv, Unused

\* Deletions a restore can lose are in ledgers on record.
LEMMA EvidencePreserved == Inductive /\ [Next]_vars => EvidenceInv'
<1> SUFFICES ASSUME Inductive, [Next]_vars PROVE EvidenceInv'
  OBVIOUS
<1>t. TypeOK /\ EvidenceInv
  BY DEF Inductive
<1>1. ASSUME NEW f \in recorded
      PROVE  f \in recorded' /\ Entries(f)' = Entries(f)
  <2>1. f \in Files \ Unused
    BY <1>t DEF TypeOK
  <2> QED BY <2>1, FilesStay DEF Entries
<1> SUFFICES ASSUME NEW a \in Accounts, gone'[a] # None, db'[a].status # "deleted"
             PROVE  \E f \in recorded : a \in Entries(f)
  BY <1>1 DEF EvidenceInv
<1>2. CASE UNCHANGED users /\ SameAccounts(db', db)
  BY <1>t, <1>2 DEF EvidenceInv, users, SameAccounts
<1>3. CASE AdmitTraffic
  BY <1>3, GoneAreReplayed DEF AdmitTraffic, users
<1>4. ASSUME NEW x \in Accounts, Join(x)
      PROVE  \E f \in recorded : a \in Entries(f)
  BY <1>t, <1>4, JoinFacts DEF EvidenceInv
<1>5. ASSUME NEW x \in Accounts, DeleteAccount(x)
      PROVE  \E f \in recorded : a \in Entries(f)
  BY <1>t, <1>5, DeletionFacts DEF EvidenceInv
<1> QED BY <1>2, <1>3, <1>4, <1>5, AccountSteps

\* What was replayed to the isolated database is done there.
LEMMA ReplayPreserved == Inductive /\ [Next]_vars => ReplayInv'
<1> SUFFICES ASSUME Inductive, [Next]_vars PROVE ReplayInv'
  OBVIOUS
<1>t. TypeOK /\ ReplayInv /\ ModeInv
  BY DEF Inductive
<1>1. ASSUME NEW f \in recorded
      PROVE  Entries(f)' = Entries(f) /\ ledgers'[f] = ledgers[f]
  <2>1. f \in Files \ Unused
    BY <1>t DEF TypeOK
  <2> QED BY <2>1, FilesStay DEF Entries
<1>2. CASE UNCHANGED <<stopped, restored, replayed, covered>>
  <2>1. \A f \in Files : f \in replayed => Entries(f)' = Entries(f) /\ ledgers'[f] = ledgers[f]
    BY <1>1, <1>t DEF TypeOK
  <2>2. replayed \subseteq Files
    BY <1>t DEF TypeOK
  <2> QED BY <1>t, <1>2, <2>1, <2>2 DEF ReplayInv, Entries
<1>3. CASE StopTraffic
  <2>1. replayed' = {} /\ ~covered'
    BY <1>t, <1>3 DEF StopTraffic, ModeInv
  <2> QED BY <2>1 DEF ReplayInv
<1>4. CASE AdmitTraffic \/ \E b \in Backups : RestoreBackup(b)
  <2>1. replayed' = {} /\ ~covered'
    BY <1>4 DEF AdmitTraffic, RestoreBackup
  <2> QED BY <2>1 DEF ReplayInv
<1>5. ASSUME NEW f \in Files, NEW since \in {0, stopped}, NEW known \in BOOLEAN,
             ReplayLedger(f, since, known)
      PROVE  ReplayInv'
  <2>1. /\ replayed' \subseteq replayed \cup {f} /\ replayed \subseteq replayed'
        /\ known => f \in replayed'
        /\ covered' => covered \/ (known /\ since = stopped)
        /\ stopped' = stopped /\ f \in recorded /\ ledgers[f].through >= since
        /\ replayed' \subseteq recorded /\ recorded \subseteq Files
    BY <1>t, <1>5, ReplayFacts DEF ReplayLedger, TypeOK
  <2>2. \A a \in Accounts :
            IF a \in Entries(f) /\ restored[a].status = "active"
            THEN restored'[a].status = "deleted" /\ restored'[a].at = ledgers[f].deletions[a]
            ELSE restored'[a] = restored[a]
    BY <1>t, <1>5, ReplayFacts
  <2>3. \A g \in Files : g \in replayed' => Entries(g)' = Entries(g) /\ ledgers'[g] = ledgers[g]
    BY <1>1, <1>t, <2>1 DEF TypeOK
  <2>4. \A g \in replayed' : \A a \in Entries(g) : restored'[a].status # "active"
    <3>1. \A g \in replayed' : g = f \/ g \in replayed
      BY <2>1
    <3>2. \A g : Entries(g) \subseteq Accounts
      BY DEF Entries
    <3> QED BY <1>t, <2>2, <3>1, <3>2 DEF ReplayInv
  <2>5. covered' => \E g \in replayed' : ledgers'[g].through >= stopped'
    <3>1. CASE covered
      BY <1>t, <2>1, <2>3, <3>1 DEF ReplayInv
    <3>2. CASE known /\ since = stopped
      BY <2>1, <2>3, <3>2
    <3> QED BY <2>1, <3>1, <3>2
  <2> QED BY <2>1, <2>3, <2>4, <2>5 DEF ReplayInv, Entries
<1>6. CASE UNCHANGED vars \/ Tick \/ UNCHANGED <<clock, mode, restoring>>
  BY <1>2, <1>6 DEF vars, Tick, restoring
<1> QED BY <1>3, <1>4, <1>5, <1>6, OutsideRestore

-----------------------------------------------------------------------------
(* The theorems *)

\* The invariant holds of the empty service.
LEMMA InductiveInit == Init => Inductive
<1> SUFFICES ASSUME Init PROVE Inductive
  OBVIOUS
<1>1. TypeOK
  <2>1. db \in Database /\ 0 \in Times /\ 0 \in 0..MaxRestores
    BY RowTypes, BoundsAssumption DEF Init, Database
  <2> QED BY <2>1 DEF Init, TypeOK
<1>2. db \in Database /\ \A a \in Accounts : db[a].status = "none"
  BY <1>1, RowTypes DEF Init, TypeOK
<1>3. RequestsInv /\ ModeInv /\ GoneInv /\ EvidenceInv /\ ReplayInv
  BY DEF Init, RequestsInv, ModeInv, GoneInv, EvidenceInv, ReplayInv
<1>4. TablesInv
  BY <1>2 DEF Init, TablesInv, True
<1>5. LedgersInv
  BY DEF Init, LedgersInv, Unused
<1> QED BY <1>1, <1>3, <1>4, <1>5 DEF Inductive

\* The inductive invariant holds in every reachable state.
THEOREM Invariance == Spec => []Inductive
<1>1. Inductive /\ [Next]_vars => Inductive'
  BY TypePreserved, RequestsPreserved, ModePreserved, GonePreserved, TablesPreserved,
     LedgersPreserved, EvidencePreserved, ReplayPreserved DEF Inductive
<1> QED BY InductiveInit, <1>1, PTL DEF Spec

\* Whatever is deleted, exported, killed and restored, the state is well typed.
THEOREM TypeCorrect == Spec => []TypeOK
<1>1. Inductive => TypeOK
  BY DEF Inductive
<1> QED BY Invariance, <1>1, PTL

\* Whatever backups are restored, whatever exports and replays are killed, the deleted
\* are not active in the database that serves, its tombstones keep the time of the
\* deletion, and there are no others.
THEOREM DeletionsSurvive == Spec => []DeletionsSurviveRestores
<1>1. Inductive => DeletionsSurviveRestores
  BY DEF Inductive, GoneInv, TablesInv, True, DeletionsSurviveRestores
<1> QED BY Invariance, <1>1, PTL

=============================================================================
