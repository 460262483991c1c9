# Recipe Lab: TLA+ models and proofs

Recipe Lab is a community recipe site: members write private drafts, publish
them as immutable recipe versions, adapt each other's recipes and revise their
own; moderators hide and restore what was reported. The backend is FastAPI
over PostgreSQL (`src/backend/app`), the frontend Next.js (`src/frontend`), and
an offline evaluation package lives in `src/ml`.

This directory models the backend's stateful core, the algorithms that compare recipes, the parts of
the frontend that talk to the backend over an unreliable network, and the supervisor that runs disposable
instances of the whole (`src/scripts`). All of the backend's concurrency goes
through the database: READ COMMITTED transactions, `SELECT ... FOR UPDATE` row
locks and transaction-scoped advisory locks. A handler is one transaction that
the route commits or rolls back; nothing is shared in process memory.

## Inventory

| Component | State | Operations | What is hard |
|---|---|---|---|
| Private drafts (`services/recipe_drafts.py`) | `recipe_drafts` and its document rows | create from nothing or from a source, save at a revision, discard | saves from two devices; a source withdrawn later; retried creation |
| Duplicate preflight (`services/recipe_duplicate_preflights.py`) | preflights, candidates, decisions | rank public versions against a draft, store, replay, recheck | evidence is stale at once; a shortlist cut at a fixed length |
| Publication (`services/recipe_publications.py`, `recipe_publication_snapshots.py`) | versions, recipes, editions, lineages, receipts, fork events | publish original, adaptation, revision; correct and withdraw | recheck versus commit, retries, next number, succession, six tables in one commit |
| Visibility (`policies/recipe_visibility.py`, `services/recipe_visibility.py`) | two axes and the effective state | withdraw, restore | two parties move two axes of one row |
| Moderation (`services/moderation.py`, `moderators/service.py`) | reports, cases, audit log, grants | report, hide, restore, resolve, grant, revoke | reopening, retried actions, an audit log that must explain the state |
| Moderators' pages (`use-recipe-moderation-workspace.ts`, `recipe-moderation-case-detail.tsx`) | the case selected, its detail, a fetch, an action and its key | select, load, reload, hide, restore, resolve, repeat | other moderators meanwhile; late answers; a repetition answered with an old event |
| Account deletion (`services/account_lifecycle.py`) | user, identity, sessions, all private rows | tombstone and purge | five kinds of locks, concurrent writers, purge order |
| Login, sessions, profile (`services/auth*.py`) | login transactions, sessions, identities | login, reauthenticate, logout, update profile, sandbox entry | provider call between two transactions, session rotation |
| Documents (`services/recipe_documents.py`, `recipe-draft.ts` and its neighbours) | none | edit, validate, copy | two validations written twice, keys renamed at every copy |
| Saves and ratings (`api/routes/interactions.py`, `recipe-interaction-panel.tsx`) | one row each, preference events, a page's last choices | toggle, rate, remove, replay | answers lost, requests still on their way |
| Deletion recovery (`recovery/account_deletions.py`) | ledger file and restored database | export, prepare, replay | old backups, interrupted replays, export racing deletion |
| Catalog requests and curators (`services/catalog_requests.py`, `catalog_curators/`) | requests, ingredients, audit, grants | submit, approve, reject, mark duplicate, grant | name uniqueness, reviews racing purge, lock order |
| Abuse limits (`services/abuse_limits.py`) | fixed-window buckets | count, prune | window edges, concurrent pruning |
| Scoring and fingerprints (`services/recipe_duplicate_scoring.py`, `recipe_fingerprints.py`) | none | pure functions | rounding, ties, capacity |
| Follows, libraries | single rows | insert-or-ignore, delete | both members of a follow locked in one order, a cook deleted meanwhile |
| Draft editor, session provider (`src/frontend/features`) | component state, stored attempts | autosave, publish, recover a session | a save in flight, lost responses, several tabs |
| Sandbox supervisor (`scripts/run_portfolio_sandbox.py`, readiness in `frontend/server.mjs`) | containers, networks, heartbeat files, lock, fail-stop marker | reconcile, create, watch, withdraw, destroy | failure, interrupt or kill at every command; readiness that outlives its supervisor |
| Recommendations, diffs, seeds, middleware, sandbox entries, ML evaluation, other scripts | - | read-only, operator-only or offline | no shared state |

How they interact: preflight and publication read the draft, versions and
visibility; withdrawal, restoring, moderation, reporting and publication are
serialised by one advisory lock, the *publication guard*
(`lock_recipe_publication_guard`); every handler that writes for a member
first locks that member's user row (`lock_active_member_actor`); deletion of an
account takes that row too, under a lifecycle lock of its own that follows also take, and shares the
ledger lock that an export holds alone. What each component has to get right is listed,
line by line, under `hazards` in `PROJECT.json`, with the properties that would
catch it going wrong.

## Modules

    RecipeHistory            what publishing promises its readers
       ^ implemented by
    PublicationHistory       the refinement mapping
       | EXTENDS
    Publication              drafts, preflights, publication, visibility
       ^ EXTENDS                          ^ EXTENDS
    Moderation               PublicationInvariant      the inductive invariant
       reports, cases,           ^ EXTENDS
       audit, grants         Publication_proofs        theorems
       ^ EXTENDS                  |
    ModerationWorkspace           |                    the moderators' pages
            ^ EXTENDS             ^ EXTENDS
            +------ Moderation_proofs

    PersonalData             what an account keeps, and that leaving keeps nothing
       ^ implemented by
    AccountLifecycle         sign-in, sessions, follows, profile, account deletion

    DeletionRecovery         ledgers, backups, restores, replay of deletions
    CatalogRequests          ingredient requests, review, purge at account deletion
    DraftEditor              the draft editor's tabs, the network, the server
    MemberInteractions       saves and ratings: pages, network, server
    DraftCreation            starting or resuming a draft: pages, stored attempt, server
    AbuseLimits              fixed windows, pruning, row locks
    SandboxSupervisor        generations of containers, heartbeats, fail-stop

    Fractions  <-  StructuralFingerprint  <-  RecipeDocument  ->  Places      edits, validation, copies
                          ^                        ^                 ^
                   DuplicateScoring                |            RecipeDiff
                          ^                        |                 ^
                          +---------------- RecipeAuthoring ---------+
                                                   ^
                                         RecipeAuthoring_proofs

Modules named `MC...` give the constants their small instances. Modules named `..._proofs` extend the
module they are about and hold its theorems; `Parts_proofs` is about the four modules of run `parts`.

**Publication.** The variables are tables: `drafts`, `preflights`, `versions`
(version, edition and receipt rows joined), `current` (each recipe's current
version), `visibility`, `forks`; and two pieces of lock state: `tx[m]`, the
publication transaction a member has open, and `guard`, the holder of the
advisory lock. One action is one handler's transaction, except that publishing
is cut where another transaction can commit in between:

| Action | Code |
|---|---|
| `CreateDraft`, `SaveDraft`, `DiscardDraft` | `create_recipe_draft`, `replace_recipe_draft`, `discard_recipe_draft` |
| `RunPreflight` | `run_recipe_draft_duplicate_preflight`, which ranks without the guard |
| `BeginPublish` | `publish_recipe_draft` up to the guard: user row, draft row, intent, receipts |
| `ValidatePublish` | the guard, receipts again, fork key, source, draft, duplicate evidence |
| `CommitPublish` | snapshot, edition, receipt, fork event, withdrawal of a corrected predecessor, draft status, commit |
| `AbortPublish` | any refusal, exception or lost connection after `BeginPublish` |
| `SetAuthoredVisibility`, `SetModerationVisibility` | `set_authored_recipe_visibility`; the visibility half of `moderate_recipe_case` |

A transaction of another member may fall between any two of the three publishing
steps. `Idle(m)` is the member's user row lock: a member in a publication
transaction has no other transaction that writes. The guard is what excludes
the others between `ValidatePublish` and `CommitPublish`.

Recipes and lineages are named by the first version published in them. A
recipe document is abstracted to its structural fingerprint (`Structures`), or
`None` while incomplete; a pair of fingerprints is a probable duplicate or not
(`Probable`, any relation). Candidates are ranked exact first, then by
identifier, and cut at `MaxCandidates`.

**RecipeHistory** knows only lines of editions, their owner, the version a recipe
was adapted from, and what is shown. **PublicationHistory** maps the tables to it:
the editions of a recipe in the order of their numbers, the author, the parent and
the readable versions. `RefinesHistory` then says that a publication, with every
table it writes, is one step of that history.

**Moderation** adds `grants`, `reports`, `cases` and the append-only `audit` log, and
runs the authors' steps of Publication unchanged. Hiding and restoring change the
publication row exactly as `SetModerationVisibility` does, so the composition is a behaviour of
Publication by the way it is written.

**ModerationWorkspace** puts moderators' pages in front of it. A page (`workspace[w]`) has a case, what it
shows of it, a fetch and an action it waits for, and the key of the action last asked for; `posts` are
requests on their way. Everything of Moderation may happen beside the pages (`Elsewhere`).

| Action | Code |
|---|---|
| `SelectCase` | `selectCase`, called by the moderator, by a loaded or failed queue, by a change of filter |
| `ReloadDetail`, `ReadDetail`, `ShowDetail`, `DetailFails` | `reloadDetail` and the effect that fetches; `moderation_case_detail` |
| `ApplyAction` | `applyAction` up to its request; a button the case shown leaves enabled |
| `ActionSucceeds`, `ActionFails` | what follows its await: the case shown takes the event's state, and is fetched again |
| `Moderate`, `ReplayModeration`, `LoseAction` | `moderate_recipe_case`, its replay of a key, and a request nobody receives |

What a page shows is a snapshot with its date, the number of audit events there were (`asOf`). An
answer counts for the operation that waits for it (`ownsPendingAction`): requests have numbers (`calls`).
A note is not in the model: another note is another action, and gets another key. `told` and `seen` are
ghosts, the successes that were reported and the latest date a page has shown.

**CatalogRequests** is independent of the others: `requests`, `audit` and
`catalog` (the ingredient each normalized name stands for), `active` members and
`curators`, and `tx[m]`, what the open transaction of a member wants to lock, holds
and has read. A submission takes the advisory lock of its name; a review takes
the request's row and, to approve, the locks of all names it adds, in sorted order.
Deletion is cut between its statements, because each has a snapshot of its own
and none locks the requests beforehand:

| Action | Code |
|---|---|
| `BeginSubmit`, `LockName`, `CheckNames`, `Submit` | `create_ingredient_request`: `lock_active_member_actor`, `lock_catalog_names`, checks, insert and event |
| `BeginReview`, `TakeRequest` | `lock_catalog_curator_actor`, `_pending_request_for_review` |
| `RejectRequest`, `MarkDuplicate` | `_reject_request`, `_mark_request_duplicate` |
| `LockApproval`, `LockName`, `CheckNames`, `ApproveRequest` | `_approve_request` |
| `BeginDelete` | the locks of `delete_member_account`, of which only the user row meets these handlers |
| `PurgeEvents`, `PurgeRequests`, `DropRequest` | the two DELETE statements of `purge_member_private_data`; a row is waited for while a reviewer has it |
| `EraseAccount` | scrubbing of decided requests, the grant, commit |
| `Rollback` | every refusal, conflict, exception or lost connection |
| `GrantCurator`, `RevokeCurator`, `SeedName` | the operators' commands and the seed loader |

An approval's ingredient is named after its request; a name is a number because
locks are sorted. A request that a deletion waits for and finds decided makes the
deletion fail: the decision's event refers to the row (ON DELETE RESTRICT).

**AccountLifecycle** is a set of workers, each with one request: `tx[w].wants` lists the advisory
and row locks the request still has to take, `held` those it has. The last action of a request
reads the rows again, as the code does under its locks, and commits. The tables are `life`
(users), `named` (handles), `identity`, `sessions`, `logins` (login transactions), `owns`
(drafts, saves, ratings, events) and `follows`.

| Action | Code |
|---|---|
| `StartLogin`, `StartReauthentication` | `begin_oidc_login`, `begin_oidc_reauthentication` |
| `ConsumeLogin` | the callback deletes its login row and commits before the provider is asked |
| `FindAccount`, `IssueSession`, `SignUp` | `issue_member_session`, under the identity's advisory lock |
| `RotateSession`, `Logout` | `issue_reauthenticated_session`; `revoke_authenticated_session` |
| `Write` | handlers that start with `lock_active_member_actor` |
| `BeginFollow`, `Follow` | `follow_cook`, `unfollow_cook`: handle lookup, two sorted lifecycle locks, two user rows |
| `UpdateProfile` | `update_member_profile`, kept off tombstones by a CHECK constraint only |
| `BeginDelete`, `LockIdentities`, `LockSessions`, `DeleteAccount` | `delete_member_account` and `purge_member_private_data` |
| `Acquire`, `Rollback` | lock waits; every refusal, deadlock victim and dead worker |

`Touching` are the operations whose request finds its session due for a touch: it writes
`last_seen_at` first, and so holds the session's row before any other lock. **PersonalData**
has accounts that join, change what is kept of them and leave with nothing kept;
`ImplementsPersonalData` maps the tables to the kinds of data they keep.

**DeletionRecovery** keeps the database, the ledger files, the backups and the isolated
database of a restore; deletions are the tombstone with its time.

| Action | Code |
|---|---|
| `AskDeletion`, `LockLedger`, `DeleteAccount`, `AbandonDeletion` | `delete_member_account`: `now`, the shared ledger lock, commit; rollback |
| `BeginAttempt`, `CountAttempt`, `PruneBucket` | `enforce_request_rate_limit`: an account's bucket may be written when the account is gone |
| `ReadTombstones`, `Publish`, `ReportDigest`, `KillExport` | `export_deletion_ledger` under the exclusive lock, and the file linked to its path |
| `TakeBackup`, `StopTraffic`, `RestoreBackup`, `AdmitTraffic` | the operator's procedure, `docs/reference/recovery.md` |
| `ReplayLedger` | `prepare_deletion_replay` and `replay_deletion_ledger`, one transaction, killed after its commit perhaps |

**DraftEditor** has one draft, several tabs and a `wire` of requests. The reducer's actions and
the publication panel's states are actions of a tab; `TakeSave` and `TakePublish` are
`replace_recipe_draft` and `publish_recipe_draft` as one step each, their inner interleavings
being Publication's. A tab may close, give up, reload or type at any moment; requests and
answers are lost or arrive after their tab gave them up.

**MemberInteractions** does the same for saves and ratings: a page (`ToggleSave`, `Rate`,
`RemoveRating`, `Receive`, `GiveUp`, `FetchViewerState`) and the server (`Execute`,
`Drop`). The page keeps the key of its last choice and reuses it when the same choice is
made again (`KeyFor`).

**DraftCreation** is what happens before there is a draft to edit. `Begin`, `Look`, `Ask`, `Opens`,
`StartsOver`, `GivesUp` and `TryAgain` are `startOrResumeRecipeDraft`,
`createRecipeDraftWithRecovery` and the starter page; `stored` is the tab's session storage, where the key of
a creation stays until its outcome is known. A page that is left (`Leave`) goes on with what it had begun,
beside the next page of the tab. `Create` is `create_recipe_draft`, answered or not, `Finish` a
publication or a discard, after which the row is kept and its key refused.

**AbuseLimits** has workers, each with one attempt (`attempt[w]`): the time it took before its transaction,
the buckets it has still to count in, the rows it has written (`own`), which nobody else may
write before it ends.

| Action | Code |
|---|---|
| `Arrive` | `enforce_abuse_rate_limits`, or the callback's identity limit: `now` and the dimensions |
| `Prune`, `Delete` | the two DELETEs of `record_rate_limit_attempt`, what they see and then row by row |
| `Count` | its INSERT ... ON CONFLICT DO UPDATE and the comparison with the limit |
| `Commit`, `Fail` | `_record_dimensions`: the commit before the verdict; the rollback that refuses the request |

**SandboxSupervisor** has supervisors (`process[p]`: the stage of `main` it is at, its generation, the
resources still to create or remove), and the host: `resources`, heartbeat `files`, `beat` (the date of
each heartbeat's inode, which a frontend has mounted and sees after the file is gone), the fail-stop
marker. One action is one docker command, or one of the steps of `main` between which it can fail:

| Action | Code |
|---|---|
| `Lock`, `InvalidateOrphans`, `CheckMarker`, `Discover`, `RemoveNext`, `Reconciled` | the start of `main`: lock, orphaned heartbeats, marker, `reconcile_orphaned_generations` |
| `Open`, `CreateNext`, `Refresh`, `Started`, `Expire` | `SupervisorHeartbeat.create`, `start_generation`, `monitor_generation` |
| `Withdraw`, `RemoveNext`, `Close` | `heartbeat.invalidate`, `destroy_generation`, what follows from their outcome |
| `FailReconciling`, `FailGeneration`, `FailDestroying`, `Escape` | a command that fails or SIGTERM, in each of the try statements and between them |
| `Kill`, `ContainerEnds`, `Pass` | SIGKILL; `--rm`; time, and the deadline inside the database's container |

A failed command may have been carried out. `Ready` is what the frontend answers at `/readyz`.

**RecipeDocument** is the content of a recipe: ingredient rows named by keys, instructions whose
actions refer to the keys. It has every edit of the editor (`RowEdits`, `StepEdits`), the two
validations written twice (`Sendable` and `Presentable` in the editor, `Acceptable` and
`Publishable` in the server), and the copies (`FromVersion`, `Stored`, `Hydrated`,
`Snapshot`), which all give rows new keys. **StructuralFingerprint** canonicalises measures by
exact **Fractions** and numbers rows that are alike by their uses; **DuplicateScoring** is the
score, its components, the choice of scale and the reasons; **RecipeDiff** the comparison of
two versions with its pairings; **Places** picks elements of a sequence in order. **RecipeAuthoring** is the loop a member goes through: open a version
as a draft, edit it one change at a time, save, publish; its properties compare the draft
with its base in all three ways, each against a reference definition that does not look like the algorithm
(bijections of rows, sets of pairs that do not cross, all matchings).

An operator named `Slip...` is the operator after it with one plausible mistake
(a dropped condition, a swapped axis, a number taken from the readable versions
only). The specifications never use them; each is there to show that some
property notices the mistake.

## Runs

All runs that pass are exhaustive. `CHECK_DEADLOCK FALSE` because members may stop at any
time and the finite sets of drafts, versions and keys run out.

| Run | Instance | What it shows |
|---|---|---|
| `race` (39,235 states) | 2 authors, one also a moderator, 2 drafts, 2 versions, 2 keys, 2 similar structures, all kinds and intents | checks that still hold at commit, one version per draft and key, snapshot equals reviewed draft, axes, lineage numbers, fork events, corrections, refinement of RecipeHistory |
| `versions` (805,754) | 1 author with 3 drafts and 3 versions, a moderator, shortlist of 1 | editions form one line; duplicate evidence is current when a version appears |
| `moderation` (633,376) | 1 recipe, 2 moderators who also report, 2 keys; and 1 page of one of them with 2 requests | audit, cases, retries; successes are actions of their own, pages do not fall back |
| `catalog` (1,116,156) | 2 members, both requesters and possible curators, 2 requests, 2 names | names, decisions and their evidence, deletion, waiting |
| `catalog_evidence` | the same with 1 request and 1 name | a violation, see Findings |
| `accounts` (364,635) | 2 accounts, 2 identities, 2 sessions, 2 logins, 3 workers | deletion erases in one step and for good; callbacks, sign-ins, waiting |
| `accounts_follow` | 2 workers, followers whose sessions are due for a touch | a violation, see Findings |
| `recovery` (63,137) | 1 account, 2 backups, 2 files, 2 ticks, 2 restores | deletions survive restores; a stop ends in service |
| `recovery_coverage` | the same with 1 restore | a violation, see Findings |
| `drafts` (538,396) | 2 tabs, 2 texts, 3 requests | clean tabs show what is saved, no silent overwrite, published as confirmed |
| `authoring` (72,799) | 2 base versions, 3 edits, up to 3 rows, 2 steps, 2 actions each | validations agree; fingerprints, scores and comparisons against their reference definitions |
| `parts` (2,330,599) | MemberInteractions: 2 pages, 2 ratings, 4 clicks; AbuseLimits: 3 workers, 3 attempts, 2 windows and a third begun, a network, an account, an identity; DraftCreation: a tab, 2 visits at a time, blank and one source, 3 calls; SandboxSupervisor: 2 supervisors, 2 generations of 2 ticks, heartbeats good for 1 | what a page shows of a save after its answer stays true; limits hold and every answered attempt counts; no draft is lost; one generation at a time, ready only while watched |

Why these bounds are enough to be interesting:

- With a shortlist of one, a third version can push the acknowledged candidate off and
  its withdrawal brings it back; three versions are the least in which two revision
  drafts of an edition compete after a first revision; two keys and two drafts are what
  a reused or second key needs. `MaxRevision` bounds the saves of a draft; a second
  revision is enough for a preflight to be outdated by a save.
- No run has three versions of which two authors' adaptations compete for a lineage's next
  number; that case rests on the theorem `LineagesAreNumbered`, which has no bounds.
- Two names and two reviewers are the least with which approvals can wait for each other,
  and one of the reviewers may be the requester whose account goes.
- `accounts`: two sessions are one rotation; three workers let a deletion, a follow in one
  direction and one in the other, or a prompt and a logout, be in flight at once.
- `recovery`: one account suffices, because every row of a ledger is treated by itself, except
  that a bad row refuses the whole ledger, which one row can do. Two restores are what it takes for a
  ledger to know of an account its database has lost. One of the two paths is kept
  for the export after a stop, otherwise the bound itself would prevent recovery.
- `moderation` explores Moderation without pages and ModerationWorkspace with one, `part` says which. Two requests
  are an action and its repetition, or an action and the opposite one; the other moderator acts directly. Beside the page
  grants are not revoked, one member reports and the author does not withdraw (`Calm`): what they do is explored without
  the page. Two pages, of one moderator or of several, are left to the theorems.
- `drafts`: three requests are a save, its retry and a publication, or two of either.
- `parts` explores four modules that share no variable, side by side: `part` says which of them a
  behaviour follows, so that the states of the four are added and not multiplied. Four clicks are
  a choice, its opposite, and either again. Three attempts are one more than the network's limit, or one
  late of the old window, one that prunes and one of the new. Three calls are a creation, its repetition
  that finds the draft finished, and the creation that follows with another key; the two visits are
  pages of one tab, as keys are kept by tab and a draft started in another one is met in the list only.
  Two supervisors are one killed and one started again, or two at a time; a generation that lives two
  ticks can expire, and outlive its heartbeat by one. With three generations nothing else was found.
- `authoring`: one base has two different rows, the other two rows that are alike and used
  in different steps; the amounts are one amount written in two units, its double, a range and an
  unmeasured one, so that canonical units, offsets, scales and replaced rows all occur. The scales compared
  with the one chosen are the quotients of 1 to 3, candidates or not (`MCFactors`).

Each hazard was also seen to be reachable: with the slip of the corresponding guard
the property fails in the same instance.

The symmetry sets permute authors that are not moderators, drafts and keys (only keys in
`moderation`), members and requests in `catalog`, the anonymous sets elsewhere;
versions and accounts are ordered by identifier and stay distinct. `recovery`, the run
that checks liveness, has no symmetry, and `authoring` none either.

`TypeOK` is the shape of a module's states, for readers and for the proofs; it is proved in
each module that has one, and no run lists one, as every property of a run is broken by a mutant and a
type is better proved.

## Fairness

`FairSpec` of DeletionRecovery is the only specification with fairness. Once traffic
is stopped, the operator goes on: an export that can start does (weak fairness
of `ReadTombstones` while stopped), and so does the admission of traffic. Commands may be
killed, but not every time, and are given again: strong fairness of `Publish`, of
`ReportDigest`, of replaying each ledger and of replaying one with the coverage that
the stop requires. A backup whose replay is refused is replaced by another, and eventually by a
usable one (strong fairness of restoring a `Usable` backup). `RestoreCompletes`
has the premise that the database is verified and a usable backup exists, because the code
gives no way out otherwise: a rate-limit bucket counted for an account
after its deletion makes export and replay refuse until it is pruned, and nothing prunes in
a stopped or a restored database.

Everywhere else none is assumed: a member may abandon any draft or page, PostgreSQL's
lock waits end with a commit or rollback of the holder, and a refused request is the client's
to repeat.

## Findings

`catalog_evidence`: `purge_member_private_data` deletes the submission events of the
requests it finds pending, and then, in another statement, the requests it *then*
finds pending. It holds no lock on them, and a review takes no lock that deletion
takes. A curator's decision that commits between the two statements leaves a decided
request without its submission event, which `privacy/account_data_manifest.py`
(lines 356-360) says is retained: "The terminal decision must remain reproducible."
The other half of that race is harmless: a decision still uncommitted makes the
second statement wait and then fail on the foreign key, and the deletion is rolled back.
`DeletionLeavesNoContext` and `DecisionsStay` hold throughout.

`accounts_follow`: a follow's request that finds its session due for a touch updates the session's
row, and holds it, before it takes the lifecycle locks; the deletion of that member's account holds the
lifecycle lock when it locks the sessions. `repositories/account_lifecycle.py:68` says of the
lifecycle lock: "Serialize destructive lifecycle work before taking individual row locks." The two can
wait for each other until PostgreSQL aborts one; with no touch due (`accounts`, which lets a
profile update touch) `NoWaitCycle` holds.

`recovery_coverage`: `delete_account_workflow` takes `now`, the later `deleted_at`, before the
deletion waits for the shared ledger lock. An export that holds the lock reads its coverage after
that and does not find the deletion, so the ledger covers a time whose deletion it lacks, while
`recovery/account_deletions.py:427` promises "one exclusive, complete tombstone snapshot".
`DeletionsSurviveRestores` holds because the coverage a replay has to have is the time
traffic stopped, and nothing is in flight then.

Observations that contradict no text, or only a wider reading of one, and have no run:

- After a restore the database has no trace of the accounts created since the backup, so ledgers
  exported later lack them. A second restore, to a backup older than the first, must be
  followed by the replay of *every* retained ledger, not of the newest only. `AdmitTraffic`
  requires it, as the runbook does.
- Two rows that are alike (ingredient, measure and notes) and used in different steps are
  paired by position. Moved, or after a row above them is removed, they are paired crosswise
  and the comparison shows changed inputs, although
  `test_reorder_only_is_ignored_for_ingredients_and_instructions` (`backend/tests/test_recipe_diffs.py:489`)
  ignores reorderings; its rows are all different. The converse of `NoChangeMeansSame` is
  therefore claimed only for the same content in the same order.
- An attempt that took its time in the old window and one of the new window that prunes lock the same
  buckets in different orders, and PostgreSQL may have to abort one. That request is refused with 503,
  as `docs/security.md:150` says ("the operation fails closed"); it is why `AbuseLimits` has `Fail` and
  claims no freedom from waiting in a circle.
- Attempts of an old window that are still under way when it has been pruned begin its bucket again, so that
  together they may exceed the limit of a window that is over. `LimitsHold` counts what is let through
  while the window lasts. It also assumes one clock: servers whose clocks differ prune each other's windows.
- A SIGTERM that reaches the supervisor between two of the try statements of `main` (lines 1079, 1085,
  1090) is caught by the outermost only: the process ends with status 0 and without a marker while its
  generation runs on, although `docs/portfolio-sandbox-deployment.md:323` has the heartbeat marked stale
  "before cleanup or a controlled failure". Readiness ends with the heartbeat's 30 seconds, the database
  at its deadline, and the next start removes the rest, which is why `OneGeneration` holds;
  `OnlyWatchedAreReady` names the exception (`abandoned`).
- A moderator's page may report an old success: a hide that was carried out, whose answer
  was lost, and which another moderator then undid, is answered with its old event when the same button is
  pressed again with the same note. Nothing is hidden, and the page says "Recipe hidden. The moderation record
  was updated." until the case it fetches again shows otherwise: the hook reads neither `changed` nor `acted_at`.
  `SuccessesAreActions` says what holds: that event is of this page's own action, and counts once.
- The analogue of `SavesSettle` does not hold for ratings (4 stars given up and still on its way, 5
  confirmed, then 4 arrives), nor when several pages save: a page keeps the key of its own last
  choice after another page undid it, so that its next click is answered as a repetition and
  changes nothing. `SavesSettle` says which case is safe. `docs/frontend.md:191` asks for this
  reuse: keys "should not be regenerated merely because the result of the first request was uncertain".

## Proofs

Every property of every run that passes is a theorem, except the liveness of `recovery`. A theorem holds for every number of members, workers, drafts, tabs, versions, names,
backups, rows, steps, amounts and so on, where the run has two or three. All have the shape of `Spec => []Inv`, `Spec =>
[][A]_vars` or `Spec => OtherSpec`, and all come from an inductive invariant: it holds initially,
every step preserves it, and it implies what is wanted. Each of these invariants was also checked
by TLC on the run's instance. The proofs have one lemma for each action (`After...`) or, where
several actions differ in little, for what they have in common (`Moves`, `TabMoves`, `Follows`).

| Module | Inductive invariant | Theorems on properties of a run |
|---|---|---|
| Publication_proofs | `Inductive`, `RecordInv` (PublicationInvariant) | `ChecksHoldUntilCommit`, `EditionsFormChains`, `LineagesAreNumbered`, `DraftsPublishOnce`, `PublicRespectsBothAxes`, `EvidenceIsCurrentAtCommit`, `SnapshotsAreReviewed`, `ForksAreAdaptations`, `CorrectionsHandOver`, `ImplementsHistory` |
| Moderation_proofs | `CaseInductive`, with Publication's; `PageInductive` and `EventsTell` | `LogExplainsHiding`, `ReportersAreCounted`, `CaseHistoriesConnect`, `SuccessesActed`, `PagesStayFresh` |
| CatalogRequests_proofs | `Inductive` | `NamesReviewedOnce`, `DecisionsEvidenced`, `DeletionErasesContext`, `DecisionsAreFinal`, `NoDeadlock` |
| AccountLifecycle_proofs | `Inductive`, `OrderInv` | `CallbacksAnswerOnce`, `LostSignInsStayLost`, `KeepsPersonalDataPromise`, `NoDeadlock` |
| DeletionRecovery_proofs | `Inductive` | `DeletionsSurvive` |
| DraftEditor_proofs | `EditorInv` | `CleanTabsShowTheSaved`, `OverwritesAreSeen`, `PublishesTheConfirmed` |
| RecipeAuthoring_proofs | `WellFormedInv` | `EditorAndServerAgree`, `ChangesAreShown`, `MostAreReplaced`, `OneFingerprint`, `FairScores` |
| Parts_proofs | `SavesInv`, `CreationInv`, `LimitsInv`, `SupervisorInv` | `SavesAreSettled`; `DraftsAreKept`; `LimitsAreKept`, `AnswersAreCounted`; `GenerationsDoNotMix`, `ReadyIsWatched` |

`TypeCorrect` in each module that has a `TypeOK` is its type invariant.

Why the properties are not inductive alone, and what the invariants add:

- *Publication.* `EditionChain` survives a revision's commit only because the source is *still*
  current, which is `ChecksStillHold`, which survives other members' steps only because a
  validated publication holds the guard (`TransactionInv`), and the member's own only because the
  user row excludes saves. `LineageNumbering` compares a set of numbers with a cardinality; the
  proof uses `NumberingInv`, that the numbers of a lineage run up to that of its latest version
  and each is used once. `PublishedOnce` needs that receipts name published drafts of their author
  (`ReferenceInv`), `PublicMeansNeitherAxis` that the stored state is the one its axes resolve to
  (`AxesInv`). `SnapshotIsReviewedDraft` needs that an open request names a preflight that is
  there and whose decision fits its evidence (`RequestInv`). `ImplementsHistory` maps a recipe to
  the sequence of its editions and needs that their numbers are 1 to the current one's
  (`EditionsInv`); a commit is the abstract publication, a change of an axis is a change of what
  is shown, and all else is a stutter.
- *Moderation* adds only variables of its own and moves Publication's as `Next` allows
  (`ModeratesPublications`, a lemma), so Publication's theorems hold of the composition. The last event of
  a version tells what its case and its axis are now (`LastEventInv`), from which the next event
  connects to it.
- *ModerationWorkspace.* An answer on its way is of what its page asked for (`AnswerInv`, `PostInv`), and no page holds the
  key of a success that was told, nor two pages of a moderator the same key (`KeysInv`), so a second success has
  another event. A snapshot says of its case what the log left at its date (`Stands`), an event too
  (`EventsTell`), and since the log only grows (`LogKept`) both go on to be true; a fetch that is not superseded
  began after everything the page has shown (`FreshInv`).
- *CatalogRequests.* The locks exclude each other (`Exclusive`), and what a transaction has read
  under them is still true (`ReliesInv`): the names it is about to write are nobody's, the request
  it decides is pending. Nothing else keeps names unique; the proof uses no unique index.
  `NoDeadlock`: who waits for a name waits for a later one than those they hold, and of rows
  nobody but a requester, in a deletion, holds more than one, all of them their own.
- *AccountLifecycle.* A deletion that has locked the identities of its account finds them all
  locked until it commits, and a login about to issue a session has its identity locked and mapped
  as it found it (`RequestInv`), so that no session appears after the purge.
  `KeepsPersonalDataPromise` then maps the tables to the kinds of data kept: each step changes
  what is kept of one account that is active, or makes it join or leave. `NoDeadlock`: a request
  waits for a later lock than any it holds (`OrderInv`), lifecycle locks in the order of the
  accounts, then identities, sessions and the user row; its hypothesis that a follow does not
  touch its session first is the finding of `accounts_follow`.
- *DeletionRecovery.* A deletion the database does not show is in a recorded ledger
  (`EvidenceInv`), and a ledger made since traffic stopped lacks no tombstone of the database
  (`LedgersInv`), so a restored database that has been replayed with coverage, and with all
  recorded ledgers, has every tombstone.
- *DraftEditor.* A request says what its tab held, and of a revision there was before it
  (`Honest`); the answer a tab waits for is to what it sent (`Matches`); an idempotency key stands
  for one revision, which is the published one if the key is (`KeysInv`); and a tab that a
  conflict sent to reload is behind the server (`KnowsItIsBehind`), so that no answer to its own
  save can have been a success.
- *RecipeAuthoring.* `WellFormedInv`: rows have keys of their own, and actions refer, each row at most
  once, to rows that are there; every edit keeps it (`RowsEdited`, `StepsEdited`), and every copy
  (`RenamedOf`, `CopiedOf`). The rest is about what the operators compute on well-formed documents:
  - `ChangesAreShown`: the pairs of a comparison without a change make a bijection of the rows and one of
    the instructions under which all is equal (`UnchangedIsSame`); of a document and its copy each
    row is paired with itself, as the nearest (`SameIsUnchanged`).
  - `MostAreReplaced` is the correctness of the search by augmenting paths. A search that fails leaves
    a set of visited rows that all who may take one of them hold (`Missed`, `Found`), and from
    the failed searches together comes a cover: rows of either side, as many as there are pairs, of which
    every possible pair has one (`Covers`, `MostMissed`). So no matching has more pairs.
  - `OneFingerprint`: reduced fractions are equal if and only if the cross products are
    (`FractionsEqual`, from the identity of Bezout), so canonical measures are equal if and only if
    the amounts are (`MeasuresEqual`). The order by uses is strict and total (`PrecedesOrder`), so the
    rows of one core have the numbers from one to their number (`TokensOf`, `TokenTaken`): equal
    fingerprints give a bijection of rows by core and number (`AlikeIsSame`). Conversely rows
    that answer to each other are used in the same places, and a used row is numbered by its uses
    alone (`UsesKept`, `TokenUsed`, `SameIsAlike`).
  - `FairScores`: a fingerprint is a bag of cores whose amounts are positive fractions (`PrintOf`).
    Multiplying by a scale keeps unlike amounts unlike (`ScaleUndone`), so it keeps every count of the bag
    (`ScaledCoresOf`), and what a scale matches one way its inverse matches the other way
    (`MatchesBack`). A scale that is no candidate matches no numeric amount, and so no more than
    scale one does (`OthersMatchLess`): none matches more than the one chosen (`BestScaleOf`), and if any
    makes all amounts those of the other, a candidate does (`QuantityScoreOf`). The inverse of
    the best scale is a best one of the other direction (`QuantityScoreSymmetric`). Each cell of the
    table of `_lcs_length` is the size of the largest set of pairs of like elements that do not cross
    (`LcsIsCommon`), which does not depend on the direction either (`LongestSymmetric`). The weights
    make a hundred (`WholeOfParts`).
- *MemberInteractions.* `AskedOrShown`: until the save last asked for is carried out, what is
  stored is what is shown, and from then on what was asked for; what is still on its way repeats
  it or changes nothing (`Repeats`).
- *DraftCreation.* The key of a creation still on its way is stored while its draft does not exist
  (`KeysAreKept`), and what a page was told of its key stays true (`Told`).
- *AbuseLimits.* A bucket that a transaction has written is written by nobody else until it ends
  (`OneWriter`), so what it wrote is one more than what is committed (`Writes`); prunings delete
  buckets of earlier windows only.
- *SandboxSupervisor.* One supervisor holds the lock, and everything there is belongs to the
  generation it tends or is on its list of what to remove (`Clears`).

Assumptions on the constants, all evaluated by TLC in the runs of their modules: identifiers that
the code orders (versions, accounts, names, generations) are naturals; what is counted or locked
by all (sessions, workers, members, generations) is finite; limits and bounds are naturals; kinds
of identifiers do not overlap, and `None`, `Nil` or `Untouched` is none of the values it stands
beside, as NULL is none. Of documents it is assumed that a requested ingredient is none of the
catalog (`IngredientsAssumption`), that what the fields of the editor let through is a measure of its
kind in reduced fractions with positive scales (`MeasuresAssumption`, `QuantitiesAssumption`), that rules to one
base are of one dimension and family, which `_reviewed_conversion` insists on, and that versions to start
from were publishable and had a fingerprint (`VersionsAssumption`), as `Publish` requires. The scales that
`FairScores` compares with the one chosen (`Factors`) are positive fractions (`FactorsAssumption`), any
number of them.

What the proofs changed in the models. `DecisionsAreEvidenced` had said of a duplicate only that
it points to an ingredient of the catalog: it is inductive only with the clause that this is not
the request's own, which the code guarantees (a pending request has no ingredient).
`AuditExplainsHiding` says for each event, and not only for the last, what the log before it left.
`NoDraftIsLost` says of every draft that nobody was told of, and not only of those whose requests
are gone, that its key is kept. `Discover` removes orphaned generations in any order, as they are
sorted by random identifiers. In the modules of `authoring` recursion became recursive functions
(`Assign` over calls, `Gcd` over pairs), and lists that are only searched became sets: a row's uses are a set
of places with an order (`Uses`, `Earlier`), the options of an action a set of rows, a zip of two lists pairs
of equal rank (`PairRest`). The bags of DuplicateScoring, first folds, are counted as sets of numbered copies
(`Copies`), candidate scales are taken from a set of pairs of amounts (`AmountPairs`), and `LcsLength` is
a function of pairs of lengths. `ScoresAreFair` had called a recipe scaled if some scale of the instance makes
its amounts those of the other, which TLC confirmed for that instance only: for any set of scales the
candidates have to be among them. What a recursive function computes is shown by minimal
counterexamples: of the arguments for which it would be wrong there is a least one
(`LeastOf`), so that no induction scheme with an operator parameter is needed.

Model-checked only: `RestoreCompletes`, which is liveness under strong fairness.

## What is abstracted or left out

- Replays answered from a stored row, and refusals, change nothing and have no action.
- Publication does not keep the keys of draft creation (DraftCreation does) and of preflights; a
  publication's key it keeps.
- The preflight's capacity limits refuse a request and are not modelled.
- Request fingerprints: a request whose key or draft has a receipt is either answered
  from it or refused; both leave the tables alone.
- What a draft reads of the catalog (units, categories, ingredients) is not modelled yet;
  a draft that is complete for the catalog is one with a structure.
- CatalogRequests keeps of a request's texts only its name and whether it carries a context;
  a duplicate decision names its ingredient, not the request it may have been found by.
- The edition, immutability and audit triggers of the migrations are not modelled: the
  properties show that the services never rely on them.
- The partial unique index on pending names and the unique catalog names back the name locks
  up; they are left out, and `NamesAwaitOneReview` shows that the locks suffice.
- ModerationWorkspace: the queue and its pages (any case with reports may be selected at any time), titles, focus and
  notices, the text of notes, and the reports and audit history under the case, which `moderation_case_detail` reads with
  statements of their own and which may so be later than the state above them.
- AccountLifecycle: sessions and login states do not expire, since an expired one is refused like a
  revoked or a consumed one; sandbox entries and provider protocol details are left out.
- DeletionRecovery: digests, file permissions, the ledger's syntax and the catalog, draft and
  other private rows a replay verifies; of these only the bucket that can outlive an account is kept.
- DraftEditor: a publication's reason, the withdrawal of a corrected version and the choice of a
  similar recipe.
- DraftCreation: a tab that is closed or copied with its storage, and a browser that refuses storage; the
  draft of a closed tab is found in the list of drafts only. A page left before its answer clears the key
  when the answer comes, which the model counts as having been told.
- AbuseLimits: how a request's network is derived and trusted, which route has which limits; subjects are
  model values, and the operation, which is part of a bucket's key, is one. The two prunings
  of an attempt are one step.
- SandboxSupervisor: a command whose client is gone has been carried out by then or never is; the names and
  labels that prove ownership (a resource is of its generation); proxies, ports and images, which refuse
  before anything is created; the host's reboot; the cache of one second in front of the backend's readiness.
- MemberInteractions: recorded views, the preference events' contexts, a card's viewer state
  fetched while its own save is on its way, the library list.
- RecipeDocument: trimming and length of prose, names as displayed, servings and times,
  limits of 200 rows and 500 actions, catalog rows that are no longer active; title, description and
  categories are one value, `header`, and a step's title is part of its text.
- DuplicateScoring: the ranking and the limits of work and size (Publication has the ranking,
  of constant verdicts); RecipeDiff: presentation and names.
- Timestamps: the audit log is ordered by its insertion. The order of `occurred_at`
  agrees with it as long as the servers' clocks do.

## Plan

Done: Publication with RecipeHistory and proofs; Moderation and its pages; CatalogRequests; account deletion and
authentication together (AccountLifecycle, PersonalData); DeletionRecovery; DraftEditor; the pure
algorithms (RecipeAuthoring and what it extends); MemberInteractions, DraftCreation, AbuseLimits,
SandboxSupervisor.

Left to model:

1. The catalog state a draft reads before the publication guard, composed with CatalogRequests.
2. Sandbox entries and the binding of a database to its generation; the session provider of the
   frontend, of which little is not a guard; the library list.
3. Lock orders across handlers of different modules (NoWaitCycle is checked within each).

Theorems: all properties of the runs but `RestoreCompletes` are proved.
