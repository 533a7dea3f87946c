# Rainbond console: a verification project

The Rainbond console is the web back end of the Rainbond platform: a Django
application that keeps applications, components, templates and users in a
relational database and makes *regions* (clusters with their own API) do what
its users ask for. The same state is thus kept twice, once in the console and
once in a region, and a request changes both, one call after the other, in a
worker that may die or be overtaken by another request at any of them.

This directory holds TLA+ models of the parts of the console where that is
hard, the TLC configurations that check them on small instances, and theorems
about them that TLAPS checks for every instance.

## 1. Inventory

Paths are relative to `src/console/` unless they begin with `src/`.

### Parts with state machines of their own

| Part | Source | State | Operations | What is hard | What makes it correct |
|---|---|---|---|---|---|
| Upgrade and restore of market applications | `services/upgrade_services.py`, `services/market_app/app_upgrade.py`, `app_restore.py`, `market_app.py`, `repositories/upgrade_repo.py`, `views/app_upgrade.py` | upgrade records, component records, the application in the database, the components in the region, deployment events of the region | create, upgrade, upgrade of one component, restore, retry, poll, list | every handler works on copies read earlier and saves whole rows; region before database; two commits where one is meant; workers die | region and console agree when nothing is under way; a record never claims what did not happen, reaches a verdict, and has its component records |
| Automatic snapshots | `services/app_version_auto_snapshot.py` | one ConsoleSysConfig row per application, with the events it waits for | claim before an upgrade, track, cancel, settle, expire | one row is a mutex for upgrades and a to-do list for the background threads of all processes; long transactions, on a database with row locks or without | each operation as if at once; no deployment behind two snapshots, none behind one that failed; a claim that nobody else takes, and that ends |
| Device authorization of MCP clients | `services/mcp_device_authorization.py`, `views/mcp_device_authorization.py` | one row per grant, rate-limit buckets | create, poll, inspect, decide, consume, expire | polls and decisions race through conditional UPDATEs; time passes; a worker dies between consumption and answer | decided once; one token at most, for the user who approved; final answers are final |
| Coalesced read cache | `utils/coalesced_read_cache.py` | entries, flights, a generation, all in one process | `get`, `clear` | threads that share a load; `clear` while loads are under way; loads that fail | no reader gets anything older than the last `clear`; loads are shared; nobody waits for ever |
| Template retirement and region leases | `services/cleanup_retirement.py`, `services/cleanup_coordination.py` | template versions, their activation revision, who refers to them, leases in the stores of a region | lock for use, acquire and finish leases, list, check and retire | answers that are lost, commits that follow or do not, listings that are old when they are used | a version in use is never retired; a lease is ended as done only for a reference that exists, and none is left behind |
| Audit of an AI client's operations | `services/rainskills_audit_service.py`, `repositories/rainskills_audit_repo.py`, `views/mcp_query.py`, `views/internal_rainskills_audit.py` | one row per operation, a feed of events with growing ids, the consumer's cursor | begin, run the tool, finalize, declare unknown, page through the feed | calls are repeated; a worker dies between tool and record; ids are drawn before they are visible | the tool runs once at most; one start and one end, and the end is true; no event is skipped |
| Tracking of the deployments an AI client starts | `services/rainskills_deployment_service.py`, its repository | one tracker row per attempt, threads and a sweeper in every process, reports at a server | begin, bind, discard, mark failed, poll, report, sweep | processes share rows but not threads; reports whose answer is lost; processes that are replaced | reports are true, one result per attempt, delivered in the end |
| Hidden versions and snapshots | `services/app_version_service.py` | hidden templates, snapshots, relations | create, delete, roll back | compensation when a later step fails | a snapshot that is offered can be restored |
| Gray release | `services/gray_release_service.py` | a record, a second copy of the components, weights of a route | create, change weight, finish, roll back | three systems changed in a row without a transaction | weights add up to 100 and belong to an active record |
| Source build state | `services/source_build_state_service.py` | one JSON document per component | save, activate, restore a language | read, modify, write without a lock | what was saved for a language is still there |
| Login attempts, verification codes | `services/login_security_service.py`, `services/sms_service.py`, `utils/cache.py` | counters and codes with an expiry, in Redis or in one process | count, lock, send, verify | a bounded cache that drops what does not fit | counters never go back inside their window |

### Parts that are mostly data or I/O

Market installation and template publishing; import and export; backup, migration and
copy of applications; component actions, configuration, creation and plugins; platform
plugins; virtual machines and database clusters; the MCP tools themselves;
first-deployment telemetry (`enterprise_first_deploy_service.py`); teams, regions and
groups; users, permissions and sign-in; the HTTP layer and the region client. They build
rows field by field, forward one call to a region, or look things up. `PROJECT.json`
lists each with the reason why it is not modelled (yet); `src/www/static` is vendored
JavaScript.

### How the parts meet

* A request is a Django view in a worker; it calls services, which use
  repositories (the database) and the region client (HTTP). Nothing but the
  database is shared between workers. Unless a service says otherwise, every
  statement is a transaction of its own.
* An upgrade takes the template's lock (`lock_template_use`), claims the
  snapshot row (`before_upgrade`), changes the region, saves the application and
  the record, deploys, hands the events to the snapshot row (`track`) and
  inserts a component record per event. Later polls ask the region for the
  events and give the record its verdict.
* Retirement of a template version looks at the same upgrade records, at the
  installed groups and at snapshots; installation and upgrade fence it off with
  the template's lock and with leases in the region.
* A tool call of an AI client passes through the audit (its start is recorded, the
  tool runs, its end is recorded) and, when it deploys something, through the
  tracker that reports how the deployment ended.
* Reads of the market and of the regions go through the coalesced cache; whoever
  changes what it holds calls `clear()`.
* The device flow ends in the same token repository as sign-in.

### What is hard to test

The `hazards` of `PROJECT.json` give each at its line. The pattern that recurs
is *read, call somebody, write*: a copy is taken before a region call and the
whole row, or a decision based on it, is written after it.

## 2. Plan

In order of importance. All of these but the last three are done.

1. **AppUpgrade** with **AutoSnapshot** and **UpgradeClaims**: the record life
   cycle. Proofs in **AppUpgradeProofs** and **ComponentRecordProofs**.
2. **CoalescedReadCache** implements **FreshReads**. Proofs in
   **CoalescedReadCacheProofs**.
3. **DeviceAuthorization** implements **DeviceGrant**. Proofs in
   **DeviceAuthorizationProofs**.
4. **TemplateRetirement** implements **TemplateFence**: the template's lock, the
   leases of `protect_references`, the upgrade that goes on after them and the
   clean-up with its listing. Proofs in **TemplateRetirementProofs**.
5. **OperationAudit** implements **AuditTrail**. Proofs in **OperationAuditProofs**.
6. **DeploymentTracking** implements **AttemptReports**: trackers, threads, sweepers
   and restarts. Proofs in **DeploymentTrackingProofs**.
7. **SnapshotTracking** implements **SnapshotRow**: the transactions on the
   snapshot row, of requests and of the workers of several processes. Proofs in
   **SnapshotTrackingProofs**.
8. Left: **GrayRelease**: record, route and copies with a failure between any two.
9. Left: **SourceBuildState**: two requests on one document; a last-writer
   abstract specification per language.
10. Left: **LoginAttempts**: counters and locks over the bounded cache.

## 3. Modules

### AppUpgrade: records, requests and the region

One group of components installed from a template. `records` and `rows` are the
tables `app_upgrade_record` and `service_upgrade_record`, `latest` is the record
with the newest `update_time`, `console` is the template version the database
holds and `region` the one the region runs; `event` is what became of every
deployment the region was asked for. A request (`req[q]`) has a program counter
and the copies it holds: `obj` is the record object, `held` the component
records of a poll. Every action is what a handler does between two points where
another worker may run, i.e. one transaction or one region call:

| Request | Actions | Code |
|---|---|---|
| `POST upgrade-records` | CreateRead, CreateInsert | `create_upgrade_record` |
| `POST .../upgrade` | UpgradeLoad, Construct, Publish / PublishUnconfirmed / PublishRefused, SyncNewApp / ...Fails, SaveApp / ...Fails, DiskPluginFails, Deploy / ...Fails, Track, CreateRows | `AppUpgrade.__init__`, `upgrade`, `_save_app`, `deploy`, `_create_component_record` |
| a failure of it | Cancel, RecordFailure / ...Fails, Undo / ...Fails | `_update_upgrade_record`, `rollback` |
| upgrade of one component | UpgradeComponentLoad, PublishRefused | `upgrade_component` |
| `POST .../rollback` | RestoreLoad, RestoreConstruct, RestoreCancel, RestoreSync / ...Fails, RestoreSave / ...Fails, RestoreRecord / ...Fails, then as above | `AppRestore` |
| `POST .../deploy` | RetryLoad, Retry / RetryFails | `UpgradeService.deploy` |
| `GET upgrade-records/<id>` | Poll, FetchRows, FetchEvents / ...Fails, SaveRecord, DeleteRows, InsertRows | `sync_record`, `bulk_update` |
| `GET upgrade-records` | List, ListReturn | `list_records`, `sync_unfinished_records` |
| the region, the worker thread, time | EventEnds, SnapshotWorker, FenceExpires | external; `AppVersionAutoSnapshotService` |
| a worker dies | Crash | external |

`AutoSnapshot` is the snapshot row and its operations, each one step. AppUpgrade
takes them by INSTANCE and conjoins them with what the request does in the same
transaction. That they may be taken so is what SnapshotTracking shows.
Versions stand for templates: the difference between two templates, the content
of snapshots and the plugins they install are data that no property looks at.

History variables: `made` and `dropped` are the component records ever inserted
and those a dying worker left deleted; `faults` and `crashes` count. `parted` names
what may have parted the region from the console, and it is what Converged excuses:

| | What happened | Code |
|---|---|---|
| `sync` | `sync_new_app` raised after the region had applied something: its answer was lost, or only the first of its calls went through. Nothing is rolled back then | `market_app.py:66`, `app_upgrade.py:250`, `app_restore.py:89` |
| `undo` | `rollback()` raised | `app_upgrade.py:267` |
| `late` | `rollback()` came when the console had another version than the request had read, or another request was between its sync and its save | the same |
| `plugin` | the disk plugin failed after the commit; only the region is put back | `app_upgrade.py:260` |
| `record` | the rollback record could not be inserted after the commit, and only the region is put back; or the record of a failure could not be saved, and `rollback()` is not reached | `app_restore.py:93`, `app_upgrade.py:265` |
| `crash` | a worker died between its sync and its save or on the way to `rollback()` | |
| `deadline` | the twenty minutes of the snapshot row passed under an upgrade | `app_version_auto_snapshot.py:193` |

In `plugin` and `record` the code itself parts the two, by putting back less than it has
committed or nothing at all (`undo`); the others are left as they fall. Two theorems say when
the list is complete: of requests that come one at a time, and of upgrades that
overlap where there is a snapshot row and nobody restores. Without either it is not: two
upgrades to different versions may leave the region on the one and the console on the other.

`UpgradeClaims` states what a comment of this code says of it, where TLC finds
that the code does something else.

### CoalescedReadCache and FreshReads

A thread (`reader[t]`) is inside `get()`; its steps are the sections between two
uses of the lock, the loader and the event. `flight` holds the flight objects,
`flights` the table of those under way. The time to live is not a clock: any
entry may have expired (a lookup may pass it by), which allows more than the
code does. The result of a load is the version of the source it read, so
staleness can be stated. `FreshReads` is the promise, without flights, entries
or generations: an answer lies between the version at the last `clear()` before the call
and the version now.

### DeviceAuthorization and DeviceGrant

One grant. `row` is its row, with status `absent` before it is created; `poll`
and `browser` are requests, each with the time at which it began and with what
it copied from the row; a conditional `UPDATE ... WHERE` is an IF over the row
as it is now. Rate limits are a refusal that may happen at any time. Expiry
compares the row with the time at which the *request began*, as the code does. `tokens`
counts what every user got; `final` tells that some poll was given a final
answer. `DeviceGrant` knows only whether the grant is open, approved, closed or
spent, who decided it, and the tokens.

### TemplateRetirement and TemplateFence

One template. `alive` are its version rows, `rev` their
`cleanup_activation_revision`, and `bind`, `records`, `pins` what refers to a
version: the groups, the upgrade and rollback records with both their versions
and their status, the snapshots. A caller is one installation or one upgrade;
`lease` is what each store of the region has been told of it, `lock` who holds the
rows of the template. An upgrade loads a record, and several may load the same one:
its version is that of the last who published it. A restore makes a record of its
own; a poll or a repeated deployment saves the whole copy it has read. A group may be
deleted, restored or upgraded while another request has its copies.

| Part | Actions | Code |
|---|---|---|
| the fence | Lock, Discover, Acquire / AcquireFails, BodyFails, Undo, Commit / CommitFails, Confirm | `lock_template_use` (`cleanup_retirement.py`), `protect_references` (`cleanup_coordination.py`) |
| the upgrade around it | CreateRecord, Load, ReadGroup, SyncNewApp, SaveApp, UpgradeFails, Deployed | `create_upgrade_record`, `UpgradeService.upgrade`, `AppUpgrade.upgrade` |
| a poll, a repeated deployment | SyncLoad, PollSave, RetrySave | `sync_record`, `UpgradeService.deploy` |
| a restore | RestoreLoad, RestoreSave, RestoreRecord, RestoreDeployed, RestoreFails | `UpgradeService.restore`, `AppRestore` |
| removal, death | Uninstall, Crash | group deletion; external |
| the clean-up | ListRow, ListTarget, RetireCheck, RetireDelete | the inventory and `retire_template` |

A transaction's writes appear when it commits; `on_commit` is what follows.
History: `uses` counts how often a version's fence was passed, `committed` is
the caller's commit, `excused` says why a lease may stay (a lost message about its end, a failed
commit, a death), `exposed` are the upgrades whose record has stopped naming the
version they are on the way to, because somebody else has written it: a poll that settled it, a
request that saved an older copy, or a second upgrade that published another
version. `loose` are the versions an upgrade takes up although nobody used them any more:
its target when it was exposed, or, for its snapshot, the version its group had when it
was read and has left since.

`TemplateFence` knows the versions that are there and those in use: nobody comes to
one that is gone, and none in use, nor the newest, goes. In use are the versions groups and
snapshots are bound to and the targets of upgrades that have passed the fence and not arrived, but
not those of exposed upgrades and not what is loose: of these the code promises
nothing, and `early` shows what comes of it. When the application has a snapshot row,
`before_upgrade` refuses the second upgrade while the first holds the claim; this model
has no such row and lets both through.

### OperationAudit and AuditTrail

A call is at `insert` (it found no row and is about to write one), `commit`, `run`,
`finalize`, `end` (its second transaction is open) or `done`. `txn` is the event each
writer has inserted and not committed, `feed` what is committed. On SQLite, the default
of the console, one transaction writes at a time; on MySQL transactions that write
different rows overlap, so ids may become visible out of order. A run starts with
either. The view (Poll, Declare, Declared, Page, PollFails) first finds the operations
that have been executing for too long (Age) and ends the first `StaleLimit` of them (a
hundred in the code) one by one as unknown, then reads a page behind the consumer's
cursor. History: `outcome` what the tool did, `got` the ids given to the consumer,
`late` the ids that were not visible when a page passed them. `AuditTrail` counts events
per operation and type: one start, then at most one run, then one end, which says what
the tool did or that nobody knows.

### DeploymentTracking and AttemptReports

`row` is the table of trackers, `work` one thread per process and key at most
(load, dispatch, check, settle, report: `_poll_by_key`), each with the copy of the
row it has loaded; `queue` and `offset` belong to the sweeper of a process
(Sweep, SweepOne: `sweep_once`). The tool call is Begin, then Bind, Discard,
MarkFailure or CallDies. Happens, Close, Expire and Restart are the region, twenty minutes,
seven days and a process that is replaced. A report that is not acknowledged may
have arrived. With `Outage` the report server never answers, and then time
matters: a report takes 17 seconds and sweeps come every 15, which Sweep states.
History: `cause` why a tracker is gone, `shared` the attempts two processes
watched at once. A tracker is bound to at most fifty events; those behind the
fiftieth are not part of the model. What a sweep queues is `Kept`, a recursive
function for the loop of `sweep_once` that skips the trackers it cannot use.
`AttemptReports` is what the report server sees: deployments, their ends, what is
told of them and why they are given up, and nothing of rows, threads or retries.

### SnapshotTracking, SnapshotRow and AutoSnapshot

The snapshot row of one application. It takes down the deployments it waits for, and
while it is enabled no upgrade may start. A transaction on it reads the row, asks the
region for events and components, builds a snapshot and writes the row; here the reads
and the writes are steps of their own. `lock` is who holds the application's row, which
every writer takes with `select_for_update` on MySQL, or who has begun to write on
SQLite, which has no such lock; `fresh` are the transactions of SQLite that have read
what is still the last state, and only those may write.

| Part | Actions | Code |
|---|---|---|
| deployments of components, installation | Deploy, Register | `deploy`, `upgrade`, `batch_operations` in `app_manage.py`; `safe_track_components` |
| a batch in one transaction | BatchBegin, BatchDeploy, BatchRegister, BatchCommit | `batch_action` |
| an upgrade | ClaimBegin, ClaimRefused / ClaimGranted, Claim, DeployVersion, RegisterUpgrade, UpgradeFails, CancelClaim | `before_upgrade`, `AppUpgrade.deploy`, `_update_upgrade_record` |
| a restore, a rollback | Restore, DeployVersion, RegisterUpgrade; RollbackBegin, RollbackCommit | `AppRestore`, `rollback_snapshot` |
| a worker's visit | List, Visit, NothingToDo, Expire, SettleFailed, ReadEvents, TakeSnapshot | `run_once`, `reconcile` |
| failures, the region, time | Fail, Busy, EventEnds, DeadlinePasses | exceptions and deaths; external |

A transaction that only writes at its end and asks nobody in between (Register,
CancelClaim, Restore) is one step. An upgrade whose deployment the region accepts and
whose answer is lost gives up its claim and registers nothing (UpgradeFails). `covered`
is a history: how many automatic snapshots were taken for each deployment. `SnapshotRow`
has the operations of AutoSnapshot, each at once, and nothing of locks and phases.
Django's isolation level on MySQL is READ COMMITTED, so what is read behind the lock is
the row as it is. An application with a vm_run or kubeblocks component has no row and is
not part of it, nor are the deployments of a rollback, which are never registered. That
one registration within a batch fails by itself is left out: the deployment is then one
that no row knows of, as after a batch that fails.

## 4. Runs

| Run | Instance | Shows |
|---|---|---|
| `serial` | one request at a time of every kind, two components, two records, one failure anywhere and any failures of its own handling | TypeOK; StatusFamily: no record takes the other kind's status; Converged: region and console agree when idle unless one of the named failures parted them; FinishedMeansFinished: a finished record has no component under way |
| `twice` | two requests on one record that may be deployed twice, one component, one worker that dies | RowTruth: component records never claim what the region's event did not say; RowsNotLost: component records are lost only with a worker that dies, or from a record deployed twice; VerdictEarned: no record is declared done that was not |
| `live` | two requests that create, upgrade and poll, two components, one crash, PolledSpec | BatchesWhole: polls that overlap leave all the component records of a deployment or none; EventuallyFinished: a started record that is polled reaches a final status |
| `undo` | one request, one failure | refutes RolledBackOnFailure (section 6) |
| `cache` | three threads, one key, one change of the source, two calls of `clear()` | TypeOK, SingleFlight, NobodyForgotten, KeepsPromise (refinement) |
| `device` | two polls, two browsers, two users, a grant that lives two ticks, one failed inspection | TypeOK, FinalIsFinal, KeepsGrant (refinement) |
| `retirement` | any two of an installation, two upgrades of one record and a restore, one poll or repeated deployment, two versions, two stores, one failed call or death | TypeOK; LeasesSpanCommit: stores keep their lease until the reference is committed; NoLeaseForgotten: a caller that is through leaves none open; AnswerExplained: what the caller hears agrees with what is committed; NoUseOverlooked: an old listing retires nothing that was used since; KeepsFence (refinement) |
| `early` | one upgrade, one poll, three versions, no failures | refutes BoundVersionsExist (section 6) |
| `audit` | two calls for any of two operations, SQLite or MySQL, pages of one event, one stale operation per poll, one fault | TypeOK; NothingSkipped: the cursor passes no event unseen but those MySQL commits late; KeepsTrail (refinement); EventuallyTold: what was started is ended and told |
| `reports` | one attempt, two events, two processes with one thread each, one fault, one restart | TypeOK, HonestReports, OneResult, NothingDropped, RowsMoveOn; KeepsReports (refinement); EventuallyReported: the result is delivered |
| `starve` | two attempts, one process, one thread, an outage | refutes NoneStarves (section 6) |
| `snapshots` | two components, one request of any kind, one that deploys components, two workers, two deployments, one failure, MySQL or SQLite | TypeOK; CoveredOnce: no deployment is counted in two snapshots, nor waited for after one; CoveredEarned: none behind one has failed; KeepsRow (refinement); ClaimKept: deployments and workers leave an upgrade's claim alone; GateReopens: the row does not keep upgrades out for good |

**Bounds.** `MaxRecords`, `MaxBatches`, `MaxFaults` and `MaxCrashes` bound the records,
the deployments of a record, failures and crashes. A request starts only when the ids it
will need are left, so a bound never stops one half way. Two requests are what every
race of the upgrade code takes: one that reads and writes late, one that comes between.
MaxFaults bounds where a request fails first; that a claim is not given up, a record not
saved or a `rollback()` raises is part of how a failure is handled and always possible,
so one fault lets an undo fail after the failure it answers. `live` has no faults: of
what can keep a record unfinished it shows the lost rows and the dead worker, not the
poll that fails, which fairness of polling would only repeat. Two deployments of one
record (`twice`) let a poll that knows the first collide with one that knows both; with
one the second excuse of RowsNotLost never applies. Two records are needed for a
rollback beside its upgrade, two components for a batch that can be torn (`live`) and a
verdict that is partial. Three threads are a leader, one that waits and one that comes
after `clear()`; the second `clear()` lets a flight of generation zero land while a
later one is under way. A grant that lives two ticks leaves room for a poll that is on
time after one that was early, and `MaxClock` is its lifetime, so that requests exist
that began before and after expiry; MaxInterval caps the polling interval, which grows
without bound in the code but only delays. In `retirement` two stores are needed for an
admission that is granted by one and not by the other, and two versions for one that may
go. MaxRequests is two: an installation, an upgrade and a restore meet in pairs, and two
upgrades share the one record; beside them one poll or repeated deployment, removals of
groups and the clean-up come at any time. A death counts as a fault. Creating a record
is one step here and two in AppUpgrade: another record may always be there already.
`early` needs a third version, because the newest is never retired. A page of one event
makes the cursor stop between any two. Two processes are what it takes to watch one
tracker twice, two events for a list that holds only one of them. In `reports` the fault
and the restart may come together, in either order. `StaleLimit` is one, so that of two
stale operations one is left to a later poll. In `snapshots` a claim, a visit and a
registration are the three transactions that meet, and two components make registrations
that merge with what the row has. Two workers find the same row; a request that restores
or upgrades beside another that does is left to the theorems, which hold for any number
of both. MaxEvents bounds the deployments, so that GateReopens says nothing of
components deployed for ever: each registration would renew the deadline of a row that
is not claimed.

**Symmetry** is used where no CHOOSE or order on the permuted values matters and only
invariants and action properties are checked: requests and components in `twice`,
components in `serial`, threads in `cache`, polls, browsers and users in `device`,
stores in `retirement`, where the upgrades are permuted too. The other runs use none.

**Deadlock** is checked in `serial`, `cache` and `device`. It is off in the
other runs, whose systems really may stop: when the records are used up and all of
them are finished, when every caller of the fence is through and nothing is left
to retire, when every operation is told or every tracker gone, when the region
accepts no more deployments.

**Fairness.** SystemFairness: a handler that has started goes on to its end
unless its worker dies (a WSGI worker does not stop running a request), every
deployment of the region ends (the region has timeouts of its own), and the
worker thread visits the row (it loops every ten seconds). Faults and crashes
are never fair. PolledSpec adds strong fairness of polling each record, because the
page of a record polls it on a timer while it is open; a poll may find both
workers busy, hence strong. OperationAudit: the consumer polls again and again
and the view does its work, a transaction that has been committed ends, time
passes; tools may hang and calls may die. DeploymentTracking: threads and
sweepers of a process go on (they are loops that catch what their calls raise), and the
twenty minutes pass; tools may hang and a deployment need not end.
SnapshotTracking: requests go on, the deadline passes, the workers come round
every ten seconds, and who waits for a lock that is released again and again gets it in the
end (SF of Visit); no request need begin, no event need end.

**Mutants.** Every property of a passing run has a mutated definition beside the
one it mutates ("A mutant of ..."), with a mistake one could make in
that code; TLC finds the property violated with it.

## 5. Proofs

All theorems hold for any constants that satisfy the ASSUMEs of the module.

**AppUpgradeProofs.**
`TypeCorrect == Spec => []TypeOK`. TypeOK is not inductive: it allows None where
a handler uses a field, and NewId is only an id if the existing ones leave no
gap. TypeInv adds `AllLoaded` (a request in a phase that uses its record, its copy or
its versions has them) and `NoGap`.
`StatusFamilyCorrect == Spec => []StatusFamily`. The table may be written from
any copy, so FamilyInv says the same of every copy in a request's hands, and
that a copy has the type of the record it will overwrite.
`RowTruthCorrect == Spec => []RowTruth`. RowInv says it of the component records
that polls hold (they write them back), and that nothing speaks of a deployment
that has not been made, so that a new one, whose events start
afresh, finds no record that would become a lie.

**ComponentRecordProofs.**
`BatchesWholeCorrect`, `RowsNotLostCorrect` and `VerdictEarnedCorrect`, for any
number of requests, components, records and deployments. BatchInv adds: what is in
the table, and what a poll holds, has been made; a poll holds whole
batches, all of its own record; nobody else makes the batch a request is about to make (OwnBatch).
A poll that deletes and inserts whole batches leaves whole batches. RowsNotLost
then is inductive: a colliding insert means that one of its rows is in the table
while others are missing, so, batches being whole, the two belong to different
deployments of the record. For VerdictEarned, EarnedInv says of every copy what
the property says of the table; a batch that has earned a success keeps it,
because final events stay and no rows are added to it.

In the same module, `ConvergedCorrect` and `FinishedMeansFinishedCorrect` are proved
under the assumption `OneAtATime` (one client that waits for every answer) and for any
faults; Converged keeps its exceptions (section 3), FinishedMeansFinished that no
request was cut short. VersionInv says in which phases the region is ahead, and that the
version a request started from is the console's until it commits. WorkInv follows a
record's rows through a poll: the verdict is saved before the rows it is about, and only
the poll's copies, which have finished, come back. Neither holds when requests overlap:
a poll between publication and CreateRows finishes the record too early, and upgrades to
different versions may leave the region on the one and the console on the other. How far
the second goes is the subject of two more theorems, for any number of overlapping
requests with any failures and crashes. `OneClaimsCorrect == Spec => []OneClaims`: where
the application has a snapshot row and nobody restores (a restore cancels the claim and
waits for nobody), before_upgrade lets one upgrade at a time be between its claim and
what ends it, unless the row's deadline passes under it. ClaimInv says that whoever is
there has the claim. `ConvergedWhenClaimed` draws Converged from that, on the two
assumptions `FenceSupported` and `"restore" \notin Kinds` and no others: AgreeInv says
that the region is at the version about to be saved, or at the console's, unless some
upgrade still has to put it back. The exceptions are those of Converged, `late` and
`deadline` among them, which only overlapping upgrades meet; what they look like is in
section 6. TLC agreed before it was proved, on two requests that create and upgrade, two
faults and a death; no run repeats that.

**CoalescedReadCacheProofs.**
`TypeCorrect`, `SingleFlightCorrect`, `NobodyForgottenCorrect` and
`Refinement == Spec => KeepsPromise`. IInv adds: the floors lie below what can be
answered (Floors); the flights in the table are those of this
generation and have a leader (Registered); a flight has one leader and its event
is set when that one is gone (Led); what a leader has loaded is new enough for
itself, for those who wait for it and, unless `clear()` came between, for everybody
(Loaded); so is what a landed flight brings (Landed). The generation check of
`get()` is what makes Loaded hold for the entry that is stored.

**DeviceAuthorizationProofs.**
`TypeCorrect`, `FinalIsFinalCorrect` and `Refinement == Spec => KeepsGrant`. IInv
adds: polls that go for the token carry the user of the row, whose status cannot
be undecided again (Approved); one poll at most holds the consumed grant and then no token
has been issued (OneHolder); final answers are given only when the row is
settled (Finality). Each step is then a step of DeviceGrant or leaves grant,
approver and tokens as they are.

**TemplateRetirementProofs.** `TypeCorrect`, `LeasesSpanCommitCorrect`,
`NoLeaseForgottenCorrect`, `AnswerExplainedCorrect`, `NoUseOverlookedCorrect` and
`Refinement == Spec => KeepsFence`. IInv is TypeOK, the first three properties and: what
a request works on is there (Copies); what a caller has published and what it holds
follows from where it is (Stages); the state of its leases too (Leases); the revision of
a listed version is that of the listing only if nobody passed its fence since (Listed),
because the revision names the caller who passed last and every caller passes once; the
record of an upgrade that is not exposed names its target (Naming), and a snapshot a
record or copy knows of is there (Snaps); while a version is deleted the clean-up holds
the rows and nobody uses it (Deleting); the version a caller is about to publish, and
whatever is in use, is there (Standing); what is loose some upgrade has taken up
(LooseExplained). NoUseOverlooked follows from Listed and Deleting. For the refinement,
the checks of the clean-up see all that is used (UsedSeen), which is where Naming is
needed, and no step but the commit of the fence takes a version into use (UsedNext).
`BoundUnlessTakenUpCorrect == Spec => []BoundUnlessTakenUp` says what is left: nothing
is bound to a retired version but what an upgrade took up that had passed the fence, as
its target after its record was written by somebody else, or as the version its group
had when it was read.

**OperationAuditProofs.**
`TypeCorrect`, `NothingSkippedCorrect` and `Refinement == Spec => KeepsTrail`.
IInv is TypeOK, NothingSkipped and: an open transaction is about the operation
of its call and is of the kind its call is at (Transactions); from its start on an
operation is in the hands of one call (Owners); what is to be recorded is what
the tool did (Outcomes); ids are drawn one by one (Ids); on SQLite an open
transaction holds the last id, and one behind the cursor is known to be late
(Behind). The page's cursor is the greatest id of the page, which exists because
it is a bounded set of naturals (WFMin over NatLessThanWellFounded).
The refinement counts events as cardinalities, with the FiniteSetTheorems.

**DeploymentTrackingProofs.** `TypeCorrect`, `HonestReportsCorrect`, `OneResultCorrect`,
`NothingDroppedCorrect`, `RowsMoveOnCorrect`, `SweepsAll` and `Refinement == Spec =>
KeepsReports`. IInv says of every attempt: before its tool is through nothing is known
of it (Fresh); a tracker is bound to the events of its deployment and its result is true
(Sound), and so is the copy in every thread's hands (Copied) and every report (Honest);
a tracker that is gone has its cause (Explained); an attempt that was never shared has
one thread, which works with the row as it is (Single). Every action touches one
attempt, so a frame lemma (OneAttempt) disposes of all others. Ranges are the types of
what is not about one attempt; Sweeper says that a queue is a sequence of trackers and
an offset one of their places; Slots that the threads of a process never exceed
MAX_REPORT_WORKERS (cardinalities, with FiniteSetTheorems). Of Kept it is proved for
every sequence that it is one of the same elements, those in the set and no others: the
function is defined by a table over the lengths (First, Tables), and where it failed
there would be a least length at which it fails (WFMin over the naturals), which takes
the place of an induction. SweepsAll follows: wherever the offset lets it begin, a sweep
queues all trackers that wait and nothing else.

**SnapshotTrackingProofs.**
`TypeCorrect`, `CoveredOnceCorrect`, `CoveredEarnedCorrect`, `ClaimKeptCorrect`
and `Refinement == Spec => KeepsRow`. LockInv: who is in the middle of a transaction on MySQL,
of a rollback or of a batch that has registered something holds the lock.
CurrentInv: what a transaction has read is what the row still says, as long as it
holds the lock or is fresh; a lemma (Shape) says of every step that it leaves the
others alone or outdates what they have read. So, at the moment of its write, a
transaction knows the row as it is, and the write is the operation of SnapshotRow.
HomeInv says where events are: with a request that has not registered them, in the
row, or behind a snapshot, and never in two of these. IssuedInv: those events
have been accepted by the region, and those behind a snapshot have succeeded.

**What the promises mean.** Where a module implements an abstract one, theorems
about the concrete state follow from the promise alone, without looking at
the actions again (but for DenialStands, which also says that the row stands):

| Theorem | From | Says |
|---|---|---|
| TrailTrueCorrect | AuditTrail | the events of an operation are one start and at most one end, which is true |
| ReportsStandCorrect | AttemptReports | nothing told is taken back; an attempt is given up once |
| AnswersFreshCorrect | FreshReads | no answer is older than a `clear()` before its call |
| OneTokenCorrect, DenialStandsCorrect | DeviceGrant | one token for one user; none after a denial |
| RowSettlesCorrect, FailureTrueCorrect | SnapshotRow | the row's verdicts are those of the region; it is claimed only when the round before is decided or late |

These say more than the runs check by name; TLC sees them through the refinements.

**Only model-checked:** EventuallyFinished, EventuallyTold, EventuallyReported and
GateReopens (liveness under fairness is beyond the prover), and the three claims
TLC refutes. Every other property of the runs is a theorem.

## 6. What the code does that it does not say

Three are runs that TLC refutes, with a finding in `PROJECT.json`.

* `undo`: an upgrade that fails after its commit (the disk plugin), or a restore
  that fails to insert its record, puts back only the region.
* `early`: a poll that comes before the first component record declares a running
  upgrade partial. The clean-up protects the versions of unfinished records only,
  so it may retire the version the upgrade is about to bind its group to.
* `starve`: while the report server is out, a sweeper finds its threads still busy
  with the last round at every other sweep and moves its offset all the same. With
  twice as many trackers as threads it comes back to the same ones for ever.

These show at a glance in the code and need no run:

* a record may be created while an older one is unfinished
  (`upgrade_services.py:261`, against the comment at 259); only the one saved
  last is examined;
* a failed deployment clears the snapshot of the record and the record is still
  offered for a restore, which then fails (`app_upgrade.py:683`, `can_rollback`
  in `src/console/models/main.py:902`, `app_restore.py:55` and `:179`);
* a retry selects component records by statuses only application records take,
  and deploys nothing (`upgrade_services.py:340`);
* the upgrade of one component is always refused (`app_upgrade.py:232`);
* listing the records synchronizes none: `record.is_finished` is a method and is
  not called (`upgrade_services.py:304`, against the comment at 306).

Some more no document of the repository contradicts. A second upgrade may start on a
record that was loaded before the first one was published; the record is then deployed
twice, and a poll whose copies collide with those of another loses component records for
good. That is the last excuse of RowsNotLost. A `batch_action` that raises rolls back
the registration of deployments the region has accepted: no snapshot waits for them. And
of two early polls of a device one slow-down may be lost.

Where the snapshot row lets one upgrade at a time act, a failed one is still not out of
the way. `_update_upgrade_record` cancels the claim before `rollback()` calls the
region (`app_upgrade.py:265`), so the next upgrade may sync in between and have its
version taken away again; and what `rollback()` puts back was read when the request
began, before the claim (`app_upgrade.py:107`), so an upgrade that comes after
another one may put back what the other replaced. Two requests and one failure do
for either; Converged calls both `late`. An upgrade that outlasts the twenty minutes of the row is
overtaken by the next one (`deadline`).

A second upgrade of a record publishes another version in the same columns
(`app_upgrade.py:236`), and the target of the first is then named by nobody while it is
still on its way there: like the early verdict of a poll, this lets the clean-up retire it. Where
there is a snapshot row, the second upgrade is refused while the first holds its claim.

## 7. Not modelled

* Upgrades through the older openapi path (`upgrade_services.py`, from
  `get_or_create_upgrade_record` on), which keeps no snapshot.
* The content of templates, snapshots and property changes; plugin installation
  other than its failure.
* The content of a snapshot, and the components a rollback restores.
* In AppUpgrade, the template lock and the leases taken around an upgrade: they
  can refuse it, which is a fault of PublishRefused or PublishUnconfirmed. TemplateRetirement has them,
  with the upgrade reduced to what refers to versions.
* Retirement of build versions, the leases of snapshots, the scopes of a template
  beyond one lease per store, cloud installations without local rows, the
  signatures and identities of the clean-up's commands. That `select_for_update`
  locks rows on MySQL and that SQLite has one writer is assumed.
* The content of audit events (arguments, hashes, summaries) and of deployment
  reports, and the tools behind both.
* Rate-limit buckets and the removal of grants a day after they expired. With the
  removal a device code is unknown again, which is again a final answer.
* Everything section 1 lists as data or I/O.

## 8. Running

    for r in serial twice live undo; do
        tlc -workers 2 -config MCAppUpgrade_$r.cfg MCAppUpgrade
    done
    tlc -workers 2 -config MCCoalescedReadCache.cfg MCCoalescedReadCache
    tlc -workers 2 -config MCDeviceAuthorization.cfg MCDeviceAuthorization
    tlc -workers 2 -config MCTemplateRetirement.cfg MCTemplateRetirement
    tlc -workers 2 -config MCTemplateRetirement_early.cfg MCTemplateRetirement
    tlc -workers 2 -config MCOperationAudit.cfg MCOperationAudit
    tlc -workers 2 -config MCSnapshotTracking.cfg MCSnapshotTracking
    for r in reports starve; do
        tlc -workers 2 -config MCDeploymentTracking_$r.cfg MCDeploymentTracking
    done
    for m in AppUpgrade ComponentRecord CoalescedReadCache DeviceAuthorization \
             TemplateRetirement OperationAudit DeploymentTracking \
             SnapshotTracking; do
        tlapm ${m}Proofs.tla
    done
