# LQ-Sync: a verification project

TLA+ models, TLC runs and TLAPS proofs for LQ-Sync, which keeps LibreQoS's
`ShapedDevices.csv` and `network.json` in step with the subscribers connected to
MikroTik routers. Paths are relative to the repository root; `PROJECT.json`
maps each definition to the lines it stands for.

## 1. The system

Three processes share one SQLite file (`devices.db`), `config.json`,
`settings.json` and the two files LibreQoS reads:

- **updatecsv** (`updatecsv.py`, one thread, restarted by systemd): reads the
  routers, maintains the device table, writes the files, runs LibreQoS's update;
- **wan_service** (`wan_service.py`, one thread, off by default): spreads devices
  over WANs and keeps address lists on the core routers;
- **gui** (`gui.py`, Flask with threads): edits config and devices, takes the
  routers' webhook calls, monitors, fixes failed jobs, controls bursts, updates
  the application.

They talk through the database (the `webhook_events` table is the queue from
the GUI to updatecsv, the `jobs` and `events` tables are what everybody reports
to), through `config.json`, and through the routers themselves.

### Inventory

| component | state | operations | hard behaviour | what makes it correct |
|---|---|---|---|---|
| sync loop (`updatecsv.py`) | `next_full_at`, `update_pending` | full cycle, webhook cycle, skip, retry | exceptions anywhere, restart, unusable config, lost events | whoever is connected is shaped, whoever is gone is not; every change reaches LibreQoS |
| device table (`device_database.py`) | `devices`, `webhook_events`, `jobs` | upsert, remove, remove_inactive, export, take events, record_job | conflict order, open transactions, commits as a side effect | one holder per IP; static rows untouched; the best source wins |
| router scanner (`router_scanner.py`) | none | scan a router, look users up | partial reads, rollback | a router that was not read loses nothing |
| node assigner (`node_assigner.py`) | `parent_node`, `network.json` | assign by strategy, rebalance, write | sticky placement, two files | every parent exists in `network.json`; rebalancing ends and moves little |
| CPU planner (`cpu_planner.py`) | none | plan a tree for the CPU queues | sizes, names, promotion, splitting | every device placed once, unique names, prior placement kept |
| rate resolver (`rate_resolver.py`) | none | parse a rate, fall back | order of fallbacks | rates are positive, the first usable source is used |
| settings and files (`settings.py`) | `settings.json`, `.bak` | atomic write, write if changed | crash in between | readers see the old or the new file, a change is reported |
| GUI devices, config, flush (`gui.py`) | the shared files and tables | add, edit, delete, flush, save | interleaving with a cycle | the operator's rows and edits survive; consistent files |
| webhook (`gui.py`, `webhook.py`) | `webhook_events` | take a call, install on routers | lost, late, repeated calls | calls speed things up and never break them |
| WAN assignment (`wan_manager.py`, `wan_service.py`) | columns, per-core cache | assign, rebalance, sync, purge | two managers with caches, partial failures | the routers' lists become the target; foreign entries untouched |
| event log (`event_log.py`) | `events`, `event_occurrences` | record, sync conditions, prune | concurrent writers, reopen window | at most one open entry per problem; open ones are never pruned |
| jobs and auto-fix (`job_fixer.py`, `gui.py`) | `_autofix_tried`, `_fix_running` | diagnose, fix, auto-fix | thread against button, cooldown | one fix per job at a time; what can be repaired is, and stays so, with a cooldown per job and fix |
| burst control (`gui.py`) | `_burst` | sample, pause, resume, class pass | hysteresis, failed passes | raised only with headroom; taken back when paused |
| login (`gui.py`) | `_login_failures` | login, lock out | slow check outside the lock | the lockout happens and lasts |
| app update (`app_update.py`) | files, backups, VERSION | check, install, roll back, prune | break-off half-way | a rollback restores what was there |
| queue and SNMP statistics (`queue_stats.py`, `snmp*.py`, `host_snmp.py`) | previous counters | sample, delta | wraps, resets | no negative or absurd rates |
| hardware check, snmpd setup, preview server, page, scripts, tests | — | — | — | not modelled (section 6) |

## 2. Modules

| module | what it is |
|---|---|
| `DeviceSync` | the device table and all its writers: routers, sync service, webhook, operator |
| `ApplyPipeline` | from the table to a running LibreQoS: nodes, the two files, the update and its retries |
| `WanSync` | the WAN address lists of a core router, and the jobs of two programs that keep them |
| `Balance` | the three placing and moving loops: WANs, `cpu` nodes, the planner's `rebalance_moves` |
| `CpuPlanner` | the `auto_cpu` plan and what it reads back of the last one |
| `JobFixer` | jobs, services, diagnosis, the Fix button and the auto-fix thread |
| `EventLog` | the history of messages and conditions |
| `Burst` | burst control and the kernel's classes |
| `AppUpdate` | update, backups, rollback |
| `WebhookSetup` | the webhook's script and profile lines on one router |
| `FileWrite`, `AtomicFile` | `atomic_write_text` step by step; what everybody relies on |
| `RateResolver` | the rates a device is shaped at |
| `MCDeviceSync`, `MCApplyPipeline`, `MCWanSync` | instances for TLC |
| `MCPlans` | `Balance` and `CpuPlanner` for TLC |
| `MCServices` | `JobFixer`, `EventLog` and `Burst` for TLC |
| `MCParts` | `RateResolver`, `AppUpdate`, `WebhookSetup` and `FileWrite` for TLC |
| `DeviceSync_proofs`, `ApplyPipeline_proofs`, `WanSync_proofs` | theorems about these three |
| `Plans_proofs`, `Services_proofs`, `WebhookSetup_proofs`, `Parts_proofs` | theorems about what `MCPlans`, `MCServices` and `MCParts` put together |
| `InductionLemmas` | induction and sums, for the proofs |

The first two components meet at the device table. `DeviceSync` decides which devices
exist and abstracts parents away; `ApplyPipeline` lets each cycle start with an
arbitrary set of devices (`Scan`) and follows parents and files. `Balance` and
`CpuPlanner` are two of the strategies behind its `Assign`; `WanSync` lets its
assignment be any that keeps `assign_wan_nodes`' rules, and `Balance` says how it is
found. `DeviceSync` and `ApplyPipeline` write files in one step; `FileWrite` shows
that this is what `settings.py` provides. The calls that `WebhookSetup`'s scripts
make are `DeviceSync`'s `WebhookCall`.

The sum modules `MCPlans`, `MCServices` and `MCParts` put components that share no
state into one run: a variable `part`, chosen at the start, says which of them
runs, and the others stay as they began. So their states add up and do not
multiply.

### DeviceSync

*State.* `live` is what the routers would report; `config` the routers of
`config.json`; `disk` the committed table; `rows` the table as updatecsv's
connection sees it (they differ exactly while a transaction is open, when SQLite's
write lock is held and the GUI cannot write); `csv` the file; `pending` the
unprocessed webhook events. The others are the local variables of a cycle.
`heard` and `edited` are history variables: what the cycle has applied, and
whether the operator interfered.

*Time.* The code compares only `last_seen < scan_time`, so a row carries the
truth of that comparison (`seen`). A cycle's end makes every row unseen, because
each `scan_time` is taken after every earlier one; `time.time()` is assumed not to
go back. A row the GUI adds gets `last_seen = now`: seen if a cycle runs.

*Steps.* `ReadRouter` is one step although it is network traffic: nothing
happens in the service meanwhile, and `live` changes between it and the upserts.
Each `upsert_device` is a step of its own, so operator steps, crashes and
failures fall between. `RemoveInactive` includes its commit.
`BeginCycle` takes the events and reads the configuration in one step; that a
router could be added between the two is covered by the next full scan.
Routers are taken in any order and so are the reports of one source
(a superset of the code's order); the order of the sources is the code's.

*Left out.* MAC, rates, comments and IDs; IPv6 (the scanner never sets it);
`parent_node` (ApplyPipeline) and `core_name`/`wan_name` (WanSync);
debounce and minimum interval (a webhook cycle may begin at any time); test
events, which are stored as done.

### ApplyPipeline

*State.* `nodes` and `queues` are what the configuration would give now, `plan`
and `building` what the cycle in progress read; `parent` is the `parent_node`
column; `net` and `csv` are the files; `loaded` is what LibreQoS last read.
`network.json` is its set of nodes, the CSV the parent of each listed device.
`Blank` marks a flushed file: its text (`{}` and a line feed, or the bare header
with a line feed of its own) is one no build ever writes, so that the build after
a flush always sees a difference.

*Steps.* `Assign` chooses any placement the strategies could (each device on one
of the plan's nodes, or on none) up to the commit in `assign`; `AssignFails`
is an exception within it, where `timed_job`'s `finally` commits the parents
written up to there; `BuildFails` is an exception anywhere else in the build;
`WriteNetworkFails` the swallowed error. `Decide` is the test of
`network_changed or csv_changed or update_pending`. `SchedulerRefresh` is
lqos_scheduler, which reads the files whenever it likes, or never.

*History.* `disturbed` and `lost` are not in the code. `disturbed` says that in
this cycle `network.json` could not be written or was flushed, or that the operator
edited a parent: the three ways in which the files can fail to fit.
`lost` says that a cycle broke off with a changed file, or the service died with
an update pending: the two ways in which a difference goes unnoticed. Both are
reset where the code recovers (at the next cycle; at the next successful update), so
the properties that except them say that the damage does not last longer.

### WanSync

*State.* `wan` is the assignment in the table, `managed` and `foreign` the router's
entries with and without the app's comment, `cache[m]` what manager `m` (the
service's or the GUI's) believes, and `holder[m]` the job that is at work on that
table. A job is the service's cycle or one request of the GUI: `read`, `found`,
`remove` and `add` are its local variables. `knows[m]` is a history variable: the lists
the cache was read from, emptied when anybody but its holder changes the router.

*Steps.* A sync is skipped, fails to connect, or fetches the lists (any of which may
fail alone) and then removes and adds one entry per step; each call may fail or
raise, and the entry may be gone. A purge fetches all lists in one step.
`FULL_RECONCILE_INTERVAL` may pass at any time. The GUI serves its requests in threads
(`gui.py:4812`) on one manager without a lock (`gui.py:492`), so any number of them
overlap: each makes a table of its own (`SyncReads`), puts it in the cache's place
(`SyncBinds`), and goes on with it when another request has put its own there or has
dropped the cache. Putting it there and looking it up again (`wan_manager.py:375` and
376) are one step, as are the reads of a table before the first change.

*Abstraction.* A subnet is the set of its addresses; `_collapse_to_subnets` is
"the largest blocks that are full". One core: they share nothing. IPv6 and
addresses the router rejects for their form are left out.

### Balance and CpuPlanner

*Balance.* `Choose` takes any input; each step places or moves one item; `algorithm`
says which of the three loops it is, where they differ. Utilizations are compared
by cross-multiplication, without floats.

*CpuPlanner.* The state between plans is what the planner reads back: the devices'
parents and `network.json`, as each node's CPU and parent. A plan is the phases of
`_Planner` with one step per item, device or shard name. It ends in `Emit`. Between
plans devices come, go and change their rate, and the operator edits pins,
"promote" flags and the number of queues. Rates are those of the download
direction, the one all decisions are made in. A manual device on a node that is
dissolved, or on a split router, gets a CPU or shard as its parent and does not get
its old place back later; the model does as the code does.

### JobFixer, EventLog, Burst

*JobFixer.* An error text is the class `diagnose` puts it in. The button works on the
row it read when pressed, the thread on rows it read at the start of its round,
so the world may have changed before a fix runs. A fix is one to three steps
(look, act, ask for the job), with its end and its failures. A job with an interval runs
again and again. The LibreQoS update has none (`updatecsv.py:275`): it must run only
when its last run failed and the service still remembers (`failing`, that is
`update_pending`), or when a fix has asked for it (`asked`) and no full scan has taken
the request with it; it may run at any time, as files may change.

*EventLog.* Entries are known by key and opening time. `SyncReads` and `SyncWrites`
are the two halves of `sync_conditions`: the row of the first condition is read
before SQLite's transaction begins, and the operator's clear or the hourly prune may
come in between. One category.

*Burst.* A sample is one of five classes; a class of the kernel has the default
burst, its plan's, or that of a former plan. A pass may fail for any set of classes.
`BURST_DEFAULT_MAX` makes some classes `Small`: a pause leaves those as they are.

### AppUpdate, WebhookSetup, FileWrite, RateResolver

*AppUpdate.* A file is the version it came from, or torn. Copying may fail at each file
(into the backup or out of it) and the GUI may die anywhere. `orig` is history:
what was installed before the last update.

*WebhookSetup.* A profile script is a sequence of lines. Requests run in threads, one
API call per step, on profiles as fetched. A script the operator edits between the
fetch and the write is overwritten with the old one and the hook; `OwnLinesKept`
excepts just this, and says that nothing else loses a line. The operator may also put a
line above the hook or have it twice. `install` then makes it the first line and the only
hook; the pasted commands leave a script with a hook as it is, so `LeavesWhatItSays`
asks only of `install` that the hook is first. `Only` is `SelectSeq`,
written as a recursive function of its own, which a proof can unfold.

*FileWrite.* The kernel (external) has inodes and a name, in the page cache and on the
disk, and writes them out in any order; `fsync` forces the text. Writers die between
steps; a power failure brings back what was on the disk. `AtomicFile` is the
abstract specification: replace, commit, read, power failure. The mapping reads the
text of the inode the name points to, in the cache and on the disk.

*RateResolver.* Texts are token sequences, numbers hundredths (the code uses floats, and
rounds kbit/s to two places: `Round`). One direction; both are computed alike.

### Slips

A definition `X_slip` is `X` with a mistake that could be made in the code; no
behaviour of the specifications uses it. Each checked property is tried against
one slip put in place of the original, to see that the property can fail.

## 3. Runs

Deadlock is checked except in MCPlans, MCPlanFlap and MCParts, whose
`Balance`, `RateResolver` and bounded parts stop when they are done. "Violation" runs check one claim found in the
repository's text that the code does not keep.

| run | checks | bounds | shows |
|---|---|---|---|
| MCDevices | TypeOK, UniqueIPs, HighestPriorityWins, NoGhosts, StaticRowsKept | 2 routers, 2 codes, 2 IPs; 1 row to enter, 1 rescan | one IP reported by PPPoE and an address list on two routers, a user who roams to the other IP, and all operator actions between all steps of the service |
| MCSteady | HighestPriorityWins, NoGhosts, SteadyStaysShaped, GhostsAgeOut, SteadyGetsShaped | 2 routers, 4 codes, 2 IPs; 3 webhook calls | one steady subscriber; calls that name others or the wrong router; a router taken out of the config; liveness |
| MCApply | TypeOK, UpdateSeesConsistentFiles, NothingForgotten | 1 device, 1 node | all failures, edits, flushes, requests and crashes together |
| MCApplyLive | ChangesReachLibreQoS, FlushIsRebuilt | 1 device, 1 node | liveness, with failing updates, skipped configs, flushes and `network.json` errors |
| MCOutage | OutageKeepsShaping (violated) | 2 routers | a router outage can cost an IP |
| MCApplyBroken | ChangesSurviveMishaps (violated) | 1 device, 1 node | a broken-off build is forgotten |
| MCApplyDropped | RequestedApplyRuns (violated) | 1 device, 1 node | a re-apply request can be dropped |
| MCWan | TypeOK, CacheIsRouter, ForeignUntouched, ServiceHeals | 1 address, 2 WANs, 2 configurations, 1 entry made by hand; the service and a request, two requests, or one alone | what a cache says is on the router, through failures, restarts, the other manager and other requests on the same cache; all drift heals |
| MCPlans | PlansTypeOK, LoadsAgree, PlacedTight, Level, NoFlip, RunEnds, TreeWhole, Settles | Balance: 3 items of weight 0, 1 or 3, 3 bins of capacity 0 or 2; planner: 2 nodes, 2 routers, 4 devices, 1 or 2 CPUs, 1 pin, 1 flag | tight placement, moves that help, termination; whole trees, the water level, plans that settle |
| MCPlanFlap | NoFlap (violated) | as MCPlans | a dissolved node over a dissolved node is put together too early |
| MCServices | ServicesTypeOK, OneFix, OneEntry, Heals, FollowsTheWorld, ProvenHeadroom, BurstsFollowLoad | 3 jobs (a poller and the update of one service, statistics of the GUI), lqosd; 2 conditions, 1 message, time 0 to 2; 2 classes, 3 quiet samples to resume | one fix per job; auto-fix gets to all it can repair; one problem is one entry; bursts follow the load |
| MCParts | PartsTypeOK, RowAccepted, Restorable, LeavesWhatItSays, OwnLinesKept, ImplementsAtomicFile | 5 texts in 3 places, 3 defaults; 3 versions, 2 updates, 1 kept backup; 1 profile with 2 hooks, 2 requests, 1 edit (also a line above the hook, or a second hook); 2 writers, 1 reader, 3 inodes | rates LibreQoS accepts; updates that can be taken back; what a webhook request leaves behind; files whole or unchanged |

*Why these bounds.* A conflict involves two codes and one IP; a second IP is
where a roaming user goes. Two routers are needed for one that is read and one
that is not; the properties speak of one row or of pairs. MCDevices covers rescans
and the operator, MCSteady user calls, their removals and `FullScanOver = 1`
(two users exceed it); together they would not fit a run of minutes. In the pipeline
each device is treated alone, and a set of nodes that is empty or not lets a
device gain or lose its node; the theorems cover more nodes and devices, and
an empty update command (`RunsUpdate = FALSE`). The sets of EventKinds a run allows
are named in its cfg.

MCWan has one address, so that no two are collapsed into a subnet; that an entry is
any block is what the theorems of `WanSync_proofs` cover. Two lists are needed for a
device that changes its WAN. At most two jobs are at work in one behaviour
(`atWork`); the configuration changes only when the service is one of them, and an
administrator's entry meets one job only. Two jobs are what it takes for one cache to be
replaced, dropped or left behind; the theorems cover any number of requests, each with any
configuration and any entries made by hand.

`JobFixer` is two parts of MCServices: "jobs", where services crash, hang, are stopped and
restarted under fixes, and "graphs", where LibreQoS keeps running and jobs meet troubles of
their own (a refused login, a full disk, a wrong clock in the graph files). Three items
make a bin with one movable and one pinned or moved item, next to a third bin, and
weight 0 and capacity 0 are the edges. The planner's tree has a node in a node and a
router on top, which gives dissolving, nesting, splitting and whole items; one more
router would exceed a run of minutes. `MaxTime = 2` reaches both windows of the event
log (`Fold = 1`, `Reopen = 2`) and past a prune (`Keep = 1`). Bounded are the
updates, the tokens and the operator's edits of profiles, and time in `EventLog`;
all other models are finite by themselves.

*What the exceptions in the properties mean.* `HighestPriorityWins` excepts IPs
heard for a code that was heard with a second IP too (a device holds one address
only) or by a second source (a comment can read like another device's code),
and codes with a static row: a session that reports under a static row's
code takes its IP from the holder although the static row does not take it
(`upsert_device`, lines 360 and 386). `NoGhosts` and `HighestPriorityWins` except
cycles the operator interfered with. `FaultsStop` and `MishapsStop` (both in the
text of the property) say that from some time on no failure happens.

*Fairness.* `FairSpec` assumes that the service's thread runs (its steps are
weakly fair together: they are one sequential program), that the scan timer runs
out, that the GUI finishes a flush it began, and
that an update which is tried again and again succeeds some time (strong
fairness). Nothing is assumed of subscribers, calls, the operator or
lqos_scheduler.

In `WanSync` only the service is fair (a cycle each interval, and, strongly, that a sync
which keeps coming up fetches the lists some time: it does once
`FULL_RECONCILE_INTERVAL` has passed), the GUI need not do anything; in `Balance` and
`CpuPlanner` the algorithm goes on (`updatecsv` plans in every cycle); in
`JobFixer` the auto-fix thread, fixes in progress, the jobs that are due (`RunDue`: on an
interval, after a failed update, or asked for; nothing makes an update run that is not)
and the passing of each cooldown; in `EventLog` the sync (strongly, for its write: a clear or prune that
always gets in first would need an operator who never stops); in `Burst` the tick, the
class pass and the minute. `AppUpdate`, `WebhookSetup`, `FileWrite` and `RateResolver`
claim no liveness.

*Where the liveness stops.* `ChangesReachLibreQoS` excepts a flushed `network.json`:
with `queues` set to false no build writes it again. It is checked without
builds that break off: with them it fails (MCApplyBroken).

`DriftHeals` (`ServiceHeals` in MCWan: it is about behaviours in which the service is at
work) asks that trouble stops, the assignment rests and WANs are enabled (a new rebalance
or purge is trouble, a request in the middle of its sync may go on). It
speaks of configured lists only (entries of a WAN taken out of
`config.json` stay on the router, `wan_manager.py:302`). `BurstsFollowLoad` does not
cover turning burst control off: the one class pass on that flip is not repeated when
it fails; and it takes the classes whose burst the kernel may have chosen itself (`Small`)
as fixed (the code looks at each burst, `gui.py:1447`). `Heals` speaks of what auto-fix
can repair (`Curable`): a service that crashed or hangs, graph files, an update LibreQoS did
not take; not of a full disk or a refused login, nor of a service or an lqosd that the
operator stopped. A request that a full scan drops (`RequestDropped`) counts as new
trouble, for nothing repeats it: it is finding 1. That a fix is not repeated within its
cooldown is one comparison (`gui.py:2331`), `AutofixJob`'s guard; no property states it.

## 4. Findings

Each of these is a violation run:

1. **Re-apply dropped** (`updatecsv.py:392`, MCApplyDropped): `take_webhook_events`
   before a full scan takes "apply" requests as well; if no file changes, LibreQoS is
   not run.
2. **Broken-off build forgotten** (`updatecsv.py:266`, MCApplyBroken): an exception
   after `network.json` was replaced; the next cycle sees no change and
   `update_pending` was not set.
3. **Outage costs an IP** (`device_database.py:358`, MCOutage): rows of a router that
   could not be read are stale, and any report takes their IP, even one of lower
   priority.
4. **No hysteresis for a node over a dissolved node** (`cpu_planner.py:769`,
   MCPlanFlap): a node is known to have been dissolved by a child directly under a CPU;
   when its only child is dissolved too there is none, and the node is put together
   again although its load is above 0.8 of the limit.

Seen while modelling, and visible in the models, without a run of their own:

- a flush (`gui.py:4364`) or an edit of a parent (`gui.py:3911`) while a cycle builds,
  and an error in writing `network.json` (`node_assigner.py:191`, logged and ignored),
  lead to files that do not fit, until the next cycle; this is what `disturbed` allows
  for;
- the loser of an IP conflict is not deleted, as CONFIG.md:360 has it, but kept
  without an address until it ages out (`device_database.py:361`, `Freed`);
- entries of two routers with one comment become one device, which goes back and forth
  between two IPs (`router_scanner.py:380`);
- auto-fix's "apply" restarts an lqosd that is down, also one the operator stopped,
  which `_may_auto_restart` (`gui.py:2313`) forbids for the fixes it guards; `Heals` does
  not ask for that restart;
- two requests of the GUI that sync one router at once each keep a table of their own,
  and the one that put its table in the cache last does not see what the other changes
  (`wan_manager.py:375`): the cache is wrong until the next look, within
  `FULL_RECONCILE_INTERVAL`; `CacheIsRouter` says exactly when it is right, and
  `ServiceHeals` that the service puts the router right;
- the commands pasted into a router's terminal are said to add "one line at the top of
  every PPP profile's on-up and on-down script" (`webhook.py:107`), but leave a script as
  it is that has the hook further down, or twice (`webhook.py:116`);
- an update that breaks off leaves the files it added, and the backup does not know
  them (`app_update.py:158`; `Restorable` excepts them);
- the hardware check writes back a `settings.json` it read seconds before
  (`gui.py:2674`).

## 5. Proofs

TLAPS proves what follows for every value of the constants that satisfies the
assumptions named in the modules: `ConstantsAssumption` and `SentinelsAssumption`
(DeviceSync), `HappensAssumption` and `DistinctAssumption` (ApplyPipeline),
`BlocksAssumption` and `WanConstants` (WanSync), `ShareConstants` and
`TextConstants`, `BalanceConstants` (finitely many items), `EventConstants`,
`BurstConstants` (at least one sample to resume), `SetupConstants` (`PROFILE_HOOKS` is
not empty), `UpdatesAreKept` (at least one backup is kept), `PlannerConstants` (a finite
tree of nodes, at least one CPU, pins that are CPU numbers). They say that a constant
is of its kind, that a sentinel is no value, or what the code has as a literal. TLC
evaluates each of them on the instances. Each theorem named after a property of a run
states it for the specification the run's module builds on.

**DeviceSync** (`DeviceSync_proofs`)

- `TypeCorrect`: `Spec => []TypeOK`, by itself inductive.
- `UniqueHolders`: `Spec => []UniqueIPs`. Inductive with `TypeOK`; the point is
  `Upserted`: all other holders are freed before the row is written, or nothing
  is written. Lemmas say the same of each table operator.
- `StaticRowsAreKept`: the action property needs `StaticAgree`: the committed
  table and the transaction have the same static rows but for `seen`. Otherwise
  a rollback would change a static row.
- `NoGhostsAreLeft`: `Spec => []NoGhosts`. `GhostInv` says at every step of a cycle
  that each dynamic row that is seen was heard from its own router, that what is on
  disk agrees with it for routers whose transaction is over (so a rollback does not
  bring seen rows back that `heard` forgot), and that rows are unseen between cycles.
- `HigherPriorityWins`: `Spec => []HighestPriorityWins`. `PriorityInv` says it of a
  table and a set of reports, and requires it twice: of the rows with everything heard,
  and of the committed table with what was heard before the router in progress,
  since that is what a rollback goes back to. It also needs that a row which is seen has its
  address from a report of its own source (`SeenWith`), that a removed user was not heard
  of in the cycle, and that only configured routers are heard.
- `ConnectedStayShaped`: `SteadyStaysShaped`, if every subscriber in `Steady` is
  `Uncontested`: nobody else reports the code, the address is reported otherwise only
  later in the same router's scan and from no better source, the router stays configured
  and the operator leaves the code alone. (MCOutage shows that it is needed: a report on
  another router may take the address.) `SteadyInv` follows the row of one subscriber
  through a cycle: in the transaction and on disk, still to come or already seen when its
  router is read, not among the users who are gone, and seen in each router that counts
  as scanned. The run MCSteady satisfies `Uncontested`, and TLC checks that it does.

**ApplyPipeline** (`ApplyPipeline_proofs`)

- `TypeCorrect`.
- `ConsistentFiles`: `Spec => []UpdateSeesConsistentFiles`. The property speaks of
  the moment of the update only; `ConsistentInv` follows what is still to be
  written through the stages: the plan against the table, then `network.json`
  against the table, then `network.json` against the CSV.
- `NothingIsForgotten`: `Spec => []NothingForgotten`. `NoticedInv` says that the
  reason to run the update is on record at every moment, in `changed`,
  `updatePending` or `lost`, and that a cycle begun with `update_pending` is forced
  to run it, or else `Decide` would clear the flag.

**WanSync** (`WanSync_proofs`)

- `TypeCorrect`, `CachesAreRight` (`Spec => []CacheIsRouter`), for any number of requests
  at once: inductive with the type invariant and two more facts. What a job still has to
  remove is a managed entry that is on the router (`RemovesManaged`): an entry that goes
  leaves every such list. And what a job has read and not yet put in the cache is right,
  too, as long as the router has not changed since (`FoundIsRouter`). Each API call then
  changes the router and the table its job holds together or neither, a failed removal
  leaves both, and a change by anybody else voids what is known.
- `ForeignIsUntouched`: the action property, from the type invariant alone
  (`managed` and `foreign` are disjoint, and only owned entries are removed).

**Balance** (`Plans_proofs`)

- `LoadsAreReal` (`BalanceSpec => []LoadsAgree`): what the loops add and subtract item by
  item is the sum over the items of each bin, for any finite set of items.
- `PlacementIsTight` (`[]PlacedTight`): heaviest first, into the bin that is least used. The
  invariant adds that what was placed weighs no less than what is to come, so only the
  last item of a bin matters.
- `MovesDoNotFlip` (`NoFlip`): from what may be moved, the difference of two bins bounds
  the item; cross-multiplied capacities make it arithmetic of products.

**CpuPlanner** (`Plans_proofs`)

- `PlansType` (`PlansSpec => []PlansTypeOK`), `TreesAreWhole` (`Spec => TreeWhole`),
  `WaterLevel` (`Spec => []Level`), by one invariant, `PlanInv`, for any finite tree.
  `Packed` says what is on a CPU in which phase: the whole items once they are packed, then
  the loose devices, then those of split routers, and that only one of these, while it
  waits, has none. `Structure` says that what is dissolved is dissolved from the top; so
  each node has one whole node above it (`HolderIsWhole`, by induction over the tree),
  whose CPU it is emitted on. `PlanTypes` says that `network.json` names only CPUs it has,
  which is what makes a place that is read back one of those there are. `RoomLeft` is the
  argument for the water level: there are always CPUs that could take every device
  still waiting without rising above the level; so when none that is below it has room, the
  lightest is below it all the same, or the device weighs nothing.
- `ShardsHaveNames` (`[]OneNamePerShard`): every CPU with devices of a split router has a
  shard, and no two have the same name, kept or new; a second one would replace the first
  in `network.json`. No run states it; TLC agrees on the instance of MCPlans.

**JobFixer, EventLog, Burst** (`Services_proofs`)

- `FixesAreApart` (`[]OneFix`): a fix begins only when the job is not in `_fix_running`,
  and ends with its removal.
- `OneProblemOneEntry` (`[]OneEntry`): the condition is read outside the transaction that
  writes, so the invariant says what an image read earlier is still good for: its entry
  is the last of its key or has been deleted since, and a new entry's predecessors were over
  long enough.
- `HeadroomIsProven` (`ProvenHeadroom`): the counter the machine resumes by is the number of
  quiet samples in a row.
- `ServicesType`: the three parts keep their types.

**WebhookSetup** (`WebhookSetup_proofs`)

- `RequestsLeaveWhatTheySay` (`[]LeavesWhatItSays`): `Stands` says for each step of each
  request what it has achieved so far, if it is still `clean`: the profiles no longer on
  its list have the hook (after `install` first and once) or do not have it, and those on it
  are as they were fetched. It asks nothing of the scripts a request finds: they may have
  hooks anywhere. Whatever anybody else changes marks the others as disturbed.
- `OwnLinesAreKept` (`OwnLinesKept`): `WithHook`, `WithoutHook` and the pasted scripts keep
  the subsequence of the operator's lines. Proved by induction over scripts.

**RateResolver, FileWrite, AppUpdate** (`Parts_proofs`)

- `RowsAreAccepted` (`Spec => []RowAccepted`): arithmetic of the
  floors, for any multipliers, so also for a minimum share above 1.
- `AtomicFileImplemented` (`FileSpec => ImplementsAtomicFile`): initial
  states map to initial states and each step to a step or a stutter. The invariant:
  each inode that the name has, in the cache or on the disk, holds a whole text there;
  temporary inodes are apart from it and from each other; a text is on the disk
  before its inode is renamed.
- `BrokenUpdatesAreRestorable` (`[]Restorable`): an update leaves the files it has not
  come to as they were, saves each before it replaces it, and prunes others' backups only,
  as the newest is kept when at least one is; a rollback of that backup puts back what is
  in it.
- `PartsType`: the four parts of `MCParts` keep their types; each step is a step of one
  of them, and the others stand still.

*Induction over data.* The prover cannot use the library's induction theorems, whose
hypotheses contain an operator; `InductionLemmas` proves its own from well-foundedness,
with a set in place of a predicate: over naturals, finite sets, sequences (by `Append`),
and, from these, what `SumFunctionOnSet` is on a finite set: zero on none, and one more
summand for each element. `Balance`, `CpuPlanner` and `WebhookSetup` rest on them.

*What the proofs found.* `Burst!Decide` was a `CASE` with guards that overlap, from which
nothing follows when two hold (the code tests `enabled` first, and so it reads now).
`HighestPriorityWins` had to except codes reported by two sources: `scan_router` gives an
address-list entry its comment for a code (`router_scanner.py:380`), which may be that of
a PPPoE or DHCP device, and the second upsert takes the row over with its source and
address (`device_database.py:373`). The runs could not show it, as none has such a comment.

Only model-checked: the liveness properties (`GhostsAgeOut`, `SteadyGetsShaped`,
`ChangesReachLibreQoS`, `FlushIsRebuilt`, `ServiceHeals`, `RunEnds`, `Settles`, `Heals`,
`FollowsTheWorld`, `BurstsFollowLoad`), which are out of the prover's reach. Every
invariant and action property of a passing run is a theorem.

## 6. What is not modelled

- *Login and sessions*: a counter in memory and signed cookies; nothing else depends
  on them. The read of the counter and its update are apart (`gui.py:2865`), which is
  listed as a hazard.
- *Monitoring, graphs, queue and SNMP statistics*: deltas of counters, shown and never
  decided on, but for the `jobs` and `events` rows they leave, which are modelled
  where somebody acts on them.
- *snmpd setup, hardware check, install scripts*: sequential commands run by hand.
- *Preview server and web page*: a fake of the system's surroundings, and its client.
- *Of modelled components*: the debounce and minimum interval of the sync loop,
  `save_last_good_config`, sizes and limits of nodes, trees that are too deep, the
  merging of settings, the log of rejected webhook calls. `_config_error` of the GUI
  accepts a port that `read_config_json` then rejects; the cycle is skipped
  (`SkipWebhook`), which the models cover.

Worth doing next: `DeviceSync` as an implementation of an abstract "who is connected
is shaped, who is gone is not".
