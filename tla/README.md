# Verification of the stability test platform

The platform runs stability tests on fleets of Android devices. A control plane (FastAPI, PostgreSQL, a SAQ/Redis queue, an elected
scheduler) turns a Plan into PlanRuns and jobs; an Agent on every host claims the jobs of its devices, runs them for hours or days and
reports. Everything the parts must agree on is a row of PostgreSQL, and everything that can go wrong is a stale view of one.

This directory models that core in TLA+, checks it with TLC and proves its main invariants with TLAPS.
Paths below are relative to `src/backend/`.

## Inventory

| Component | State | Operations | Hard part |
|---|---|---|---|
| Device leases (`services/lease_manager.py`) | `device_leases`, `device.lease_generation` | acquire, extend, release | exclusion, fencing of a former holder |
| Agent calls (`services/agent_claim.py`, `agent_lease_extend.py`, `agent_completion.py`, `agent_recovery.py`) | job status, terminal digest, lease | claim, renew, complete, late complete, recovery | late and stale calls, reboot, takeover by a new instance |
| Supervision (`scheduler/device_lease_reconciler.py`, `scheduler/recycler.py`) | job status, `ended_at` | expiry, grace, abort reaper, timeouts | races with the Agent's own report |
| Return debts (`services/device_return.py`) | `device_return_debt`, the debt lease | open, convert, init check, late confirm, discharge, override, initialise | a lease whose owner is the device itself |
| Retirement (`services/device_retirement.py`) | `device.retired_at` | retire, unretire | against claims and open debts |
| Dispatch (`services/plan_dispatcher_sync.py`) | PlanRun status, jobs | validate, materialise | validation holds no lock on the devices |
| Abort (`services/plan_run_abort.py`) | `run_context.abort_requested*` | run and host scope, two transactions | claims between the two |
| Aggregation (`services/plan_run_finalization.py`, `plan_run_aggregation.py`, `job_terminalization.py`, `scheduler/counter_reconciler.py`) | pending marks, counters, `terminal_effects_state` | mark, wake, drain, settle, effects, repair | lost wake-ups, crashes, several settlers |
| Plan chain (`services/plan_chain_trigger.py`) | child PlanRun | trigger, reconcile | one child at most |
| Admission (`services/admission_pump.py`) | QUEUED/PRECHECK, attempt ids | claim, admit, requeue, fail, reap | a superseded attempt that goes on |
| Agent process (`agent/`) | SQLite registry and outboxes, threads | run, renew, report, drain, recover | crash between two local writes, lost answers |
| Agent permits and barrier (`agent/operation_scheduler.py`, `agent/coordinator.py`) | permits, waiters, phases | acquire, hand over, cancel, shut down | lost permits, deadlock |
| Maintenance, host retirement, heartbeats, precheck, scan/merge, realtime, notifications, reports, assistant, frontend | | | mostly I/O, text and presentation |

Interaction: the Agent calls the control plane over HTTP; the control plane's processes interact only through rows and their locks, and
through queue messages that may be lost or dropped; the scheduler's leader repairs what is left. `PROJECT.json` lists every component with
its files, what is modelled of it, and every hazard at its line with the property that covers it.

## Modules

| Module | What it is |
|---|---|
| `JobLease` | jobs, JOB leases and tokens, debts, retirement, dispatch, abort: the control plane's side of a device |
| `DeviceLock` | the abstract specification: a lock per device with a fencing epoch, and a result committed by its holder |
| `JobLease_proofs`, `DeviceLock_proofs` | the theorems about `JobLease`: its invariants, and what its steps may never do, with the refinement of `DeviceLock` |
| `PlanRunAggregation` | how one PlanRun is settled and its effects are run |
| `PlanRunAggregation_proofs` | the theorems about it |
| `OperationScheduler` | the permits of an Agent host: how a step of a job waits for one and is called off |
| `PermitPool` | the abstract specification: a set of running devices that never grows past its limit |
| `OperationLine_proofs`, `OperationScheduler_proofs` | the theorems about `OperationScheduler`: its line, and its slots with the refinement of `PermitPool` |
| `AdmissionQueue` | how a PlanRun waits for admission: pump, queue task, workers, reaper, abort, manual retry |
| `RunAdmission` | the abstract specification: a run gets its devices once and in one step, or is turned away |
| `AdmissionQueue_proofs` | the theorems about `AdmissionQueue` |
| `PhaseBarrier` | the barrier between init and patrol of the jobs of a PlanRun on one host |
| `PhaseBarrier_proofs` | the theorems about it |
| `TerminalOutbox` | how the result of a job gets from the Agent to the control plane: worker, outbox, drainer, recovery sync, crash |
| `TerminalOutbox_proofs` | the theorems about it |
| `MCJobLease`, `MCPlanRunAggregation`, `MCOperationScheduler`, `MCAdmissionQueue` | the foreign keys of the small instances |

`JobLease` and `PlanRunAggregation` meet at the terminal fact of a job: what the first writes in one step, with its pending mark, is the
`JobEnds` of the second. `AdmissionQueue` comes before both: its `TaskAdmit` is the transaction whose insertion of jobs is `MaterializeJobs` of
`JobLease`, and its `JobEnds` what the aggregation makes of the last job. `OperationScheduler`, `PhaseBarrier` and `TerminalOutbox` run inside
the Agent, which `JobLease` leaves open. `TerminalOutbox` has the Agent as it is coded, and of `JobLease` what one job sees of it: status,
digest, token and instance. Each module is checked by itself: a module that another one leaves open may do more there than the other does.

A definition introduced by "Variant:" is a plausible mistake in the one that follows it. No specification uses it: it is substituted for
its neighbour to see that a property notices.

### JobLease

A step is a row-locked transaction. The candidate lists that renewal, claim and the scans read first, and re-evaluate under the lock, add
no behaviour and are merged; what is read and **not** re-evaluated is a step of its own: `ValidateDevices` before `MaterializeJobs`,
`AbortRun`/`AbortHost` before `AbortPending`, and `RecoveryReads` before the branches of a recovery, which decide on what it has read. `PendingTimeout` has no guard on the job's age or on the host being idle for the same reason:
the update re-evaluates the status only.

- `status`, `fact`, `grace` are `job_instance.status`, `terminal_payload_digest`, and whether `ended_at` of an UNKNOWN job is within
  the grace period. `leaseSt`, `tok`, `inst`, `fresh` are its lease; `gen` is `device.lease_generation`. A lease turned into a debt lease
  (`CONVERTED`) is the same row in the code; the device's debt lease is `debtTok`, its token, or 0.
- `seen` is what a recovery under way knows of the abort of a job: `sync_agent_recovery` reads the run without a lock (`agent_recovery.py:423`), the
  session keeps the row for the request, and an abort can commit before the branch it decides. Only `RecoverAbort`, `RecoverResume`, `RecoverCleanup`
  and `RecoverTakeover` come after this read; a host that has rebooted is handled before it. A release of the lease makes the read void, since the
  branches look for the lease again.
- Debts have three sources: `HandleRelease` (the disarm results of a job that ends), `InitCheck` (the return check of a running job, which leaves the lease
  with the job until its release) and `InitReturn` (the administrator's initialisation of the ledger; its rows, `Stock`, name no job). A debt lease is
  never asked for on a device without a host, where `_acquire_debt_lease_sync` has none to give: dispatch refuses such a device
  (`plan_dispatcher_sync.py:162`), and a heartbeat does not take the host of a device away.
- Time is two booleans, `fresh` and `grace`, which time alone makes false. The staleness tests of the recycler are always possible.
- `clock`, `requested`, `hostClock` are the keys `at`, `requested_job_ids` and `abort_requested_hosts` of the run context.
  `window` holds aborts that are between their two transactions, with what the first has read.
- The environment is open: any instance calls at any time, with any token ever issued for the device, and a host may have rebooted at
  any recovery. This is more than Agents do, so the safety results do not depend on how the Agent behaves.
- `ExtendLease` changes nothing in the correct model: a lease is fresh or is not renewed. It is there for the guard.
- Left out: SCRIPT and MAINTENANCE leases and emergency release; the deferral of the abort reaper
  while a disarm guard runs (the reaper may always be late, so it only matters to liveness, where WF then assumes that guards end);
  `_reconcile_terminal_job_active_leases`, a defensive scan whose precondition `LeaseFollowsJob` rules out; the queue before dispatch, which is
  `AdmissionQueue`.

### PlanRunAggregation

One PlanRun after dispatch. `pc` is the place of each drainer: the task keyed `agg:{plan_run_id}` (`Main`), its delayed tails, and the
leader's sweep. The row lock of the PlanRun is held exactly at `counting` and `recounting`; an abort's transactions are single steps.
Terminal transactions of jobs do **not** take that lock: this is what makes the aggregation hard, and `Recount` unreliable.

- UNKNOWN is part of RUNNING; `terminal_job_count` is the sum of the three counters; `total_job_count` is `Cardinality(Job)`.
- A round is two steps, the marks read under the lock and the rest. Reading the facts and committing are one step: only marks read before
  are deleted, so a job that ends between them keeps its mark.
- The order of a batch (`created_at`) is any subset of its size; the 120 s age gate of the effects replay is not modelled, so the
  replay may race a live worker more than it does. A tail runs only when the task that asked for it has left, a second later.
- The enqueue of the scan and the marker `done` are one step: a crash between them repeats an enqueue with the same key.
- The run has a next plan, and `children` counts its child rows. `TriggerNext` may always do nothing: no device of the run is healthy and in service,
  the devices settle, or the insert fails and is rolled back. Devices and the settle window are not modelled.
- Notifications, report cache, gap and zero-output signals are not modelled.

### OperationScheduler

A critical section under the scheduler's lock is one action. A request therefore takes up to four: `Enqueue`, the return of the wait (`Wake`
or `TimeOut`), for a wait that timed out the second look (`CheckLate`), and the resolution (`ResolveShutdown`, `ResolveCancel`,
`ResolveGrant`). Between them come `Release`, `SetCap`, `CancelDevice` and `Shutdown` of other threads.

- `cap`, `held`, `heldDevices`, `handoff`, `cancelled`, `waiters`, `down` are the scheduler's fields, `pc` the place of each worker in
  `_run_step_with_permit` of `agent/pipeline_engine.py`, `signaled` the events that are set. `_waiters` is keyed by device; here it holds the worker.
- `stage` says what the worker of a device does after a denial: an aborted job leaves, one in its teardown asks again until its wall clock
  runs out (`GiveUp`). `NextJob` is the next job of the device, on the same worker.
- An abort is two steps, the flag and, later, `cancel_device`: `cancel_waiting_job` reads the published state without the scheduler's
  lock, so the cancel may arrive at any later state of the device.
- `cancel_device` and `shutdown` set their events after they have given up the lock; a wait that times out before is resolved in the same
  way, so the two are one step.
- Left out: the statistics, the tail deadlines of the disarm (they shorten a wait).

### AdmissionQueue

A step is a transaction that locks the row of its run. What is read without a lock and used later is a step of its own: the reaper's candidates
(`scan`), the task's check of scripts between its first look and its transaction (`check`), and the two halves of a manual retry, which
locks nothing (`retrying`).

- `handing` is what the pump's tick has claimed and not enqueued yet, `queue` the tasks in Redis, `work` those on a worker. An enqueue that is not
  confirmed may have arrived; a worker may die, or only lose its record (`alive`) while it works on.
- `st` and `owner` are `plan_run.status` and `admission_attempt_id`, `strikes` is `admission_requeue_attempts`. Attempt ids are UUIDs; the model
  uses an id again when nothing refers to it any more.
- The order of claims (priority, age, back-off) is any subset of the batch size. The health, leases, debts and maintenance of devices are a
  choice at admission (`away`); that another run's job has the device is not (`Busy`). An old `precheck_started_at` is a choice at the scan, and
  the attempt stands for the PRECHECK that was seen: a later one is younger and has another id.
- `JobEnds` is the part of the aggregation that the queue needs; the run of a job that has started is aborted in `JobLease`.
- Left out: the reaper of the legacy gate (no attempt id), the WiFi pool and serial conflicts (one of the reasons to turn away), notifications, and
  a second retry beside the first (`User` has one member; see *Other divergences*).

### PhaseBarrier

The jobs of one PlanRun that were admitted on one host. `pc` is where the engine of each job is, `view` the `PlanRunHostView` of the coordinator:
whether the barrier is armed, how many have arrived, and the phase. A method of the coordinator runs under its lock and is one step;
`set_barrier_total` and the arrival that always follows it are merged, since a second arming does nothing.

- Jobs come by a claim or by a RESUME with a patrol checkpoint. They fail before their engine (counted), at its lease check (not counted, as in
  the code), in init (counted), or are called off at the barrier (already counted).
- The wait is a poll. The sliding timeout is one step in a state where no peer makes progress: `waiting` and `arriving` peers prolong nothing.
  `capped` is false only when `STP_BARRIER_MAX_WAIT_SECONDS` is zero or negative.
- `limited` says whether whatever a job does has an end: `timeout_seconds` of a plan is optional and a patrol without it has none
  (`pipeline_engine.py:2787`), and a step may have a stall timeout but no wall clock. It is fixed with the plan, and only the fairness reads it.
- A waiter whose view is gone passes, as in the code. A restart of the Agent loses all views and brings unfinished jobs back. Left out: the same job
  resumed within one process, and the epochs and projections that the coordinator reports.

### TerminalOutbox

One job, from the worker that has claimed it to the acknowledged fact. The three threads of the Agent interleave at every access to SQLite
or the network: the worker (`workers`, by place), the drainer, and the recovery sync (`sync`, by stage).

- `reg` and `row` are the job's records in SQLite, which outlive a crash; `cur` and `marked` are the maps that say which worker owns the job
  and which one started last. `st`, `kept`, `tok`, `holder` are the control plane's: `EXPIRED` and `OVERDUE` are RUNNING and UNKNOWN with their
  lease or grace period run out. `wire` holds posts whose sender has given up; they may still be handled.
- A call that is answered is one step with what the control plane does; one that fails leaves the post on the wire or not. SQLite reads and the
  call that follows are one step. The priority of terminal facts and `drain_sync` are one step, as are `release` and `_cleanup_after_job_exit`.
- `Decline` is everything that ends or ages the job without the Agent: expiry, reconciler, watchdog, abort. Whether the host has rebooted
  and whether an abort is requested are choices at the sync. What the fact is shows when it is stored: a second execution may find another one.
- A row that a failed try has deferred may be skipped by `SyncDrain`. A refusal and a failure count on the same counter, as in the code.
- Left out: the page size of the outbox (20), 404 and other 4xx answers, the pruning of acknowledged rows, conversions into debts (in `JobLease`), the
  occupancy of devices, and the token map of the renewal thread (`LeaseLost` is possible whenever a renewal would be refused). One sync is under
  way at a time.

## Runs

| Run | Instance | Shows |
|---|---|---|
| `lease_handover` | two runs in succession on one device, two Agent instances | type and safety of leases, debts, retirement; a host abort stands; refinement of `DeviceLock` (667,880 states) |
| `lease_abort` | one run, two devices on two hosts, one instance, no rotation | UNKNOWN is left, a host abort drains (284,662 states) |
| `abort_resume` | the same, without fairness | **violated**: see findings |
| `aggregation` | two jobs on two hosts, batch 1, two rounds, one tail, one failure | counters, verdict, settlement, effects, one child at most (750,766 states) |
| `dedup_lost` | the same without failures | **violated**: see findings |
| `permits` | three devices, caps 1 and 3 (and a setting of 0), one abort under way | accounting, no idle slot, marks, refinement of `PermitPool` |
| `permit_wakeups` | the same with one permit | waiters are woken, the shutdown drains |
| `permit_starvation` | the same without aborts, with waits that time out | **violated**: see findings |
| `admission` | a manual and a chained run that share a device, two attempt ids, one strike, one retry at a time | jobs only under an owned attempt, superseded attempts are inert, refinement of `RunAdmission`, every precheck ends (391,000 states) |
| `phase_barrier` | three jobs, one restart, with and without an absolute limit of the wait and of patrols | the barrier opens for all or not at all, arrivals add up, nobody waits for ever (21,328 states) |
| `terminal_outbox` | one job, two facts, one crash, one lost post at a time, two workers | what a confirmation means, no second execution before delivery, every fact is settled (788,875 states) |
| `outbox_ack_lost` | the same without fairness | **violated**: see findings |

Bounds. Jobs interact only through their device, their run and its abort, so two jobs make every pairwise race. `MaxGen` stops rotations
and retirements, not claims, completions or conversions, so that no guard of the code is cut: a device sees at least claim, takeover,
conversion, claim. It also bounds `InitReturn`; it is 3 for the succession of jobs and 0 for the aborts, where a recovery
by the instance that holds the lease rotates nothing. The instances and, together with their runs, the two jobs on one device are interchangeable
(`HandoverSymmetry`); the liveness run has no symmetry. A batch limit of one makes a full batch and two rounds make the cap; one failure at any place is a crash or a loss in
every state. `MaxFailures` being finite is also what the liveness of the repair rests on. Three devices are one that holds, one ahead in
line and one behind; caps of one and three raise the cap by two waiters at once and shrink it below what is held. `MaxAborts` bounds the
cancels that are under way together, not how many there are. Two attempt ids are one that holds a run and one that was superseded, or one for
each run; `MaxStrikes` of one is a run sent back and a run failed by the reaper. Three jobs at the barrier are one that waits, one that is ahead or
behind, and one that never comes. For the outbox, `MaxTries` is 2 instead of 10: once to be deferred, once to become a dead letter. One crash makes
two instances and two tokens; two workers are a predecessor and its successor; one post without a sender, beside those of the worker and the
drainer, is a late duplicate.

`CHECK_DEADLOCK FALSE` stands where the system may really stop: all jobs of `JobLease` terminal, all runs of `AdmissionQueue` aborted or over,
all jobs of `PhaseBarrier` gone, the fact of `TerminalOutbox` settled. The aggregation never stops, its leader sweeps for ever; nor do the workers
of `OperationScheduler`.

Fairness. `JobLease!FairSpec`: time passes and the reconciler, a periodic job of the elected scheduler, gets to every candidate
(`GraceExpires`, `ReapAborted`, `ExpireToUnknown`, `FinalizeStale`). Recoveries, Agents, administrators and the dispatcher owe nothing.
`PlanRunAggregation!FairSpec`: the leader's sweep goes on, and a transaction that holds the row ends. Workers may never run. Nothing is owed of the
chain: `reconcile_chain_trigger_sync` may be refused as often as it asks, for good when no device is healthy and in service, and
`plan_chain_reconciler` takes the oldest parents up to a limit, so that parents which are refused for good keep others out. That a run with a
next plan gets its child is therefore not claimed; that it never gets two is.

`OperationScheduler!FairSpec`: a thread that may go on does, and a step ends (it has a wall clock). That a wait times out is not assumed,
so that `WaiterIsWoken` says that every wake-up is sent. `TimedSpec`, only for the finding, adds that waits time out and that a free slot
which is asked for over and over is got (strong fairness), so that the violation is not one of an unfair mutex.

`AdmissionQueue!FairSpec`: a task in Redis is taken or lost, a live worker goes on or is ended by SAQ's timeout, the reaper comes round, and at some
of its rounds SAQ can be read (strong fairness: it looks over and over). The pump, its leader, users and dead workers owe nothing.
`PhaseBarrier!FairSpec`: calls of the coordinator return, the absolute limit ends a wait where it is switched on, and the sliding timeout does so only
while nobody patrols, since the steps of a patrolling peer prolong it. That a step, a patrol or a teardown ends is assumed only where all of them have a
limit (`limited`), and that a peer ever comes not at all. `NobodyWaitsForEver` says accordingly: a wait ends, or neither the wait nor what a peer does has
a limit.
`TerminalOutbox!FairSpec`: the drainer passes every 15 s and is not unanswered for ever. Workers, syncs and restarts owe nothing.

What is stated, beyond types:

- *Leases.* `LeaseExclusion`, `LeaseFollowsJob`, `NewestToken`, `DebtHoldsDevice` (a device in service that owes a return is held, by the debt lease or by
  the job under which the debt was opened), `RetiredDeviceIdle` (invariants); `TerminalFactsStand`,
  `OnlyRecoveryRevives`, `AcceptedUnderNewestToken` (steps); `LeasesImplementLock` (refinement of `DeviceLock`: every acquire, rotation,
  conversion and restoration is a grant under a new epoch, every result is committed by the holder in the step that gives the lock up).
- *Aborts.* `UnknownResolves`, `HostAbortDrains`, `HostAbortForbidsResume` (the abort of a host is not taken back, and no recovery that looks at a job after
  it finds nothing; one that had looked before may still resume the job, which the abort reaper then stops). The same claims for a run abort fail, by
  the finding below.
- *Aggregation.* `CountersBetweenMarksAndFacts`, `VerdictOfAllFacts`, `NoStrandedMark`, `OneChild`, `SettledOnce`, `AllJobsEndedSettles`.
- *Admission.* `WaitingRunHoldsNothing`, `SupersededIsInert`, `PrecheckResolves`; `KeepsRunAdmission` (refinement of `RunAdmission`: admitted once, as a
  whole unless the kind of run allows less, on devices nobody else uses; an abort is final).
- *Barrier.* `OpenMeansAllCame`, `WaiterKeepsItsBarrier`, `NobodyWaitsForEver`.
- *Terminal fact.* `AckedMeansEnded`, `FinishedIsNotRelaunched`, `PendingResolves`.
- *Permits.* `PermitAccounting`, `NoIdlePermit`, `EveryMarkHasReader`, `KeepsPermitPool` (refinement), `WaiterIsWoken`, `ShutdownDrains`.

## Findings

1. **A resumed job of an aborted run** (`abort_resume`). `agent_recovery.py:420` promises that "durable abort intent forbids RESUME". The
   abort of a run lists the jobs that are RUNNING when it reads; `abort_pending_job_ids` covers the list when it is not empty. A job that is
   UNKNOWN at that moment, beside a RUNNING one, is in no list: a recovery that looks at it after the abort finds nothing against a RESUME, and the
   abort reaper never stops it.
2. **A finished run without its scan** (`dedup_lost`). `counter_reconciler.py:167` leaves "chain/dedup" to `recover_chain_trigger`, which
   repairs the chain only. When the last job ends between the sweep's look at the marks and its recount, the sweep settles the run with
   `terminal_effects_state = 'done'`; the drain finds it settled, and nobody enqueues the scan (a Plan with an auto-archive interval has
   another sweep, which is not modelled).

3. **Starvation in the line for permits** (`permit_starvation`). `operation_scheduler.py:9` promises "FIFO by default", and that
   "per-device fairness prevents one device from starving others". A request waits five seconds, leaves the line and asks again at its
   end. Beside steps that last longer, a device can go back behind the one that has just asked, time after time, while the permit passes
   between the others. What holds is that a device waits in line at most once, and that the line is FIFO between timeouts.

4. **A confirmed fact that nobody has** (`outbox_ack_lost`). ADR-0019 (`docs/adr/ADR-0019-android-device-lease-and-capacity-scheduling.md:285`) says that the Agent may
   acknowledge only when the same terminal payload has been stored. `outbox_drainer.py:231` also takes a `STALE_COMPLETION_TOKEN` for a confirmation.
   The first sync of a restarted Agent reports its job and its waiting fact together, and the control plane rotates the token in the same request that
   asks for the fact. When the job then ends by a timeout or an abort, the drainer's post is stale, the row is marked as acknowledged, and the result is in
   no database. `AckedMeansEnded` is what remains true.

### Other divergences

Met while modelling, read from the code, and not run as checks of their own.

- Two manual retries of one run (`services/precheck/runner.py:382`). `retry_plan_run_dispatch` reads the run without FOR UPDATE, and can break the
  first invariant of ADR-0026 (`docs/adr/ADR-0026-plan-execution-scaling.md:106`: a QUEUED run has no jobs). With a second member of `User` the second retry, which has read FAILED
  before the first one requeued the run, writes QUEUED over a run that has been admitted since, and `WaitingRunHoldsNothing` fails. With one
  user the same write is overtaken by nobody: only a retry leaves FAILED.
- A second worker of a device at the scheduler (`agent/operation_scheduler.py:121`: "a device can hold at most ONE permit at a time"). A RESUME may start one
  beside the worker that winds down. When that one was cancelled in line and has not found out yet, `acquire` lets the new worker enter, as
  `_cancelled` is not looked at. If its own wait times out first, it takes the mark for its own and leaves; the cancelled one then finds none and
  runs with a permit for which no slot was taken, beside as many others as the cap allows. With two workers on one device TLC finds
  `PermitAccounting` violated in this way; the theorems name the condition.
- A job whose lease check fails in `execute` (`agent/pipeline_engine.py:1269`) is not counted at the barrier, where
  `docs/notes/bug-fix/2026-09-11-barrier-preengine-arrive-801.md` counts every job that ends early: its peers wait for the timeout, and fail.
- The wait at the barrier looks at the clock first (`agent/pipeline_engine.py:1640`): a job may time out at a barrier that has just opened.
- The counter of the outbox is shared by failures of the network and refusals (`agent/outbox_drainer.py:92`), although only refusals should make a dead
  letter: after a long outage the first refusal does.
- `admission_requeue_attempts` is never set back (`scheduler/precheck_reaper.py:408`), although the docstring speaks of consecutive attempts: a
  retried run may be failed by its first stale precheck.

## Proofs

Every invariant, every step property and every refinement that a passing run checks is proved: for every set of jobs, devices, hosts, runs,
instances, attempts, tasks and workers, and for every bound on generations, failures, restarts, rounds, tries and posts. Liveness stays with TLC.
Four properties more are proved that no run repeats: `OnePlaceEach`, `ServedInOrder`, `EpochsOnlyGrow`, `RunsAreApart`.
The assumptions are those of the modules (`ConstantsAssumption`, `AggregationAssumption`: foreign keys are total functions, null values are no
values, limits that the code has as positive numbers are positive; jobs of a run or of a barrier are finitely many), and two conditions that are named below.

Each module has one inductive invariant, the conjunction of what is checked with what it rests on; a lemma says for every action, or for every
kind of write that several actions share, that it keeps it. What the invariants add to the checked properties is where the argument is.

**Leases** (`JobLease_proofs`). `TypeCorrect`, `LeaseCorrect`, and from it `Exclusion`, `LeaseNeitherLeaksNorDrops`, `Fencing`, `DebtsHold`,
`RetirementHolds`; `CompletionIsFenced`. They hold each other up. Fencing needs
exclusion, since a new token makes every other lease of the device stale. `DebtHoldsDevice` says that a retired device has no debt lease, and needs
`RetiredDeviceIdle` with `LeaseFollowsJob` for it: a job's lease on a retired device would be converted into one. That a device which owes never
becomes free rests on the release: it gives the job's lease up and looks at the open debts in the same step, whoever opened them, while an init check
is let in only under a job's lease, and the initialisation of the ledger takes a free device at once. `LeaseInv` is their conjunction.

**Jobs and the lock** (`DeviceLock_proofs`). `TerminalIsFinal`, `RevivalIsRecovery`, and `LeasesAreLock`, the refinement of `DeviceLock`. They need two
facts more, `FactInv`: a run that is not dispatched yet has no jobs (`NoJobBeforeDispatch`), so that inserting its jobs overwrites no ended one, and
only an ended job has a report (`FactOfEnded`), so that a report is committed once. Every step is then a stutter of the lock, a grant under a
new epoch, a commit by the holder, or a release, and which of them is decided by what it does to one device. `EpochsOnlyGrow` is what the lock says of tokens:
no device gets another holder but under a higher token, so that none is ever valid again. `HostAbortIsDurable` is what remains of the
promise that finding 1 refutes: the abort of a host covers all its jobs by its clock, which nothing takes back, so that whoever looks after it finds them
covered. It leaves out a recovery that looked before the abort and commits after it; that job runs until the abort reaper comes to it
(`HostAbortDrains`). The assumption that `"debt"` is no job keeps
the device's own lease apart from those of jobs.

**The line for permits** (`OperationLine_proofs`). `TypeCorrect`, `LineMoves`, `OnePlaceEach` and `ServedInOrder`, from `LineInv`. They ask nothing of the
workers: a device may have several at once. The argument is about the list of waiters. `_wake_one_locked` takes a prefix of it, a timeout or a cancellation one
element out of the middle, and a newcomer goes to its end; none of these changes the order of two that stay. `ServedInOrder` (`NobodyOvertaken`) says so of
every step: whoever stays keeps its place before those behind it, and a slot goes to a device in line only when all before it have got one too, to one
that is not in line only when nobody is. This is "FIFO by default" (`operation_scheduler.py:9`) as far as it holds; a wait that times out leaves the line
(see *Findings*). That nobody waits beside a free slot is inductive only with it, since a release promotes as many as there are slots.
`OnePlaceEach` and `ServedInOrder` state properties that no run repeats; TLC has checked both with two workers on one device.

**Permits** (`OperationScheduler_proofs`). `PermitsCorrect`, and from it `SlotsAgree` and `MarksAreRead`; `SchedulerImplementsPool`, the refinement of
`PermitPool`. They hold of every behaviour in which no request enters beside an unread cancellation of its device (`NoRequestBesideCancel`). This is a
condition on behaviours and not on constants: `acquire` looks at the line and at `_held_devices`, and not at `_cancelled`, so a second worker
of a device may enter while the first has yet to find its mark, and the mark then ends the wrong request (see *Other divergences*). `OneWorkerSuffices`
says where the condition comes from: one worker per device (`OneWorkerPerDevice`), as in the small instances. The code does not ensure it: the claim
loop keeps two jobs of a device apart (`active_device_ids`), and not a worker and its successor by a RESUME of the same job. The three properties are
therefore proved under the condition and not for the Agent as such. `PermitInv` adds to `LineInv`
that whoever is in line has not been signaled and has no slot or mark (`LineWaits`), and that whoever was signaled or woken has a
reason (`SignalHasReason`); without the first a promotion could hand out a second slot, without the second a grant could come from nowhere.

**Aggregation** (`PlanRunAggregation_proofs`). `TypeCorrect`, `CountersFollowFacts`, `SettledByAllFacts`, `NoMarkIsStranded`, `ChainIsSingle`,
`SettlingIsFinal`. A run is settled when its counters add up to its jobs, and nobody looks at the jobs then. That the verdict is nevertheless that of
all facts follows because the three counters are each at most a number of different jobs: if their sum is the number of all jobs, each is exact, and
every job has ended. This is where `CountersBetweenMarksAndFacts` is needed, and it is inductive because a round consumes the marks of those
jobs only whose facts it counts, and an abort counts the jobs it ends. `EffectsOfSettled` says that effects belong to a settled run, `RoundsOfPlace`
that a worker which sees to the effects has had a round. For the marks, `TailBehindMain`: until the main task has given its key back, its tail is
already queued. That is why it does no harm that the queue drops a wake-up as a duplicate of a task that has counted for the last time.
That a task which stops at its cap of rounds may leave marks, and then still has to ask for a tail, happens only with three jobs and more; the small
instance has two, the theorem any number. `RoundsOfPlace` says that such a task has had a round, so that it does ask.

**Admission** (`AdmissionQueue_proofs`). `TypeCorrect`, `SupersededAttemptsAreInert` and `RunsAreApart`, that two runs never have jobs on one device, hold
whatever retries do. A run that waits has no job, and the
queue implements `RunAdmission`, only if no manual retry is so late that it overwrites a run which has left FAILED (`NoRetryTooLate`). The code does not
ensure this, for it reads the run without FOR UPDATE (see *Other divergences*), so it is a hypothesis of `NoJobBeforeAdmission` and
`QueueImplementsPromise` and not an assumption of the module. `OneRetrySuffices` says where it comes from: one request at a time, as in the run `admission`, which the code does not ensure either. `RowInv` adds that a precheck has an attempt
(`PrecheckIsOwned`), and that a run which may not do without a device has lost none (`TargetsKept`): the refinement needs it because an admission
looks at the devices that are left and not at those that were wanted.

**Barrier** (`PhaseBarrier_proofs`). `NobodyLeftBehind`, `BarrierStays` and `TypeCorrect`, from `BarrierInv`: arrivals are at most the jobs that came
(`NoArrivalTwice`). A full count is then a count of everybody. It is a bound and no equation because a refused job and a resumed one are not counted.
That an unarmed barrier has counted nobody (`UnarmedIsEmpty`) makes arming a fresh start.

**Terminal fact** (`TerminalOutbox_proofs`). `ConfirmationIsFinal`, `NoSecondExecution` and `TypeCorrect`, from `OutboxInv`. The argument is about tokens: the
control plane rotates the token once for each instance of the Agent (`TokenOfInstance`), so whatever the running instance executes or is told
to execute is under the token in force (`UnderOwnToken`); a fact that turns up after the sync had looked for one was stored by this instance, hence under this
token (`LateFactIsNew`); and whoever posts holds a fact to post (`SenderHasCopy`). A confirmation is final because the answers that
count as one, `STALE_COMPLETION_TOKEN` among them, are given for an ended job only, and an ended job is not resumed.

Only model-checked, since fairness is out of the prover's reach: `UnknownResolves`, `HostAbortDrains`, `AllJobsEndedSettles`,
`WaiterIsWoken`, `ShutdownDrains`, `PrecheckResolves`, `NobodyWaitsForEver`, `PendingResolves`.

## Not modelled

- *File and device work*: the scripts under `agent/scripts/`, disarm guards, watcher, log uploads, scan, merge and extraction. They are I/O on
  devices and shares; their order is the pipeline's, and what they leave behind are files.
- *Presentation*: API routes and schemas, authentication, realtime pushes, reports, notifications, metrics, the assistant, the frontend. State is
  read back from the rows that are modelled; nothing is decided there.
- *Health and presence*: heartbeats, precheck over SSH, cron. Their results are choices in the models (`away`, the boot id, the verdict of a check).
- *Repository tooling*: `tools/dev`, governance and migration scripts. Together with the scripts and the routes this is most of the
  repository, so that the modelled lines are a small share of it although they hold most of its concurrency.
- *Row locks*: a transaction is a step, so deadlocks between the lock orders of PostgreSQL are out of sight. `HostMaintenance` and the signal
  outboxes are next in the plan.

## Plan

In order of what they protect.

1. The claim loop of the Agent, its occupancy of devices and its RESUME, to see when two workers of a device do meet at the scheduler.
2. `HostMaintenance`: the maintenance gate against claims, and the aborts of a host.
3. `SignalOutbox`: sequence numbers and acknowledgement of log signals and step traces.
4. The order of row locks across the transactions above, for deadlock.

Proofs to come: that the terminal transactions of `JobLease` are the `JobEnds` of
`PlanRunAggregation`, and `TaskAdmit` its `MaterializeJobs`, as refinements between the modules and not only as their description.
