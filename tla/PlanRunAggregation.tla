-------------------------- MODULE PlanRunAggregation --------------------------
(***************************************************************************)
(* How one PlanRun reaches its terminal status.  A job's terminal          *)
(* transaction writes the fact and a pending mark, never the PlanRun row;  *)
(* after its commit it wakes the aggregator through a queue that drops     *)
(* duplicate keys.  Aggregators drain the marks round by round, recount    *)
(* the facts under the row lock of the PlanRun, settle it and run its      *)
(* terminal effects.  An abort settles it inline, and the elected leader   *)
(* repairs what lost wake-ups and crashed workers have left behind.        *)
(*                                                                         *)
(* A step is a database transaction or an enqueue; UNKNOWN is part of      *)
(* RUNNING here, the aggregation only tells terminal jobs from the others. *)
(***************************************************************************)
EXTENDS Naturals, FiniteSets

CONSTANTS
  Job, Host, hostOf,  \* the jobs of the run and the hosts they run on
  Tail,               \* bound: the tail tasks alive at a time
  BatchLimit,         \* AGGREGATION_BATCH_LIMIT
  MaxRounds,          \* AGGREGATION_DRAIN_MAX_ROUNDS
  MaxFailures         \* bound: lost messages and crashes in a behaviour

Main == "main"      \* the task keyed agg:{plan_run_id}
Leader == "leader"  \* counter_reconciler, in the scheduler's leader
Worker == {Main} \cup Tail
Drainer == Worker \cup {Leader}

ASSUME AggregationAssumption ==
  /\ IsFiniteSet(Job) /\ Job # {}
  /\ hostOf \in [Job -> Host]
  /\ Main \notin Tail /\ Leader \notin Tail
  /\ BatchLimit \in Nat \ {0} /\ MaxRounds \in Nat \ {0} /\ MaxFailures \in Nat

VARIABLES
  job,         \* job_instance.status
  mark,        \* plan_run_pending_aggregation: the jobs with a row
  waking,      \* terminal transactions committed, wake-up not yet sent
  runSt,       \* plan_run.status
  count,       \* plan_run.{completed,failed,aborted}_job_count
  hostCount,   \* the same columns of plan_run_host
  abortAsked,  \* run_context has the key abort_requested
  window,      \* an abort between its two transactions: the PENDING jobs it read
  effects,     \* plan_run.terminal_effects_state
  children,    \* child PlanRuns created by the chain trigger
  dedup,       \* a scan of the finished run has been enqueued
  pc, rounds,  \* of every drainer: its place, its rounds with consumed marks
  batch,       \* the marks read by the round that holds the row lock
  failures     \* lost messages and crashes so far

runVars == <<runSt, count, hostCount, abortAsked, effects>>
taskVars == <<pc, rounds, batch>>
vars == <<job, mark, waking, window, children, dedup, failures, runVars, taskVars>>

Terminal == {"COMPLETED", "FAILED", "ABORTED"}
Triggerable == {"SUCCESS", "PARTIAL_SUCCESS"}

-----------------------------------------------------------------------------
JobsIn(S, s) == {j \in S : job[j] = s}
JobsOn(h) == {j \in Job : hostOf[j] = h}

\* recount_plan_run_counters, recount_host_counters: the facts, counted anew.
Tally(S) == [s \in Terminal |-> Cardinality(JobsIn(S, s))]

TerminalCount(c) == c["COMPLETED"] + c["FAILED"] + c["ABORTED"]

\* Variant: an aborted run keeps a status of its own, which a PlanRun has not.
VerdictOfAbort(c, asked) ==
  IF c["ABORTED"] > 0 \/ asked THEN "ABORTED"
  ELSE IF c["FAILED"] > 0 THEN "PARTIAL_SUCCESS" ELSE "SUCCESS"

\* _resolve_plan_run_status: the failures of devices do not fail a run.
Verdict(c, asked) ==
  IF c["ABORTED"] > 0 \/ asked THEN "FAILED"
  ELSE IF c["FAILED"] > 0 THEN "PARTIAL_SUCCESS" ELSE "SUCCESS"

\* Variant: nothing is left to consume, so everything must have ended.
SettlesWithoutMarks(c) == runSt = "RUNNING" /\ mark \subseteq batch

\* Variant: without the guard of the terminal statuses.
SettlesAgain(c) == TerminalCount(c) >= Cardinality(Job)

\* Every job is terminal by the counters, and nobody has settled the run yet.
Settles(c) == runSt = "RUNNING" /\ TerminalCount(c) >= Cardinality(Job)

\* apply_plan_run_aggregation_from_counters: status and effects marker in one.
Settle(c, asked, marker) ==
  IF Settles(c)
    THEN runSt' = Verdict(c, asked) /\ effects' = marker
    ELSE UNCHANGED <<runSt, effects>>

\* Some transaction holds the row of the PlanRun across its reads and writes.
Locked == \E d \in Drainer : pc[d] \in {"counting", "recounting"}

Fail == failures < MaxFailures /\ failures' = failures + 1

\* enqueue_dedup_terminal: an error is logged and swallowed.
EnqueueDedup ==
  \/ dedup' = TRUE /\ UNCHANGED failures
  \/ dedup' = dedup /\ Fail

Init ==
  /\ job = [j \in Job |-> "PENDING"]
  /\ mark = {} /\ waking = {} /\ window = {} /\ batch = {}
  /\ runSt = "RUNNING"
  /\ count = [s \in Terminal |-> 0]
  /\ hostCount = [h \in Host |-> [s \in Terminal |-> 0]]
  /\ abortAsked = FALSE
  /\ effects = "none" /\ children = 0 /\ dedup = FALSE
  /\ pc = [d \in Drainer |-> "idle"]
  /\ rounds = [d \in Drainer |-> 0]
  /\ failures = 0

-----------------------------------------------------------------------------
(* Jobs. *)

JobStarts(j) ==
  /\ job[j] = "PENDING"
  /\ job' = [job EXCEPT ![j] = "RUNNING"]
  /\ UNCHANGED <<mark, waking, window, children, dedup, failures, runVars, taskVars>>

\* on_job_terminal: fact and mark in one commit, the wake-up still to come.
JobEnds(j, s) ==
  /\ job[j] = "RUNNING" \/ (job[j] = "PENDING" /\ s = "FAILED")
  /\ job' = [job EXCEPT ![j] = s]
  /\ mark' = mark \cup {j}
  /\ waking' = waking \cup {j}
  /\ UNCHANGED <<window, children, dedup, failures, runVars, taskVars>>

\* _wake_parent_aggregation: SAQ drops the wake-up while the keyed task is
\* queued or has not finished.
Wake(j) ==
  /\ j \in waking
  /\ waking' = waking \ {j}
  /\ pc' = IF pc[Main] = "idle" THEN [pc EXCEPT ![Main] = "queued"] ELSE pc
  /\ UNCHANGED <<job, mark, window, children, dedup, failures, runVars, rounds, batch>>

\* Redis is away, or the process dies after its commit.
LoseWake(j) ==
  /\ j \in waking /\ Fail
  /\ waking' = waking \ {j}
  /\ UNCHANGED <<job, mark, window, children, dedup, runVars, taskVars>>

-----------------------------------------------------------------------------
(* drain_plan_run_aggregation_sync, in a task or in the leader. *)

Goto(d, place) == pc' = [pc EXCEPT ![d] = place]

\* A tail starts in the next second, when the task that asked for it is gone.
StartTask(d) ==
  /\ d \in Worker /\ pc[d] = "queued"
  /\ d \in Tail => pc[Main] # "finishing"
  /\ Goto(d, "draining")
  /\ rounds' = [rounds EXCEPT ![d] = 0]
  /\ UNCHANGED <<job, mark, waking, window, children, dedup, failures, runVars, batch>>

\* Variant: the task asks for a tail only when it has consumed something.
AfterDrainIfConsumed(d) ==
  IF d = Leader THEN "replaying"
  ELSE IF rounds[d] > 0 THEN "tailing" ELSE IF d = Main THEN "finishing" ELSE "idle"

\* What follows the last round: a main task always asks for a tail.
AfterDrain(d) ==
  IF d = Leader THEN "replaying"
  ELSE IF d = Main \/ rounds[d] > 0 THEN "tailing" ELSE "idle"

\* The first half of _aggregation_round_sync: lock the row, read the marks.
BeginRound(d) ==
  /\ pc[d] = "draining" /\ ~Locked
  /\ IF mark = {} \/ rounds[d] = MaxRounds
       THEN Goto(d, AfterDrain(d)) /\ UNCHANGED batch
       ELSE /\ Goto(d, "counting")
            /\ \E S \in SUBSET mark :
                 /\ S = mark \/ Cardinality(S) = BatchLimit
                 /\ Cardinality(S) \in 1 .. BatchLimit
                 /\ batch' = S
  /\ UNCHANGED <<job, mark, waking, window, children, dedup, failures, runVars, rounds>>

\* The second half: read the jobs, recount, delete the marks read, settle.
FinishRound(d) ==
  /\ pc[d] = "counting"
  /\ count' = Tally(Job)
  /\ hostCount' = [h \in Host |-> Tally(JobsOn(h))]
  /\ mark' = mark \ batch
  /\ batch' = {}
  /\ Settle(Tally(Job), abortAsked, "pending")
  /\ rounds' = [rounds EXCEPT ![d] = @ + 1]
  /\ Goto(d, IF Settles(Tally(Job)) THEN "applied" ELSE "draining")
  /\ UNCHANGED <<job, waking, window, abortAsked, children, dedup, failures>>

\* Back to the drain, or the end of the leader's replay.
AfterEffects(d) == IF rounds[d] = 0 THEN "idle" ELSE "draining"

\* _complete_parent_side_effects_sync: another path may have been here.
CheckEffects(d) ==
  /\ pc[d] = "applied"
  /\ Goto(d, IF effects = "pending" THEN "chaining" ELSE AfterEffects(d))
  /\ UNCHANGED <<job, mark, waking, window, children, dedup, failures, runVars, rounds, batch>>

\* Variant: the rows of the children are not looked at under the lock.
ChildMissingByStatus == runSt \in Triggerable

\* No child of the parent exists; read under the lock of the parent.
ChildMissing == runSt \in Triggerable /\ children = 0

\* trigger_next_plan_sync.  It creates no child when no device of the parent is
\* healthy and in service, while they settle, or when the insert fails.
TriggerNext ==
  \/ ChildMissing /\ children' = children + 1
  \/ UNCHANGED children

TriggerChain(d) ==
  /\ pc[d] = "chaining" /\ ~Locked
  /\ TriggerNext
  /\ Goto(d, "closing")
  /\ UNCHANGED <<job, mark, waking, window, dedup, failures, runVars, rounds, batch>>

\* The end of finalize_parent_run_sync.
CloseEffects(d) ==
  /\ pc[d] = "closing"
  /\ EnqueueDedup
  /\ effects' = IF effects = "pending" THEN "done" ELSE effects
  /\ Goto(d, AfterEffects(d))
  /\ UNCHANGED <<job, mark, waking, window, children, runSt, count, hostCount, abortAsked, rounds, batch>>

\* _enqueue_aggregation_tail: keyed by the second it is due in.
EnqueueTail(d) ==
  /\ pc[d] = "tailing"
  /\ LET after == IF d = Main THEN "finishing" ELSE "idle"
         gone  == [pc EXCEPT ![d] = after]
     IN \/ /\ \E t \in Tail : gone[t] \in {"idle", "queued"} /\ pc' = [gone EXCEPT ![t] = "queued"]
           /\ UNCHANGED failures
        \/ pc' = gone /\ Fail
  /\ UNCHANGED <<job, mark, waking, window, children, dedup, runVars, rounds, batch>>

\* The task leaves SAQ's set of incomplete jobs: its key is free again.
FinishTask ==
  /\ pc[Main] = "finishing"
  /\ Goto(Main, "idle")
  /\ UNCHANGED <<job, mark, waking, window, children, dedup, failures, runVars, rounds, batch>>

\* A worker dies, its transaction is rolled back, and SAQ may retry the task.
Crash(d) ==
  /\ pc[d] \notin {"idle", "queued"} /\ Fail
  /\ Goto(d, "idle") \/ (d \in Worker /\ Goto(d, "queued"))
  /\ batch' = IF pc[d] = "counting" THEN {} ELSE batch
  /\ UNCHANGED <<job, mark, waking, window, children, dedup, runVars, rounds>>

-----------------------------------------------------------------------------
(* counter_reconciler: one pass of the leader. *)

\* _has_pending_aggregation, under the lock of the row, or skip_locked.
BeginSweep ==
  /\ pc[Leader] = "idle"
  /\ Goto(Leader, IF Locked \/ mark # {} THEN "rescuing" ELSE "recounting")
  /\ UNCHANGED <<job, mark, waking, window, children, dedup, failures, runVars, rounds, batch>>

\* The jobs are read by a later statement, and the terminal transactions do not
\* take the lock: what drifted may be a job that ended in between.
Recount ==
  /\ pc[Leader] = "recounting"
  /\ IF count = Tally(Job)
       THEN UNCHANGED <<runSt, count, effects>>
       ELSE count' = Tally(Job) /\ Settle(Tally(Job), abortAsked, "done")
  /\ Goto(Leader, "rescuing")
  /\ UNCHANGED <<job, mark, waking, window, hostCount, abortAsked, children, dedup, failures, rounds, batch>>

\* Variant: the marks are left to the tasks.
RescueNothing ==
  /\ pc[Leader] = "rescuing"
  /\ Goto(Leader, "replaying")
  /\ UNCHANGED <<job, mark, waking, window, children, dedup, failures, runVars, rounds, batch>>

\* _replay_stale_aggregation_triggers: drain the marks that are left,
Rescue ==
  /\ pc[Leader] = "rescuing"
  /\ Goto(Leader, IF mark # {} THEN "draining" ELSE "replaying")
  /\ rounds' = [rounds EXCEPT ![Leader] = 0]
  /\ UNCHANGED <<job, mark, waking, window, children, dedup, failures, runVars, batch>>

\* then run the effects that are still pending.
Replay ==
  /\ pc[Leader] = "replaying"
  /\ Goto(Leader, IF effects = "pending" THEN "applied" ELSE "idle")
  /\ rounds' = [rounds EXCEPT ![Leader] = 0]
  /\ UNCHANGED <<job, mark, waking, window, children, dedup, failures, runVars, batch>>

\* reconcile_chain_trigger_sync, from plan_chain_reconciler or post_completion.
\* It may be refused as often as it asks, and a pass of the reconciler takes the
\* oldest parents up to a limit: nothing says that this one gets its child.
ReconcileChain ==
  /\ ~Locked /\ ChildMissing
  /\ TriggerNext
  /\ UNCHANGED <<job, mark, waking, window, dedup, failures, runVars, taskVars>>

-----------------------------------------------------------------------------
(* abort_plan_run, of the run or of one of its hosts. *)

Scopes == {Job} \cup {JobsOn(h) : h \in Host}

\* The effects of an abort are run inline; the scan only once the run is over.
AbortEffects == IF runSt' = "RUNNING" THEN UNCHANGED <<dedup, failures>> ELSE EnqueueDedup

\* First transaction: the request.  Without PENDING jobs it is the only one.
AbortRequest(S) ==
  /\ ~Locked /\ window = {} /\ runSt = "RUNNING"
  /\ S = Job \/ \E j \in S : job[j] \notin Terminal
  /\ abortAsked' = TRUE
  /\ window' = JobsIn(S, "PENDING")
  /\ IF window' = {}
       THEN Settle(count, TRUE, "done") /\ AbortEffects
       ELSE UNCHANGED <<runSt, effects, dedup, failures>>
  /\ UNCHANGED <<job, mark, waking, children, count, hostCount, taskVars>>

\* Variant: the counters go up by the number of PENDING jobs read at first.
AbortedOfRead == window

\* The jobs the bulk update finds still PENDING.
AbortedOf == JobsIn(window, "PENDING")

\* Second transaction, _bulk_abort_pending_jobs: no marks, counters by number.
AbortPending ==
  /\ window # {} /\ ~Locked
  /\ window' = {}
  /\ IF runSt = "RUNNING"
       THEN LET up(c, S) == [c EXCEPT !["ABORTED"] = @ + Cardinality(S)] IN
            /\ job' = [j \in Job |-> IF j \in JobsIn(window, "PENDING") THEN "ABORTED" ELSE job[j]]
            /\ count' = up(count, AbortedOf)
            /\ hostCount' = [h \in Host |-> up(hostCount[h], AbortedOf \cap JobsOn(h))]
            /\ Settle(count', abortAsked, "done")
       ELSE UNCHANGED <<job, count, hostCount, runSt, effects>>
  /\ AbortEffects
  /\ UNCHANGED <<mark, waking, abortAsked, children, taskVars>>

AbortInterrupted ==
  /\ window # {} /\ Fail
  /\ window' = {}
  /\ UNCHANGED <<job, mark, waking, children, dedup, runVars, taskVars>>

-----------------------------------------------------------------------------
Jobs ==
  \E j \in Job : JobStarts(j) \/ Wake(j) \/ LoseWake(j) \/ \E s \in Terminal : JobEnds(j, s)

DrainStep(d) ==
  BeginRound(d) \/ FinishRound(d) \/ CheckEffects(d) \/ TriggerChain(d) \/ CloseEffects(d)

Tasks ==
  \/ \E d \in Drainer : DrainStep(d) \/ StartTask(d) \/ EnqueueTail(d) \/ Crash(d)
  \/ FinishTask

Sweep == BeginSweep \/ Recount \/ Rescue \/ Replay

Abort == (\E S \in Scopes : AbortRequest(S)) \/ AbortPending \/ AbortInterrupted

Next == Jobs \/ Tasks \/ Sweep \/ ReconcileChain \/ Abort

\* The leader's jobs are periodic, and a transaction that holds the row ends.
\* The workers may never run again, and nothing is assumed of the chain.
Fairness ==
  /\ WF_vars(Sweep) /\ WF_vars(DrainStep(Leader))
  /\ \A d \in Worker : WF_vars(FinishRound(d))

Spec == Init /\ [][Next]_vars
FairSpec == Spec /\ Fairness

-----------------------------------------------------------------------------
(* Properties. *)

Places == {"idle", "queued", "draining", "counting", "applied", "chaining", "closing",
           "tailing", "finishing", "recounting", "rescuing", "replaying"}
Counters == [Terminal -> Nat]

\* Every variable stays in its type.
TypeOK ==
  /\ job \in [Job -> {"PENDING", "RUNNING"} \cup Terminal]
  /\ mark \subseteq Job /\ waking \subseteq Job /\ window \subseteq Job /\ batch \subseteq Job
  /\ runSt \in {"RUNNING", "FAILED"} \cup Triggerable
  /\ count \in Counters /\ hostCount \in [Host -> Counters]
  /\ abortAsked \in BOOLEAN /\ dedup \in BOOLEAN
  /\ effects \in {"none", "pending", "done"}
  /\ children \in Nat
  /\ pc \in [Drainer -> Places]
  /\ rounds \in [Drainer -> 0 .. MaxRounds]
  /\ failures \in 0 .. MaxFailures

Between(c, S) ==
  \A s \in Terminal : /\ Cardinality(JobsIn(S \ mark, s)) <= c[s]
                      /\ c[s] <= Cardinality(JobsIn(S, s))

\* The counters of the run and of every host are never ahead of the facts, and
\* behind them only by jobs that still have a mark: no recount, batch, repair
\* or bulk abort counts a job twice or consumes its mark without counting it.
CountersBetweenMarksAndFacts ==
  Between(count, Job) /\ \A h \in Host : Between(hostCount[h], JobsOn(h))

\* A run is settled only when all its jobs are, and by what all of them did,
\* although the one that settles it has seen the facts batch by batch.
VerdictOfAllFacts ==
  runSt # "RUNNING" =>
    /\ \A j \in Job : job[j] \in Terminal
    /\ runSt = Verdict(Tally(Job), abortAsked)

Draining == {"queued", "draining", "counting", "applied", "chaining", "closing", "tailing"}

\* While nothing has been lost or crashed, a mark has a drain of a task still to
\* come: a wake-up that the queue drops as a duplicate strands nothing, nor does
\* a drain that stops at its cap of rounds.  The leader is not counted on.
NoStrandedMark ==
  failures = 0 /\ mark # {} =>
    waking # {} \/ \E d \in Worker : pc[d] \in Draining

\* One child per parent, although every drainer, the replay and the chain
\* reconciler may all try; and none before all jobs of the parent have ended.
OneChild ==
  children <= 1 /\ (children = 1 => \A j \in Job : job[j] \in {"COMPLETED", "FAILED"})

\* A settled run stays as it was settled, and its effects once done stay done:
\* no later round, abort or repair reopens it.
SettledOnce ==
  [][/\ runSt # "RUNNING" => runSt' = runSt
     /\ effects = "done" => effects' = "done"]_vars

\* The leader alone settles a run whose jobs have all ended and sees its effects
\* through, whatever became of the wake-ups and the workers.
AllJobsEndedSettles ==
  (\A j \in Job : job[j] \in Terminal) ~> (runSt # "RUNNING" /\ effects = "done")

\* "chain/dedup 归 post_completion 的 recover_chain_trigger 补偿" (counter_reconciler):
\* a finished run gets its scan.  One that the counter repair settles does not,
\* recover_chain_trigger makes up for the chain only.
DedupCompensated == runSt # "RUNNING" ~> dedup
=============================================================================
