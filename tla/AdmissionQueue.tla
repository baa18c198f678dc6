--------------------------- MODULE AdmissionQueue ---------------------------
(***************************************************************************)
(* How a PlanRun gets from the queue to its devices.  The leader's pump    *)
(* claims queued runs under a fresh attempt id and hands each to a queue   *)
(* task; the task checks scripts for minutes without any lock, and then    *)
(* admits the run in one transaction, or sends it back, or fails it.       *)
(* Besides, the reaper takes runs from attempts that look dead, users      *)
(* abort runs and retry failed ones, and pump and workers crash.           *)
(* A transaction that locks the row of its run is one step.                *)
(***************************************************************************)
EXTENDS Naturals, FiniteSets, Functions

CONSTANTS
  Run, Device,
  wanted,       \* target devices of each run when it was prepared
  Shrinkable,   \* runs of type SCHEDULE and CHAIN
  User,         \* requests for a manual retry that may be under way together
  Attempt,      \* ids; one is used again when nothing refers to it any more
  Nobody,       \* no attempt
  NoRun,        \* no retry under way
  Batch,        \* STP_ADMISSION_PUMP_BATCH
  MaxStrikes    \* max_admission_requeue_attempts

ASSUME ConstantsAssumption ==
  /\ wanted \in [Run -> SUBSET Device]
  /\ \A r \in Run : wanted[r] # {}
  /\ Shrinkable \subseteq Run
  /\ Nobody \notin Attempt /\ NoRun \notin Run
  /\ Batch \in Nat \ {0} /\ MaxStrikes \in Nat

VARIABLES
  st,        \* plan_run.status; see Statuses
  owner,     \* admission_attempt_id
  targets,   \* plan_run_target_device rows
  jobs,      \* devices on which the run has an active job
  strikes,   \* run_context.admission_requeue_attempts
  handing,   \* claims the pump's tick has yet to enqueue, or to take back
  queue,     \* tasks in Redis
  work,      \* tasks on a worker
  scan,      \* candidates the reaper has read without a lock
  retrying   \* the run a user's retry request has read, before it writes

runVars == <<st, owner, targets, jobs, strikes>>
vars == <<runVars, handing, queue, work, scan, retrying>>

\* FAILED is a rejected run, ABORTED one with result_summary.aborted; OVER is
\* any end of a run that had jobs.
Statuses == {"QUEUED", "PRECHECK", "RUNNING", "OVER", "FAILED", "ABORTED"}

Claim == [run : Run, attempt : Attempt]
ClaimOf(x) == [run |-> x.run, attempt |-> x.attempt]

\* A tick enqueues, or takes back what it could not enqueue.  A task checks,
\* admits, sends back or fails; dead is one whose worker crashed.  alive is
\* what the worker's record in Redis says.
Handover == [run : Run, attempt : Attempt, at : {"enqueue", "take back"}]
Task == [run : Run, attempt : Attempt, alive : BOOLEAN,
         at : {"check", "admit", "requeue", "fail", "dead"}]

Init ==
  /\ st = [r \in Run |-> "QUEUED"]
  /\ owner = [r \in Run |-> Nobody]
  /\ targets = wanted
  /\ jobs = [r \in Run |-> {}]
  /\ strikes = [r \in Run |-> 0]
  /\ handing = {} /\ queue = {} /\ work = {} /\ scan = {}
  /\ retrying = [u \in User |-> NoRun]

Become(r, s) == st' = [st EXCEPT ![r] = s]

\* Variant: the status is not compared.
OwnsById(x) == owner[x.run] = x.attempt
\* The ownership test every transaction of an attempt begins with.
Owns(x) == st[x.run] = "PRECHECK" /\ owner[x.run] = x.attempt

Replace(x, place) == (work \ {x}) \cup {[x EXCEPT !.at = place]}

Waiting == {r \in Run : st[r] = "QUEUED"}

FreshAttempts ==
  Attempt \ ({owner[r] : r \in Run}
             \cup {x.attempt : x \in handing \cup queue \cup work \cup scan})

-----------------------------------------------------------------------------
\* The pump.

\* claim_queued_plan_runs, on the leader, once a tick.
PumpClaim ==
  /\ handing = {}
  /\ \E S \in SUBSET Waiting :
       /\ S # {} /\ Cardinality(S) <= Batch
       /\ \E id \in Injection(S, FreshAttempts) :
            /\ st' = [r \in Run |-> IF r \in S THEN "PRECHECK" ELSE st[r]]
            /\ owner' = [r \in Run |-> IF r \in S THEN id[r] ELSE owner[r]]
            /\ handing' = {[run |-> r, attempt |-> id[r], at |-> "enqueue"] : r \in S}
  /\ UNCHANGED <<targets, jobs, strikes, queue, work, scan, retrying>>

\* The enqueue is confirmed, or it is not: then the task may be in Redis all
\* the same, and the tick goes on to take the run back.
PumpEnqueue(h) ==
  /\ h \in handing /\ h.at = "enqueue"
  /\ \/ /\ queue' = queue \cup {ClaimOf(h)}
        /\ handing' = handing \ {h}
     \/ /\ queue' \in {queue, queue \cup {ClaimOf(h)}}
        /\ handing' = (handing \ {h}) \cup {[h EXCEPT !.at = "take back"]}
  /\ UNCHANGED <<runVars, work, scan, retrying>>

PumpCrash ==
  /\ handing # {}
  /\ handing' = {}
  /\ UNCHANGED <<runVars, queue, work, scan, retrying>>

\* requeue_plan_run; a clean requeue costs no strike.
SendBack(x) ==
  IF Owns(x)
  THEN /\ Become(x.run, "QUEUED")
       /\ owner' = [owner EXCEPT ![x.run] = Nobody]
       /\ UNCHANGED <<targets, jobs, strikes>>
  ELSE UNCHANGED runVars

PumpTakeBack(h) ==
  /\ h \in handing /\ h.at = "take back"
  /\ SendBack(h)
  /\ handing' = handing \ {h}
  /\ UNCHANGED <<queue, work, scan, retrying>>

-----------------------------------------------------------------------------
\* The task, and the workers it runs on.

\* A worker takes the task, which looks once whether it owns the run.
TaskStart(c) ==
  /\ c \in queue
  /\ queue' = queue \ {c}
  /\ work' = IF Owns(c)
             THEN work \cup {[run |-> c.run, attempt |-> c.attempt,
                              alive |-> TRUE, at |-> "check"]}
             ELSE work
  /\ UNCHANGED <<runVars, handing, scan, retrying>>

\* The gates and the script check, which hold no lock: they pass, find a
\* transient fault, or one that no retry can heal.
TaskCheck(t) ==
  /\ t \in work /\ t.at = "check"
  /\ \E verdict \in {"admit", "requeue", "fail"} : work' = Replace(t, verdict)
  /\ UNCHANGED <<runVars, handing, queue, scan, retrying>>

Busy == UNION {jobs[r] : r \in Run}

\* Variant: a run that may shrink may shrink to nothing.
StartsWithSome(r, kept) == kept = targets[r] \/ r \in Shrinkable
\* What admission_transaction makes of the devices that are left.
StartsWith(r, kept) ==
  kept # {} /\ (kept = targets[r] \/ r \in Shrinkable)

\* admission_transaction.  away are devices that are offline, leased, in debt
\* or in maintenance when it looks.
TaskAdmit(t) ==
  /\ t \in work /\ t.at = "admit"
  /\ Owns(t)
  /\ \E away \in SUBSET targets[t.run] :
       LET kept == targets[t.run] \ (Busy \cup away)
       IN /\ StartsWith(t.run, kept)
          /\ targets' = [targets EXCEPT ![t.run] = kept]
          /\ jobs' = [jobs EXCEPT ![t.run] = kept]
  /\ Become(t.run, "RUNNING")
  /\ work' = work \ {t}
  /\ UNCHANGED <<owner, strikes, handing, queue, scan, retrying>>

\* Or it rolls back: devices are busy, a pool is full or another run was
\* faster (requeue); a device is gone, retired or has moved (fail).
TaskTurnedAway(t) ==
  /\ t \in work /\ t.at = "admit"
  /\ IF Owns(t)
     THEN \E verdict \in {"requeue", "fail"} : work' = Replace(t, verdict)
     ELSE work' = work \ {t}
  /\ UNCHANGED <<runVars, handing, queue, scan, retrying>>

TaskSendBack(t) ==
  /\ t \in work /\ t.at = "requeue"
  /\ SendBack(t)
  /\ work' = work \ {t}
  /\ UNCHANGED <<handing, queue, scan, retrying>>

\* Variant: whoever has the id may fail the run.
FailsById(x) == IF OwnsById(x) THEN Become(x.run, "FAILED") ELSE UNCHANGED st
\* fail_plan_run_admission
Fails(x) == IF Owns(x) THEN Become(x.run, "FAILED") ELSE UNCHANGED st

TaskFail(t) ==
  /\ t \in work /\ t.at = "fail"
  /\ Fails(t)
  /\ work' = work \ {t}
  /\ UNCHANGED <<owner, targets, jobs, strikes, handing, queue, scan, retrying>>

\* An unexpected error, or the task's timeout: the run stays as it is.
TaskError(t) ==
  /\ t \in work
  /\ work' = work \ {t}
  /\ UNCHANGED <<runVars, handing, queue, scan, retrying>>

\* The worker dies; or only its record expires, while it works on.
WorkerLost(t) ==
  /\ t \in work /\ t.alive
  /\ \E place \in {t.at, "dead"} :
       work' = (work \ {t}) \cup {[t EXCEPT !.alive = FALSE, !.at = place]}
  /\ UNCHANGED <<runVars, handing, queue, scan, retrying>>

QueueLoses(c) ==
  /\ c \in queue
  /\ queue' = queue \ {c}
  /\ UNCHANGED <<runVars, handing, work, scan, retrying>>

-----------------------------------------------------------------------------
\* The reaper of stale prechecks.

\* The scan holds no lock.  Whether precheck_started_at is old is left open;
\* the attempt stands for the PRECHECK whose age was seen, since a later one
\* has a newer precheck_started_at and another attempt.
ReaperScan(r) ==
  /\ st[r] = "PRECHECK"
  /\ scan' = scan \cup {[run |-> r, attempt |-> owner[r]]}
  /\ UNCHANGED <<runVars, handing, queue, work, retrying>>

\* Variant: an active task is left alone, whatever its worker.
BelievedQueuedOrActive(c) == c \in queue \/ \E t \in work : ClaimOf(t) = c
\* What SAQ says of the attempt's task: in line, or on a worker that lives.
Believed(c) == c \in queue \/ \E t \in work : ClaimOf(t) = c /\ t.alive

\* Variant: the row is not looked at again under the lock.
StaleAsScanned(c) == TRUE
StillStale(c) == Owns(c)

\* Variant: an off-by-one at the limit.
MayTryOnceMore(r) == strikes[r] <= MaxStrikes
MayTryAgain(r) == strikes[r] < MaxStrikes

\* _recover_stale_precheck_run: back to the queue with a strike, or out.
ReaperRecover(c) ==
  /\ c \in scan /\ StillStale(c) /\ ~Believed(c)
  /\ IF MayTryAgain(c.run)
     THEN /\ Become(c.run, "QUEUED")
          /\ owner' = [owner EXCEPT ![c.run] = Nobody]
          /\ strikes' = [strikes EXCEPT ![c.run] = @ + 1]
     ELSE Become(c.run, "FAILED") /\ UNCHANGED <<owner, strikes>>
  /\ scan' = scan \ {c}
  /\ UNCHANGED <<targets, jobs, handing, queue, work, retrying>>

\* The candidate is skipped; also when SAQ cannot be read.
ReaperSkip(c) ==
  /\ c \in scan
  /\ scan' = scan \ {c}
  /\ UNCHANGED <<runVars, handing, queue, work, retrying>>

-----------------------------------------------------------------------------
\* Users, and the jobs.

\* abort_plan_run of a run without jobs.
Abort(r) ==
  /\ st[r] \in {"QUEUED", "PRECHECK"} /\ jobs[r] = {}
  /\ Become(r, "ABORTED")
  /\ UNCHANGED <<owner, targets, jobs, strikes, handing, queue, work, scan, retrying>>

Retryable(r) == st[r] = "FAILED" /\ jobs[r] = {}

\* retry_plan_run_dispatch reads the run without locking its row ...
RetryRead(u, r) ==
  /\ retrying[u] = NoRun /\ Retryable(r)
  /\ retrying' = [retrying EXCEPT ![u] = r]
  /\ UNCHANGED <<runVars, handing, queue, work, scan>>

\* ... and writes the row, whatever it holds by now.
RetryWrite(u) ==
  /\ retrying[u] # NoRun
  /\ Become(retrying[u], "QUEUED")
  /\ owner' = [owner EXCEPT ![retrying[u]] = Nobody]
  /\ retrying' = [retrying EXCEPT ![u] = NoRun]
  /\ UNCHANGED <<targets, jobs, strikes, handing, queue, work, scan>>

\* A job ends; the last one settles the run.
JobEnds(r, d) ==
  /\ st[r] = "RUNNING" /\ d \in jobs[r]
  /\ jobs' = [jobs EXCEPT ![r] = @ \ {d}]
  /\ IF jobs[r] = {d} THEN Become(r, "OVER") ELSE UNCHANGED st
  /\ UNCHANGED <<owner, targets, strikes, handing, queue, work, scan, retrying>>

-----------------------------------------------------------------------------
TaskStep(t) ==
  \/ TaskCheck(t) \/ TaskAdmit(t) \/ TaskTurnedAway(t)
  \/ TaskSendBack(t) \/ TaskFail(t)

TaskGoesOn(c) ==
  \E t \in work :
    ClaimOf(t) = c /\ t.alive /\ (TaskStep(t) \/ TaskError(t))

Next ==
  \/ PumpClaim \/ PumpCrash
  \/ \E h \in handing : PumpEnqueue(h) \/ PumpTakeBack(h)
  \/ \E c \in queue : TaskStart(c) \/ QueueLoses(c)
  \/ \E t \in work : TaskStep(t) \/ TaskError(t) \/ WorkerLost(t)
  \/ \E c \in scan : ReaperRecover(c) \/ ReaperSkip(c)
  \/ \E r \in Run : ReaperScan(r) \/ Abort(r) \/ \E d \in Device : JobEnds(r, d)
  \/ \E u \in User : RetryWrite(u) \/ \E r \in Run : RetryRead(u, r)

Spec == Init /\ [][Next]_vars

\* A queued task is taken or lost; a worker that lives goes on, SAQ's timeout
\* ends one that hangs; the reaper comes round, and at some of its rounds
\* SAQ can be read.  The pump, retries and aborts owe nothing.
Fairness ==
  /\ \A c \in Claim :
       /\ WF_vars(TaskStart(c))
       /\ WF_vars(TaskGoesOn(c))
  /\ \A r \in Run :
       /\ WF_vars(ReaperScan(r))
       /\ SF_vars(\E c \in scan : c.run = r /\ ReaperRecover(c))

FairSpec == Spec /\ Fairness

-----------------------------------------------------------------------------
\* Every variable keeps to its type; in particular a run is sent back at most
\* as often as the limit on automatic attempts allows.
TypeOK ==
  /\ st \in [Run -> Statuses]
  /\ owner \in [Run -> Attempt \cup {Nobody}]
  /\ targets \in [Run -> SUBSET Device] /\ jobs \in [Run -> SUBSET Device]
  /\ strikes \in [Run -> 0..MaxStrikes]
  /\ handing \subseteq Handover
  /\ queue \subseteq Claim /\ scan \subseteq Claim
  /\ work \subseteq Task
  /\ retrying \in [User -> Run \cup {NoRun}]

\* Invariant 1 of ADR-0026: a run that waits, or was rejected, has no job
\* (abort_plan_run relies on it, and ends such a run on the spot).
WaitingRunHoldsNothing ==
  \A r \in Run : jobs[r] # {} => st[r] = "RUNNING"

\* Two runs never have jobs on one device, and a run has them on targets only,
\* whichever attempts, retries and reapings have admitted them.
OneRunPerDevice ==
  \A q \in Run :
    /\ jobs[q] \subseteq targets[q]
    /\ \A r \in Run \ {q} : jobs[q] \cap jobs[r] = {}

\* An attempt that has lost its run - to the reaper, a user, or because its
\* own enqueue was not confirmed - ends without any effect on it.
RunRow(r) == <<st[r], owner[r], targets[r], jobs[r], strikes[r]>>
SupersededIsInert ==
  [][\A x \in handing \cup work :
       ~Owns(x) /\ x \notin handing' \cup work' => RunRow(x.run)' = RunRow(x.run)]_vars

\* The queue keeps the promise of admission: a run is admitted once, as a
\* whole, on devices that nobody else uses, and an abort is final.
VerdictOf(status) ==
  CASE status \in {"QUEUED", "PRECHECK"} -> "waiting"
    [] status \in {"RUNNING", "OVER"} -> "admitted"
    [] status = "FAILED" -> "rejected"
    [] status = "ABORTED" -> "aborted"
Verdicts == [r \in Run |-> VerdictOf(st[r])]
Promise == INSTANCE RunAdmission WITH verdict <- Verdicts, held <- jobs
KeepsRunAdmission == Promise!Spec

\* A precheck comes to an end, whoever crashed and whatever was lost: the
\* reaper is the net under pump, queue and workers.
PrecheckResolves == \A r \in Run : st[r] = "PRECHECK" ~> st[r] # "PRECHECK"
=============================================================================
