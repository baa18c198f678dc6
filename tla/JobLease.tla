------------------------------ MODULE JobLease ------------------------------
(***************************************************************************)
(* The control plane's side of a job: its status, the device lease that    *)
(* fences its worker, the return debt a worker can leave on the device,    *)
(* and the abort requests of its PlanRun.  One row-locked transaction of   *)
(* the code is one action.  A candidate list that a handler reads without  *)
(* a lock and re-evaluates under the lock (batch renewal, the reconciler's *)
(* scans, the claim snapshot) adds no behaviour and is left out; a read    *)
(* that is NOT re-evaluated (dispatch validation, the first half of an     *)
(* abort, what a recovery reads of the run) is a step of its own.          *)
(*                                                                         *)
(* The environment is open: any Agent instance may call at any time with   *)
(* any token ever issued, and administrators and timers act at will.       *)
(***************************************************************************)
EXTENDS Naturals, FiniteSets

CONSTANTS
  Job, Device, Host, Run,   \* rows of job_instance, device, host, plan_run
  Instance,                 \* agent_instance_id values
  Payload,                  \* contents of a completion report (its digest)
  devOf, hostOf, runOf,     \* the foreign keys of a job
  outcome,                  \* the terminal status a payload asks for
  NoPayload,                \* terminal_payload_digest IS NULL
  MaxGen                    \* bound: no rotation or retirement past it

Terminal == {"COMPLETED", "FAILED", "ABORTED"}
Active == {"PENDING", "RUNNING", "UNKNOWN"}

ASSUME ConstantsAssumption ==
  /\ devOf \in [Job -> Device]
  /\ hostOf \in [Job -> Host]
  /\ runOf \in [Job -> Run]
  /\ outcome \in [Payload -> Terminal]
  /\ NoPayload \notin Payload
  /\ MaxGen \in Nat
  /\ "debt" \notin Job       \* what holds a device for its debts is no job

VARIABLES
  phase,      \* plan_run.status, as far as dispatch and claim read it
  status,     \* job_instance.status ("ABSENT": the row does not exist yet)
  fact,       \* job_instance.terminal_payload_digest
  grace,      \* an UNKNOWN job's ended_at lies within the grace period
  leaseSt,    \* the job's JOB lease: none, ACTIVE, RELEASED, or turned to debt
  tok,        \* its fencing token (the generation it was issued with)
  inst,       \* its agent_instance_id
  fresh,      \* its expires_at lies in the future
  gen,        \* device.lease_generation
  retired,    \* device.retired_at IS NOT NULL
  owed,       \* the OPEN device_return_debt rows: <<source job, token>>, Stock
  debtTok,    \* token of the device's ACTIVE debt lease, 0 when it has none
  clock,      \* run_context.abort_requested.at is set
  requested,  \* run_context.abort_requested.requested_job_ids
  hostClock,  \* the <<run, host>> with abort_requested_hosts[host].at set
  window,     \* aborts between their first commit and their bulk update
  seen        \* what a recovery under way has read of the abort of the job

jobVars == <<status, fact, grace>>
leaseVars == <<leaseSt, tok, inst, fresh, gen>>
deviceVars == <<retired, owed, debtTok>>
requestVars == <<clock, requested, hostClock, window>>
abortVars == <<requestVars, seen>>
vars == <<phase, jobVars, leaseVars, deviceVars, abortVars>>

-----------------------------------------------------------------------------
JobsOn(d) == {j \in Job : devOf[j] = d}
JobsOfRun(r) == {j \in Job : runOf[j] = r}
Leased(j) == leaseSt[j] = "ACTIVE"

\* Variant: the lock that claim takes sees JOB leases only.
BusyWithJob(d) == \E j \in JobsOn(d) : Leased(j)

\* device_lease_d holds an ACTIVE row for the device, of whatever type.
Busy(d) == debtTok[d] # 0 \/ \E j \in JobsOn(d) : Leased(j)

\* Variant: the clock of a host abort is not consulted.
CoveredByRun(j) ==
  clock[runOf[j]] /\ (requested[runOf[j]] = {} \/ j \in requested[runOf[j]])

\* abort_pending_job_ids: an empty list under a run clock covers every job.
Covered(j) ==
  \/ clock[runOf[j]] /\ (requested[runOf[j]] = {} \/ j \in requested[runOf[j]])
  \/ <<runOf[j], hostOf[j]>> \in hostClock

Init ==
  /\ phase = [r \in Run |-> "QUEUED"]
  /\ status = [j \in Job |-> "ABSENT"]
  /\ fact = [j \in Job |-> NoPayload]
  /\ grace = [j \in Job |-> FALSE]
  /\ leaseSt = [j \in Job |-> "NONE"]
  /\ tok = [j \in Job |-> 0]
  /\ inst = [j \in Job |-> ""]
  /\ fresh = [j \in Job |-> FALSE]
  /\ gen = [d \in Device |-> 0]
  /\ retired = [d \in Device |-> FALSE]
  /\ owed = [d \in Device |-> {}]
  /\ debtTok = [d \in Device |-> 0]
  /\ clock = [r \in Run |-> FALSE]
  /\ requested = [r \in Run |-> {}]
  /\ hostClock = {}
  /\ window = {}
  /\ seen = [j \in Job |-> "nothing"]

-----------------------------------------------------------------------------
(* Dispatch: complete_plan_run_dispatch_sync holds the PlanRun row from the *)
(* device validation to the commit, but none of the devices.                *)

Dispatchable(d) ==
  /\ ~retired[d]
  /\ ~Busy(d)
  /\ owed[d] = {}
  /\ \A j \in JobsOn(d) : status[j] \notin Active

ValidateDevices(r) ==
  /\ phase[r] = "QUEUED"
  /\ phase' = [phase EXCEPT ![r] =
       IF \A j \in JobsOfRun(r) : Dispatchable(devOf[j]) THEN "VALIDATED" ELSE "FAILED"]
  /\ UNCHANGED <<jobVars, leaseVars, deviceVars, abortVars>>

\* The insert of the run's jobs: uq_job_active_per_device (PENDING, RUNNING,
\* UNKNOWN) rolls all of them back and settles the run FAILED.
MaterializeJobs(r) ==
  /\ phase[r] = "VALIDATED"
  /\ IF \E j \in JobsOfRun(r), k \in Job :
          devOf[k] = devOf[j] /\ status[k] \in Active
       THEN /\ phase' = [phase EXCEPT ![r] = "FAILED"]
            /\ status' = status
       ELSE /\ phase' = [phase EXCEPT ![r] = "STARTED"]
            /\ status' = [j \in Job |->
                 IF j \in JobsOfRun(r) THEN "PENDING" ELSE status[j]]
  /\ UNCHANGED <<fact, grace, leaseVars, deviceVars, abortVars>>

-----------------------------------------------------------------------------
(* The pieces of a transaction. *)

\* Variant: the incremented generation is not written back.
NewTokenLost(j) ==
  /\ gen' = gen
  /\ tok' = [tok EXCEPT ![j] = gen[devOf[j]] + 1]

\* Fences whoever holds j's lease: device.lease_generation + 1 is the token.
NewToken(j) ==
  LET d == devOf[j] IN
  /\ gen' = [gen EXCEPT ![d] = @ + 1]
  /\ tok' = [tok EXCEPT ![j] = gen[d] + 1]

\* The debt rows of a job name the token they were opened under; those that
\* init_device_return derives from the device's history name none.
Stock == <<"stock", 0>>

\* handle_job_lease_release: while a debt of the device is open the lease of
\* the job turns in place into the debt lease of the device (a new token),
\* otherwise it is released.  opens: this job's disarm results open a debt.
\* _acquire_debt_lease returns None for a device without a host as well; none
\* that owes is, for dispatch refuses it and no heartbeat takes a host away.
HandleRelease(j, opens) ==
  LET d    == devOf[j]
      open == IF opens THEN owed[d] \cup {<<j, tok[j]>>} ELSE owed[d]
      debt == open # {} /\ (Leased(j) \/ (~Busy(d) /\ ~retired[d]))
  IN /\ owed' = [owed EXCEPT ![d] = open]
     /\ gen' = IF debt THEN [gen EXCEPT ![d] = @ + 1] ELSE gen
     /\ debtTok' = IF debt THEN [debtTok EXCEPT ![d] = gen[d] + 1] ELSE debtTok
     /\ leaseSt' = IF Leased(j)
          THEN [leaseSt EXCEPT ![j] = IF debt THEN "CONVERTED" ELSE "RELEASED"]
          ELSE leaseSt
     /\ fresh' = [fresh EXCEPT ![j] = FALSE]
     /\ seen' = [seen EXCEPT ![j] = "nothing"]  \* void without a lease
     /\ UNCHANGED <<tok, inst, retired>>

\* Variant: decided by the status an earlier scan has seen.
ToUnknownUnchecked(j) ==
  /\ status[j] \notin {"ABSENT", "PENDING"}
  /\ status' = [status EXCEPT ![j] = "UNKNOWN"]
  /\ grace' = [grace EXCEPT ![j] = TRUE]
  /\ UNCHANGED <<phase, fact, leaseVars, deviceVars, abortVars>>

\* RUNNING -> UNKNOWN with ended_at = now; the lease stays where it is.
ToUnknown(j) ==
  /\ status[j] = "RUNNING"
  /\ status' = [status EXCEPT ![j] = "UNKNOWN"]
  /\ grace' = [grace EXCEPT ![j] = TRUE]
  /\ UNCHANGED <<phase, fact, leaseVars, deviceVars, abortVars>>

\* Any other transition; grace is read of an UNKNOWN job only.
SetStatus(j, s) ==
  /\ status' = [status EXCEPT ![j] = s]
  /\ grace' = [grace EXCEPT ![j] = FALSE]

-----------------------------------------------------------------------------
(* The Agent's calls. *)

\* Variant: retired_at is left to the dispatcher.
ClaimableIfFree(j) ==
  status[j] = "PENDING" /\ phase[runOf[j]] = "STARTED" /\ ~Busy(devOf[j])

\* The generation CAS of acquire_lease checks retired_at, its locked read any
\* ACTIVE lease of the device, even an expired one.
Claimable(j) ==
  /\ status[j] = "PENDING" /\ phase[runOf[j]] = "STARTED"
  /\ ~retired[devOf[j]] /\ ~Busy(devOf[j])

\* claim_jobs_for_host and acquire_lease, one job.
ClaimJob(j, i) ==
  /\ Claimable(j)
  /\ status' = [status EXCEPT ![j] = "RUNNING"]
  /\ leaseSt' = [leaseSt EXCEPT ![j] = "ACTIVE"]
  /\ inst' = [inst EXCEPT ![j] = i]
  /\ fresh' = [fresh EXCEPT ![j] = TRUE]
  /\ NewToken(j)
  /\ UNCHANGED <<phase, fact, grace, deviceVars, abortVars>>

\* Variant: the token that comes with the call is not compared.
ValidLeaseAnyToken(j, t) == status[j] = "RUNNING" /\ Leased(j) /\ fresh[j]

\* get_valid_runtime_lease, and the CAS of the batch renewal.
ValidLease(j, t) == status[j] = "RUNNING" /\ Leased(j) /\ tok[j] = t /\ fresh[j]

\* Variant: the CAS compares the token and forgets the expiry.
CanExtendExpired(j, t, i) ==
  status[j] = "RUNNING" /\ Leased(j) /\ tok[j] = t /\ inst[j] = i

\* extend_agent_leases_batch, one job: expires_at := now + ttl.  Only a lease
\* that is still fresh is renewed, so the state of this model stays what it is.
CanExtend(j, t, i) == ValidLease(j, t) /\ inst[j] = i

ExtendLease(j, t, i) ==
  /\ CanExtend(j, t, i)
  /\ fresh' = [fresh EXCEPT ![j] = TRUE]
  /\ UNCHANGED <<phase, jobVars, leaseSt, tok, inst, gen, deviceVars, abortVars>>

\* complete_agent_job: the first terminal fact, under the job's lease.
AcceptCompletion(j, p, opens) ==
  /\ SetStatus(j, outcome[p])
  /\ fact' = [fact EXCEPT ![j] = p]
  /\ HandleRelease(j, opens)
  /\ UNCHANGED <<phase, requestVars>>

CompleteJob(j, t, p, opens) ==
  /\ ValidLease(j, t)
  /\ AcceptCompletion(j, p, opens)

\* The late terminal report: resume_expired_lease_for_recovery and the step
\* UNKNOWN -> RUNNING -> terminal, in one transaction.
CanResume(j, t) == status[j] = "UNKNOWN" /\ Leased(j) /\ tok[j] = t /\ grace[j]

CompleteLate(j, t, p, opens) ==
  /\ CanResume(j, t)
  /\ AcceptCompletion(j, p, opens)

\* A terminal job whose lease became the debt lease: a report with the token
\* that a debt row of the job names and another content, disarm confirmed.
LateConfirmed(j, t, p) ==
  LET d == devOf[j]
      left == owed[d] \ {<<j, t>>}
  IN /\ status[j] \in Terminal /\ leaseSt[j] = "CONVERTED"
     /\ fact[j] # p
     /\ <<j, t>> \in owed[d]
     /\ owed' = [owed EXCEPT ![d] = left]
     /\ debtTok' = IF left = {} THEN [debtTok EXCEPT ![d] = 0] ELSE debtTok
     /\ UNCHANGED <<phase, jobVars, leaseVars, retired, abortVars>>

\* apply_init_check_sync, from the running worker: what it confirms closes the
\* debts of whatever source, what it cannot return opens one of its own.  The
\* lease stays the job's; the debt waits for its release.
InitCheck(j, t, closed, opens) ==
  /\ ValidLease(j, t) /\ ~retired[devOf[j]]
  /\ owed' = [owed EXCEPT ![devOf[j]] =
       (@ \ closed) \cup IF opens THEN {<<j, t>>} ELSE {}]
  /\ UNCHANGED <<phase, jobVars, leaseVars, retired, debtTok, abortVars>>

-----------------------------------------------------------------------------
(* sync_agent_recovery, one reported job.  Every branch below has found the *)
(* job's ACTIVE lease and the reported token equal to it; the others answer *)
(* ABORT_LOCAL and write nothing.                                           *)

\* The run's abort requests are read without a lock, once for the request (the
\* session keeps the row), maybe before this job's row is locked: an abort can
\* commit between this read and the branch it decides.  To the instance that
\* holds the lease an abort is only told.
RecoveryReads(j) ==
  /\ Leased(j)
  /\ \/ ~Covered(j) /\ seen' = [seen EXCEPT ![j] = "clear"]
     \/ Covered(j) /\ Instance # {inst[j]} /\ seen' = [seen EXCEPT ![j] = "aborted"]
  /\ UNCHANGED <<phase, jobVars, leaseVars, deviceVars, requestVars>>

\* The branch is taken on what was read, and the request is done with the job.
DecidedOn(j, verdict) ==
  /\ seen[j] = verdict
  /\ seen' = [seen EXCEPT ![j] = "nothing"]

Owns(j, t) == Leased(j) /\ tok[j] = t

\* Variant: the device moves on and the lease keeps the token it had.
TakeOverDeviceOnly(j, i) ==
  /\ inst' = [inst EXCEPT ![j] = i]
  /\ tok' = tok
  /\ gen' = IF inst[j] = i THEN gen ELSE [gen EXCEPT ![devOf[j]] = @ + 1]

\* rotate_recovery_lease_token, when another instance than the holder asks.
TakeOver(j, i) ==
  /\ inst' = [inst EXCEPT ![j] = i]
  /\ IF inst[j] = i THEN UNCHANGED <<tok, gen>> ELSE NewToken(j)

\* The host rebooted: the worker is gone, whatever the job's status says.
RecoverBootMismatch(j, t, opens) ==
  /\ Owns(j, t)
  /\ SetStatus(j, "FAILED")
  /\ HandleRelease(j, opens)
  /\ UNCHANGED <<phase, fact, requestVars>>

\* An abort covers the job: no RESUME, the new instance gets the token it
\* needs to report ABORTED.
RecoverAbort(j, t, i) ==
  /\ Owns(j, t) /\ DecidedOn(j, "aborted")
  /\ inst[j] # i /\ gen[devOf[j]] < MaxGen
  /\ TakeOver(j, i)
  /\ UNCHANGED <<phase, jobVars, leaseSt, fresh, deviceVars, requestVars>>

\* UNKNOWN within the grace period: back to RUNNING with a renewed lease.
RecoverResume(j, t, i) ==
  /\ CanResume(j, t) /\ DecidedOn(j, "clear")
  /\ inst[j] = i \/ gen[devOf[j]] < MaxGen
  /\ SetStatus(j, "RUNNING")
  /\ fresh' = [fresh EXCEPT ![j] = TRUE]
  /\ TakeOver(j, i)
  /\ UNCHANGED <<phase, fact, leaseSt, deviceVars, requestVars>>

\* UNKNOWN past the grace period: the lease goes, the job stays UNKNOWN.
RecoverCleanup(j, t, opens) ==
  /\ Owns(j, t) /\ DecidedOn(j, "clear")
  /\ status[j] = "UNKNOWN" /\ ~grace[j]
  /\ HandleRelease(j, opens)
  /\ UNCHANGED <<phase, jobVars, requestVars>>

\* RUNNING under an earlier instance of the same boot: expires_at stays.
RecoverTakeover(j, t, i) ==
  /\ Owns(j, t) /\ DecidedOn(j, "clear")
  /\ status[j] = "RUNNING"
  /\ inst[j] # i /\ gen[devOf[j]] < MaxGen
  /\ TakeOver(j, i)
  /\ UNCHANGED <<phase, jobVars, leaseSt, fresh, deviceVars, requestVars>>

-----------------------------------------------------------------------------
(* The reconciler and the recycler. *)

\* _reconcile_expired_leases, phase 1.
ExpireToUnknown(j) == Leased(j) /\ ~fresh[j] /\ ToUnknown(j)

\* _abort_reaper_recheck_job: no terminal report within 60 s of the abort.
ReapAborted(j) == Covered(j) /\ ToUnknown(j)

\* _mark_running_timeout, _mark_patrol_stall, _mark_step_trace_stall: the
\* worker's liveness signals, which this model does not carry, have gone stale.
RunningTimeout(j) == ToUnknown(j)

\* _reconcile_expired_leases, phase 2.
FinalizeExpired(j, opens) ==
  /\ status[j] = "UNKNOWN" /\ ~grace[j]
  /\ Leased(j) /\ ~fresh[j]
  /\ SetStatus(j, "FAILED")
  /\ HandleRelease(j, opens)
  /\ UNCHANGED <<phase, fact, requestVars>>

\* Variant: a job whose lease is gone is somebody else's business.
OverdueHolder(j) == status[j] = "UNKNOWN" /\ ~grace[j] /\ Leased(j)

\* An UNKNOWN job past its grace period, whatever has become of its lease.
Overdue(j) == status[j] = "UNKNOWN" /\ ~grace[j]

\* Variant: the job is failed and its lease left for another scan.
FinalizeStaleOnly(j, opens) ==
  /\ Overdue(j)
  /\ SetStatus(j, "FAILED")
  /\ UNCHANGED <<phase, fact, leaseVars, deviceVars, abortVars>>

\* _reconcile_stale_unknown_jobs.
FinalizeStale(j, opens) ==
  /\ Overdue(j)
  /\ SetStatus(j, "FAILED")
  /\ IF Leased(j) THEN HandleRelease(j, opens) ELSE UNCHANGED <<leaseVars, deviceVars, seen>>
  /\ UNCHANGED <<phase, fact, requestVars>>

\* _mark_pending_timeout: the scan's other conditions (the age of the job, no
\* RUNNING job on the host) are not re-evaluated by the update.
PendingTimeout(j) ==
  /\ status[j] = "PENDING"
  /\ SetStatus(j, "FAILED")
  /\ HandleRelease(j, FALSE)
  /\ UNCHANGED <<phase, fact, requestVars>>

LeaseExpires(j) ==
  /\ Leased(j) /\ fresh[j]
  /\ fresh' = [fresh EXCEPT ![j] = FALSE]
  /\ UNCHANGED <<phase, jobVars, leaseSt, tok, inst, gen, deviceVars, abortVars>>

GraceExpires(j) ==
  /\ status[j] = "UNKNOWN" /\ grace[j]
  /\ grace' = [grace EXCEPT ![j] = FALSE]
  /\ UNCHANGED <<phase, status, fact, leaseVars, deviceVars, abortVars>>

-----------------------------------------------------------------------------
(* abort_plan_run.  The jobs it signals are those RUNNING when it reads; if *)
(* it also read PENDING ones it commits, and terminates in a second         *)
(* transaction those of them that are still PENDING.                        *)

JobsIn(r, s) == {j \in JobsOfRun(r) : status[j] = s}

\* Variant: only the PENDING jobs are carried over.
OpenWindowPendingOnly(r, pending, running) ==
  window' = IF pending = {} THEN window
            ELSE window \cup {[run |-> r, pending |-> pending]}

\* The second transaction works on what the first has read.
OpenWindow(r, pending, running) ==
  window' = IF pending = {} THEN window
            ELSE window \cup {[run |-> r, pending |-> pending, running |-> running]}

AbortQueued(r) ==
  /\ phase[r] = "QUEUED"
  /\ phase' = [phase EXCEPT ![r] = "FAILED"]
  /\ clock' = [clock EXCEPT ![r] = TRUE]
  /\ UNCHANGED <<jobVars, leaseVars, deviceVars, requested, hostClock, window, seen>>

\* Refused once the run is terminal, which needs every job terminal.
AbortRun(r) ==
  LET running == JobsIn(r, "RUNNING") IN
  /\ phase[r] = "STARTED" /\ \E j \in JobsOfRun(r) : status[j] \in Active
  /\ clock' = [clock EXCEPT ![r] = TRUE]
  /\ requested' = [requested EXCEPT ![r] = running]
  /\ OpenWindow(r, JobsIn(r, "PENDING"), running)
  /\ UNCHANGED <<phase, jobVars, leaseVars, deviceVars, hostClock, seen>>

AbortHost(r, h) ==
  LET onHost  == {j \in JobsOfRun(r) : hostOf[j] = h}
      pending == JobsIn(r, "PENDING") \cap onHost
      running == JobsIn(r, "RUNNING") \cap onHost
  IN /\ pending \cup running # {}
     /\ requested' = [requested EXCEPT ![r] = @ \cup running]
     /\ hostClock' = hostClock \cup {<<r, h>>}
     /\ OpenWindow(r, pending, running)
     /\ UNCHANGED <<phase, jobVars, leaseVars, deviceVars, clock, seen>>

\* _bulk_abort_pending_jobs, and the jobs claimed in between joining the list.
AbortPending(w) ==
  LET aborted == {j \in w.pending : status[j] = "PENDING"}
      raced   == {j \in w.pending : status[j] = "RUNNING"}
  IN /\ window' = window \ {w}
     /\ status' = [j \in Job |-> IF j \in aborted THEN "ABORTED" ELSE status[j]]
     /\ requested' = [requested EXCEPT ![w.run] = @ \cup w.running \cup raced]
     /\ UNCHANGED <<phase, fact, grace, leaseVars, deviceVars, clock, hostClock, seen>>

\* The process dies between the two transactions.
AbortInterrupted(w) ==
  /\ window' = window \ {w}
  /\ UNCHANGED <<phase, jobVars, leaseVars, deviceVars, clock, requested, hostClock, seen>>

-----------------------------------------------------------------------------
(* Return debts and retirement. *)

\* Closing debts; _maybe_release_debt_lease_sync once none is open.
CloseDebts(d, closed) ==
  LET left == owed[d] \ closed IN
  /\ owed' = [owed EXCEPT ![d] = left]
  /\ debtTok' = IF left = {} THEN [debtTok EXCEPT ![d] = 0] ELSE debtTok
  /\ UNCHANGED <<phase, jobVars, leaseVars, retired, abortVars>>

\* apply_discharge_sync: the Agent's report, fenced by the debt lease's token.
Discharge(d, t, closed) ==
  /\ debtTok[d] # 0 /\ debtTok[d] = t
  /\ CloseDebts(d, closed)

\* apply_override_sync: an administrator's, needing no token and no lease.
Override(d, closed) == CloseDebts(d, closed)

\* init_device_return_sync, an administrator's script.  opens: an ended job of
\* the device left a family unreturned.  recorded: return_state alone says a
\* family owes (a discharge that failed it without a row).  Either takes a free
\* device; under a job's lease the debts are recorded and wait for its release.
InitReturn(d, opens, recorded) ==
  LET open == IF opens THEN owed[d] \cup {Stock} ELSE owed[d]
      debt == (open # {} \/ recorded) /\ ~Busy(d)
  IN /\ ~retired[d] /\ gen[d] < MaxGen
     /\ opens \/ recorded => \E j \in JobsOn(d) : status[j] \in Terminal \cup {"UNKNOWN"}
     /\ owed' = [owed EXCEPT ![d] = open]
     /\ gen' = IF debt THEN [gen EXCEPT ![d] = @ + 1] ELSE gen
     /\ debtTok' = IF debt THEN [debtTok EXCEPT ![d] = gen[d] + 1] ELSE debtTok
     /\ UNCHANGED <<phase, jobVars, leaseSt, tok, inst, fresh, retired, abortVars>>

\* retire_device: no active job, no ACTIVE lease but the debt lease.
RetireDevice(d) ==
  /\ ~retired[d] /\ gen[d] < MaxGen
  /\ \A j \in JobsOn(d) : status[j] \notin Active /\ ~Leased(j)
  /\ retired' = [retired EXCEPT ![d] = TRUE]
  /\ debtTok' = [debtTok EXCEPT ![d] = 0]
  /\ UNCHANGED <<phase, jobVars, leaseVars, owed, abortVars>>

\* Variant: only a debt lease that is still there is given back.
RestoresKept(d) == owed[d] # {} /\ debtTok[d] # 0

\* restore_debt_lease_on_unretire_sync: the debts outlived the retirement.
Restores(d) == owed[d] # {} /\ ~Busy(d)

\* unretire_device.
UnretireDevice(d) ==
  /\ retired[d]
  /\ retired' = [retired EXCEPT ![d] = FALSE]
  /\ gen' = IF Restores(d) THEN [gen EXCEPT ![d] = @ + 1] ELSE gen
  /\ debtTok' = IF Restores(d) THEN [debtTok EXCEPT ![d] = gen[d] + 1] ELSE debtTok
  /\ UNCHANGED <<phase, jobVars, leaseSt, tok, inst, fresh, owed, abortVars>>

-----------------------------------------------------------------------------
Tokens(d) == 1 .. gen[d]

Dispatch == \E r \in Run : ValidateDevices(r) \/ MaterializeJobs(r)

AgentCall ==
  \E j \in Job :
    \/ \E i \in Instance : ClaimJob(j, i)
    \/ RecoveryReads(j)
    \/ \E t \in Tokens(devOf[j]) :
         \/ \E i \in Instance :
              \/ ExtendLease(j, t, i)
              \/ RecoverAbort(j, t, i)
              \/ RecoverResume(j, t, i)
              \/ RecoverTakeover(j, t, i)
         \/ \E p \in Payload :
              \/ \E opens \in BOOLEAN : CompleteJob(j, t, p, opens) \/ CompleteLate(j, t, p, opens)
              \/ LateConfirmed(j, t, p)
         \/ \E opens \in BOOLEAN :
              \/ RecoverBootMismatch(j, t, opens) \/ RecoverCleanup(j, t, opens)
              \/ \E closed \in SUBSET owed[devOf[j]] : InitCheck(j, t, closed, opens)

Supervise ==
  \E j \in Job :
    \/ ExpireToUnknown(j)
    \/ ReapAborted(j)
    \/ RunningTimeout(j)
    \/ PendingTimeout(j)
    \/ \E opens \in BOOLEAN : FinalizeExpired(j, opens) \/ FinalizeStale(j, opens)

TimePasses == \E j \in Job : LeaseExpires(j) \/ GraceExpires(j)

Abort ==
  \/ \E r \in Run : AbortQueued(r) \/ AbortRun(r) \/ \E h \in Host : AbortHost(r, h)
  \/ \E w \in window : AbortPending(w) \/ AbortInterrupted(w)

Administer ==
  \E d \in Device :
    \/ \E closed \in SUBSET owed[d] :
         Override(d, closed) \/ \E t \in Tokens(d) : Discharge(d, t, closed)
    \/ RetireDevice(d)
    \/ UnretireDevice(d)
    \/ \E opens, recorded \in BOOLEAN : InitReturn(d, opens, recorded)

Next == Dispatch \/ AgentCall \/ Supervise \/ TimePasses \/ Abort \/ Administer

\* The reconciler is a periodic job of the scheduler and time passes; nothing
\* is assumed of Agents, of administrators, or of the dispatcher.
Fairness ==
  \A j \in Job :
    /\ WF_vars(GraceExpires(j))
    /\ WF_vars(ReapAborted(j))
    /\ WF_vars(ExpireToUnknown(j))
    /\ WF_vars(\E opens \in BOOLEAN : FinalizeStale(j, opens))

Spec == Init /\ [][Next]_vars
FairSpec == Spec /\ Fairness

-----------------------------------------------------------------------------
(* Invariants. *)

Debts == (Job \X Nat) \cup {Stock}
Window == [run : Run, pending : SUBSET Job, running : SUBSET Job]

\* Every variable stays in its type.
TypeOK ==
  /\ phase \in [Run -> {"QUEUED", "VALIDATED", "STARTED", "FAILED"}]
  /\ status \in [Job -> {"ABSENT"} \cup Active \cup Terminal]
  /\ fact \in [Job -> Payload \cup {NoPayload}]
  /\ grace \in [Job -> BOOLEAN]
  /\ leaseSt \in [Job -> {"NONE", "ACTIVE", "RELEASED", "CONVERTED"}]
  /\ tok \in [Job -> Nat]
  /\ inst \in [Job -> Instance \cup {""}]
  /\ fresh \in [Job -> BOOLEAN]
  /\ gen \in [Device -> Nat]
  /\ retired \in [Device -> BOOLEAN]
  /\ owed \in [Device -> SUBSET Debts]
  /\ debtTok \in [Device -> Nat]
  /\ clock \in [Run -> BOOLEAN]
  /\ requested \in [Run -> SUBSET Job]
  /\ hostClock \subseteq Run \X Host
  /\ window \subseteq Window
  /\ seen \in [Job -> {"nothing", "clear", "aborted"}]

\* No two holders: acquisition, conversion and restoration each keep the
\* device to one ACTIVE lease, without leaning on the unique index.
LeaseExclusion ==
  \A d \in Device :
    /\ \A j, k \in JobsOn(d) : Leased(j) /\ Leased(k) => j = k
    /\ debtTok[d] # 0 => \A j \in JobsOn(d) : ~Leased(j)

\* A job that may be executing holds its device, and a job that ended or
\* never started holds none: no path forgets the lease, none drops it early.
LeaseFollowsJob ==
  \A j \in Job :
    /\ status[j] = "RUNNING" => Leased(j)
    /\ Leased(j) => status[j] \in {"RUNNING", "UNKNOWN"}

\* Fencing: the token in force on a device is the newest one ever issued for
\* it, so that whoever holds an older one has lost every right on the device.
NewestToken ==
  \A d \in Device :
    /\ \A j \in JobsOn(d) : Leased(j) => tok[j] = gen[d]
    /\ debtTok[d] # 0 => debtTok[d] = gen[d]

\* A device in service that owes a return is never free to be claimed: the
\* debt lease holds it, or the job under which the debt was opened still does.
\* Retirement lets go of the debt lease and keeps the debts.
DebtHoldsDevice ==
  \A d \in Device :
    /\ owed[d] # {} /\ ~retired[d] => Busy(d)
    /\ debtTok[d] # 0 => ~retired[d]

\* A retired device executes nothing, although dispatch may still have
\* materialised a job on it after its last look at retired_at.
RetiredDeviceIdle ==
  \A j \in Job : retired[devOf[j]] => status[j] \notin {"RUNNING", "UNKNOWN"}

-----------------------------------------------------------------------------
(* Action properties. *)

\* A terminal status and the fact it was reached with are never rewritten,
\* by no late report, reaper, timeout or abort that raced with the end.
TerminalFactsStand ==
  [][\A j \in Job : status[j] \in Terminal =>
       status'[j] = status[j] /\ fact'[j] = fact[j]]_vars

\* resume_expired_lease_for_recovery is "the ONLY place that refreshes an
\* expired lease": a renewal that lost the race with expiry revives nothing.
OnlyRecoveryRevives ==
  [][\A j \in Job : Leased(j) /\ ~fresh[j] /\ fresh'[j] =>
       status[j] = "UNKNOWN" /\ grace[j] /\ status'[j] = "RUNNING"]_vars

\* A completion is accepted only with the newest token of the device: never
\* from a worker fenced by a takeover, by a conversion or by the next job.
Reports(j, t) ==
  /\ ValidLease(j, t) \/ CanResume(j, t)
  /\ \E p \in Payload, opens \in BOOLEAN : AcceptCompletion(j, p, opens)

AcceptedUnderNewestToken ==
  [][\A j \in Job : \A t \in Tokens(devOf[j]) :
       Reports(j, t) => Leased(j) /\ t = gen[devOf[j]]]_vars

\* "durable abort intent forbids RESUME": a recovery that looks at a job it
\* could resume, after its run was aborted, decides against it.  The code keeps
\* the promise to the jobs that were RUNNING when abort_plan_run read them, and
\* not to one it read UNKNOWN.
AbortForbidsResume ==
  [][\A j \in Job : clock[runOf[j]] /\ CanResume(j, tok[j]) /\ RecoveryReads(j) =>
       seen'[j] = "aborted"]_vars

\* What is left of that promise: the abort of a host is never taken back, not by
\* a later abort of the run, and but for a recovery that read the run before it
\* and is still under way, none of its jobs starts executing again.
HostAbortForbidsResume ==
  [][/\ hostClock \subseteq hostClock'
     /\ \A j \in Job : <<runOf[j], hostOf[j]>> \in hostClock /\ seen[j] # "clear" =>
          /\ seen'[j] # "clear"
          /\ status[j] = "UNKNOWN" => status'[j] # "RUNNING"]_vars

-----------------------------------------------------------------------------
(* The leases implement the abstract lock. *)

Lock == INSTANCE DeviceLock WITH
  Owner <- Job, Debt <- "debt", Result <- Payload, NoResult <- NoPayload,
  holders <- [d \in Device |-> {j \in JobsOn(d) : Leased(j)}
                              \cup IF debtTok[d] # 0 THEN {"debt"} ELSE {}],
  epoch <- gen,
  result <- fact

\* Every behaviour of the lease tables is one of the lock with fencing epochs.
LeasesImplementLock == Lock!Spec

-----------------------------------------------------------------------------
(* Liveness, under FairSpec. *)

\* UNKNOWN is no resting place: a job is resumed, reported or failed.
UnknownResolves == \A j \in Job : status[j] = "UNKNOWN" ~> status[j] # "UNKNOWN"

\* A job under a host abort reaches a terminal status although no Agent ever
\* answers, and no second abort takes that away.
HostAbortDrains ==
  \A j \in Job :
    (status[j] = "RUNNING" /\ <<runOf[j], hostOf[j]>> \in hostClock) ~> status[j] \in Terminal
=============================================================================
