--------------------------- MODULE DeviceLock_proofs ---------------------------
(***************************************************************************)
(* What a step of the lease tables may never do to a job or to a device:   *)
(* rewrite a terminal status, revive a lease outside the recovery, or move *)
(* a device's holder in a way that the lock with fencing epochs does not.  *)
(***************************************************************************)
EXTENDS JobLease_proofs

\* A run whose jobs are still to be inserted has none.
NoJobBeforeDispatch ==
  \A j \in Job : phase[runOf[j]] \in {"QUEUED", "VALIDATED"} => status[j] = "ABSENT"

\* A report is kept of an ended job only.
FactOfEnded == \A j \in Job : fact[j] # NoPayload => status[j] \in Terminal

FactInv == NoJobBeforeDispatch /\ FactOfEnded
-----------------------------------------------------------------------------
LEMMA FactInit == Init => FactInv
<1> SUFFICES ASSUME Init, NEW j \in Job
             PROVE  status[j] = "ABSENT" /\ fact[j] = NoPayload
  BY DEF FactInv, NoJobBeforeDispatch, FactOfEnded
<1> QED  BY DEF Init

\* What a step does to the jobs, their reports and the phase of their runs.
FactMove ==
  /\ \A j \in Job :
       /\ status[j] \in Terminal => status'[j] = status[j] /\ fact'[j] = fact[j]
       /\ status[j] = "ABSENT" /\ status'[j] # "ABSENT" => phase'[runOf[j]] = "STARTED"
       /\ fact'[j] # fact[j] => status'[j] \in Terminal
  /\ \A r \in Run :
       phase'[r] \in {"QUEUED", "VALIDATED"} => phase[r] \in {"QUEUED", "VALIDATED"}

\* A step that leaves reports and phases alone, and moves live jobs only.
LEMMA LiveMove ==
  ASSUME UNCHANGED <<phase, fact>>,
         \A j \in Job : status'[j] # status[j] =>
                          status[j] \in Active /\ status'[j] # "ABSENT"
  PROVE  FactMove
  BY DEF FactMove, Active, Terminal

\* The end of one live job, with or without a report.
LEMMA EndMove ==
  ASSUME TypeOK, NEW j \in Job, NEW s \in Terminal, NEW p,
         status[j] \in Active, UNCHANGED phase,
         status' = [status EXCEPT ![j] = s], fact' = [fact EXCEPT ![j] = p]
  PROVE  FactMove
  BY DEF FactMove, TypeOK, Active, Terminal

LEMMA StatusStep ==
  ASSUME TypeOK, LeaseInv, FactInv, [Next]_vars
  PROVE  FactMove
<1> USE DEF leaseVars, deviceVars, requestVars, abortVars, jobVars
<1>0. \A j \in Job : Leased(j) => status[j] \in Active
  BY DEF LeaseInv, LeaseFollowsJob, Active
<1>1. ASSUME NEW r \in Run, ValidateDevices(r) \/ AbortQueued(r) PROVE FactMove
  <2>1. UNCHANGED <<status, fact>>
    BY <1>1 DEF ValidateDevices, AbortQueued
  <2>2. \A q \in Run : phase'[q] # phase[q] => phase[q] = "QUEUED"
    BY <1>1 DEF ValidateDevices, AbortQueued, TypeOK
  <2> QED  BY <2>1, <2>2 DEF FactMove
<1>2. ASSUME NEW r \in Run, MaterializeJobs(r) PROVE FactMove
  <2>1. fact' = fact /\ \A q \in Run : phase'[q] # phase[q] => phase[q] = "VALIDATED"
    BY <1>2 DEF MaterializeJobs, TypeOK
  <2>2. ASSUME NEW j \in Job, status'[j] # status[j]
        PROVE  status[j] = "ABSENT" /\ phase'[runOf[j]] = "STARTED"
    <3>1. runOf[j] = r /\ phase' = [phase EXCEPT ![r] = "STARTED"]
      BY <1>2, <2>2 DEF MaterializeJobs, JobsOfRun
    <3>2. phase[r] = "VALIDATED"
      BY <1>2 DEF MaterializeJobs
    <3> QED  BY <3>1, <3>2 DEF FactInv, NoJobBeforeDispatch, TypeOK
  <2> QED  BY <2>1, <2>2 DEF FactMove, Terminal
<1>3. ASSUME NEW j \in Job, NEW i \in Instance, ClaimJob(j, i) PROVE FactMove
  <2>1. status[j] = "PENDING" /\ status' = [status EXCEPT ![j] = "RUNNING"]
    BY <1>3 DEF ClaimJob, Claimable
  <2> QED  BY <1>3, <2>1, LiveMove DEF ClaimJob, TypeOK, Active
<1>4. ASSUME NEW j \in Job, NEW i \in Instance, NEW t,
             ExtendLease(j, t, i) \/ RecoverAbort(j, t, i) \/ RecoverTakeover(j, t, i)
      PROVE  FactMove
  BY <1>4, LiveMove DEF ExtendLease, RecoverAbort, RecoverTakeover
<1>5. ASSUME NEW j \in Job, NEW i \in Instance, NEW t, RecoverResume(j, t, i) PROVE FactMove
  <2>1. status[j] = "UNKNOWN" /\ status' = [status EXCEPT ![j] = "RUNNING"]
    BY <1>5 DEF RecoverResume, CanResume, SetStatus
  <2> QED  BY <1>5, <2>1, LiveMove DEF RecoverResume, TypeOK, Active
<1>6. ASSUME NEW j \in Job, NEW p \in Payload, NEW opens \in BOOLEAN, NEW t,
             CompleteJob(j, t, p, opens) \/ CompleteLate(j, t, p, opens)
      PROVE  FactMove
  <2>1. outcome[p] \in Terminal
    BY ConstantsAssumption
  <2>2. status[j] \in Active /\ AcceptCompletion(j, p, opens)
    BY <1>6 DEF CompleteJob, CompleteLate, ValidLease, CanResume, Active
  <2> QED  BY <2>1, <2>2, EndMove DEF AcceptCompletion, SetStatus
<1>7. ASSUME NEW j \in Job, NEW opens \in BOOLEAN, NEW t,
             \/ RecoverBootMismatch(j, t, opens) \/ FinalizeExpired(j, opens)
             \/ FinalizeStale(j, opens) \/ PendingTimeout(j)
      PROVE  FactMove
  <2>1. status' = [status EXCEPT ![j] = "FAILED"] /\ UNCHANGED <<phase, fact>>
    BY <1>7 DEF RecoverBootMismatch, FinalizeExpired, FinalizeStale, PendingTimeout, SetStatus
  <2>2. status[j] \in Active
    BY <1>0, <1>7 DEF RecoverBootMismatch, FinalizeExpired, FinalizeStale, PendingTimeout,
                      Owns, Overdue, Active
  <2> QED  BY <2>1, <2>2, LiveMove DEF TypeOK
<1>8. ASSUME NEW j \in Job, NEW opens \in BOOLEAN, NEW t, RecoverCleanup(j, t, opens)
      PROVE  FactMove
  BY <1>8, LiveMove DEF RecoverCleanup
<1>9. ASSUME NEW j \in Job, ExpireToUnknown(j) \/ ReapAborted(j) \/ RunningTimeout(j)
      PROVE  FactMove
  <2>1. ToUnknown(j)
    BY <1>9 DEF ExpireToUnknown, ReapAborted, RunningTimeout
  <2> QED  BY <2>1, LiveMove DEF ToUnknown, TypeOK, Active
<1>10. ASSUME NEW w \in window, AbortPending(w) PROVE FactMove
  <2>1. \A j \in Job : status'[j] # status[j] => status[j] = "PENDING" /\ status'[j] = "ABORTED"
    BY <1>10 DEF AbortPending
  <2> QED  BY <1>10, <2>1, LiveMove DEF AbortPending, Active
<1>11. ASSUME \/ \E j \in Job : LeaseExpires(j) \/ GraceExpires(j)
              \/ \E r \in Run : AbortRun(r) \/ \E h \in Host : AbortHost(r, h)
              \/ \E w \in window : AbortInterrupted(w)
       PROVE  FactMove
  BY <1>11, LiveMove DEF LeaseExpires, GraceExpires, AbortRun, AbortHost, AbortInterrupted
<1>12. ASSUME \/ \E j \in Job, p \in Payload : \E t \in Tokens(devOf[j]) : LateConfirmed(j, t, p)
              \/ Administer
       PROVE  FactMove
  BY <1>12, LiveMove DEF LateConfirmed, Administer, Override, Discharge, CloseDebts,
                         RetireDevice, UnretireDevice, InitReturn
<1>13. ASSUME NEW j \in Job,
              \/ RecoveryReads(j)
              \/ \E t, S : \E opens \in BOOLEAN : InitCheck(j, t, S, opens)
       PROVE  FactMove
  BY <1>13, LiveMove DEF RecoveryReads, InitCheck
<1>14. UNCHANGED vars => FactMove
  BY LiveMove DEF vars
<1> QED  BY <1>1, <1>2, <1>3, <1>4, <1>5, <1>6, <1>7, <1>8, <1>9, <1>10, <1>11, <1>12, <1>13,
            <1>14
         DEF Next, Dispatch, AgentCall, Supervise, TimePasses, Abort

LEMMA FactStep ==
  ASSUME TypeOK, LeaseInv, FactInv, [Next]_vars
  PROVE  FactInv'
<1>1. FactMove
  BY StatusStep
<1>2. NoJobBeforeDispatch'
  BY <1>1, ConstantsAssumption DEF FactMove, FactInv, NoJobBeforeDispatch
<1>3. FactOfEnded'
  BY <1>1 DEF FactMove, FactInv, FactOfEnded
<1> QED  BY <1>2, <1>3 DEF FactInv

\* The lease invariant with what it says of reports and of dispatch.
THEOREM FactsCorrect == Spec => [](TypeOK /\ LeaseInv /\ FactInv)
<1>1. Init => TypeOK /\ LeaseInv /\ FactInv
  BY TypeInit, InitInv, FactInit
<1>2. TypeOK /\ LeaseInv /\ FactInv /\ [Next]_vars => (TypeOK /\ LeaseInv /\ FactInv)'
  BY TypeStep, LeaseStep, FactStep
<1> QED  BY <1>1, <1>2, PTL DEF Spec

\* A terminal status and the report it was reached with are never rewritten
\* (complete_agent_job, sync_agent_recovery, the reconciler, abort_plan_run).
THEOREM TerminalIsFinal == Spec => TerminalFactsStand
<1>1. TypeOK /\ LeaseInv /\ FactInv /\ [Next]_vars =>
        [\A j \in Job : status[j] \in Terminal =>
           status'[j] = status[j] /\ fact'[j] = fact[j]]_vars
  BY StatusStep DEF FactMove
<1> QED  BY <1>1, FactsCorrect, PTL DEF Spec, TerminalFactsStand
-----------------------------------------------------------------------------
(* Revival of an expired lease. *)

\* A lease that was not in force is so after this step.
Revived(j) == Leased(j) /\ ~fresh[j] /\ fresh'[j]

LEMMA OnlyResumeRevives ==
  ASSUME TypeOK, [Next]_vars, NEW j \in Job, Revived(j)
  PROVE  \E i \in Instance, t \in Tokens(devOf[j]) : RecoverResume(j, t, i)
<1> USE DEF leaseVars, deviceVars, requestVars, abortVars, jobVars
<1>1. ASSUME NEW k \in Job, NEW i \in Instance, ClaimJob(k, i) PROVE FALSE
  <2>1. ~Leased(k) /\ fresh' = [fresh EXCEPT ![k] = TRUE]
    BY <1>1, JobsOnDevice DEF ClaimJob, Claimable, Busy
  <2> QED  BY <2>1 DEF Revived, TypeOK
<1>2. ASSUME NEW k \in Job, NEW i \in Instance, NEW t, ExtendLease(k, t, i) PROVE FALSE
  BY <1>2 DEF ExtendLease, CanExtend, ValidLease, Revived, TypeOK
<1>3. ASSUME NEW k \in Job, NEW i \in Instance, NEW t \in Tokens(devOf[k]), RecoverResume(k, t, i)
      PROVE  \E n \in Instance, u \in Tokens(devOf[j]) : RecoverResume(j, u, n)
  <2>1. k = j
    BY <1>3 DEF RecoverResume, Revived, TypeOK
  <2> QED  BY <1>3, <2>1
<1>4. ASSUME NEW k \in Job, NEW opens \in BOOLEAN, HandleRelease(k, opens) PROVE FALSE
  BY <1>4 DEF HandleRelease, Revived, TypeOK
<1>5. ASSUME NEW k \in Job, LeaseExpires(k) PROVE FALSE
  BY <1>5 DEF LeaseExpires, Revived, TypeOK
<1>6. UNCHANGED fresh => FALSE
  BY DEF Revived
<1>7. ASSUME NEW r \in Run, NEW h \in Host,
             ValidateDevices(r) \/ MaterializeJobs(r) \/ AbortQueued(r) \/ AbortRun(r) \/ AbortHost(r, h)
      PROVE  FALSE
  BY <1>6, <1>7 DEF ValidateDevices, MaterializeJobs, AbortQueued, AbortRun, AbortHost
<1>8. ASSUME NEW r \in Run,
             ValidateDevices(r) \/ MaterializeJobs(r) \/ AbortQueued(r) \/ AbortRun(r)
      PROVE  FALSE
  BY <1>6, <1>8 DEF ValidateDevices, MaterializeJobs, AbortQueued, AbortRun
<1>9. ASSUME NEW k \in Job, NEW i \in Instance, NEW t, RecoverAbort(k, t, i) \/ RecoverTakeover(k, t, i)
      PROVE  FALSE
  BY <1>6, <1>9 DEF RecoverAbort, RecoverTakeover
<1>10. ASSUME NEW k \in Job, NEW p \in Payload, NEW opens \in BOOLEAN, NEW t,
              CompleteJob(k, t, p, opens) \/ CompleteLate(k, t, p, opens)
       PROVE  FALSE
  BY <1>4, <1>10 DEF CompleteJob, CompleteLate, AcceptCompletion
<1>11. ASSUME NEW k \in Job, NEW p \in Payload, NEW t, LateConfirmed(k, t, p) PROVE FALSE
  BY <1>6, <1>11 DEF LateConfirmed
<1>12. ASSUME NEW k \in Job, NEW opens \in BOOLEAN, NEW t,
              \/ RecoverBootMismatch(k, t, opens) \/ RecoverCleanup(k, t, opens)
              \/ FinalizeExpired(k, opens) \/ FinalizeStale(k, opens) \/ PendingTimeout(k)
       PROVE  FALSE
  BY <1>4, <1>6, <1>12 DEF RecoverBootMismatch, RecoverCleanup, FinalizeExpired, FinalizeStale,
                           PendingTimeout
<1>13. ASSUME NEW k \in Job,
              ExpireToUnknown(k) \/ ReapAborted(k) \/ RunningTimeout(k) \/ GraceExpires(k)
       PROVE  FALSE
  BY <1>6, <1>13 DEF ExpireToUnknown, ReapAborted, RunningTimeout, ToUnknown, GraceExpires
<1>14. ASSUME NEW w \in window, AbortPending(w) \/ AbortInterrupted(w) PROVE FALSE
  BY <1>6, <1>14 DEF AbortPending, AbortInterrupted
<1>15. Administer => FALSE
  BY <1>6 DEF Administer, Override, Discharge, CloseDebts, RetireDevice, UnretireDevice,
              InitReturn
<1>16. ASSUME NEW k \in Job,
              \/ RecoveryReads(k)
              \/ \E t, S : \E opens \in BOOLEAN : InitCheck(k, t, S, opens)
       PROVE  FALSE
  BY <1>6, <1>16 DEF RecoveryReads, InitCheck
<1>17. UNCHANGED vars => FALSE
  BY <1>6 DEF vars
<1> QED  BY <1>1, <1>2, <1>3, <1>5, <1>7, <1>8, <1>9, <1>10, <1>11, <1>12, <1>13, <1>14, <1>15,
            <1>16, <1>17
         DEF Next, Dispatch, AgentCall, Supervise, TimePasses, Abort

\* An expired lease comes back by the recovery of an UNKNOWN job within its
\* grace period, and in no other way (resume_expired_lease_for_recovery).
THEOREM RevivalIsRecovery == Spec => OnlyRecoveryRevives
<1>1. ASSUME TypeOK, [Next]_vars, NEW j \in Job, Leased(j), ~fresh[j], fresh'[j]
      PROVE  status[j] = "UNKNOWN" /\ grace[j] /\ status'[j] = "RUNNING"
  <2>1. PICK i \in Instance, t \in Tokens(devOf[j]) : RecoverResume(j, t, i)
    BY <1>1, OnlyResumeRevives DEF Revived
  <2> QED  BY <1>1, <2>1 DEF RecoverResume, CanResume, SetStatus, TypeOK
<1>2. TypeOK /\ [Next]_vars =>
        [\A j \in Job : Leased(j) /\ ~fresh[j] /\ fresh'[j] =>
           status[j] = "UNKNOWN" /\ grace[j] /\ status'[j] = "RUNNING"]_vars
  BY <1>1
<1> QED  BY <1>2, TypeCorrect, PTL DEF Spec, OnlyRecoveryRevives
-----------------------------------------------------------------------------
(* Durable aborts. *)

\* No abort of a host is taken back, a recovery finds a job clear only when no
\* abort covers it, and an UNKNOWN job runs again only if one found it so.
AbortMove ==
  /\ hostClock \subseteq hostClock'
  /\ \A j \in Job : seen'[j] = "clear" => seen[j] = "clear" \/ ~Covered(j)
  /\ \A j \in Job : status[j] = "UNKNOWN" /\ status'[j] = "RUNNING" => seen[j] = "clear"

\* A step that finds nothing clear and sets no job to RUNNING.
LEMMA QuietMove ==
  ASSUME hostClock \subseteq hostClock',
         \A j \in Job : seen'[j] \in {seen[j], "nothing"},
         \A j \in Job : status'[j] \in {status[j], "PENDING", "UNKNOWN"} \cup Terminal
  PROVE  AbortMove
  BY DEF AbortMove, Terminal

\* What a release does to what recoveries have read.
LEMMA ReleaseForgets ==
  ASSUME TypeOK, NEW j \in Job, NEW opens \in BOOLEAN, HandleRelease(j, opens)
  PROVE  \A k \in Job : seen'[k] \in {seen[k], "nothing"}
  BY DEF HandleRelease, TypeOK

\* The end of a job, with or without a lease to release.
LEMMA EndedMove ==
  ASSUME TypeOK, NEW j \in Job, NEW s \in Terminal, SetStatus(j, s), UNCHANGED hostClock,
         seen' = seen \/ \E opens \in BOOLEAN : HandleRelease(j, opens)
  PROVE  AbortMove
<1>1. \A k \in Job : seen'[k] \in {seen[k], "nothing"}
  BY ReleaseForgets
<1>2. \A k \in Job : status'[k] \in {status[k]} \cup Terminal
  BY DEF SetStatus, TypeOK
<1> QED  BY <1>1, <1>2, QuietMove

LEMMA AbortStep ==
  ASSUME TypeOK, [Next]_vars
  PROVE  AbortMove
<1> USE DEF leaseVars, deviceVars, requestVars, abortVars, jobVars
<1>1. ASSUME NEW j \in Job, NEW i \in Instance, ClaimJob(j, i) PROVE AbortMove
  <2>1. /\ status[j] = "PENDING" /\ status' = [status EXCEPT ![j] = "RUNNING"]
        /\ UNCHANGED <<hostClock, seen>>
    BY <1>1 DEF ClaimJob, Claimable
  <2> QED  BY <2>1 DEF AbortMove, TypeOK
<1>2. ASSUME NEW j \in Job, NEW i \in Instance, NEW t, RecoverResume(j, t, i) PROVE AbortMove
  <2>1. /\ seen[j] = "clear" /\ status' = [status EXCEPT ![j] = "RUNNING"]
        /\ seen' = [seen EXCEPT ![j] = "nothing"] /\ UNCHANGED hostClock
    BY <1>2 DEF RecoverResume, DecidedOn, SetStatus
  <2> QED  BY <2>1 DEF AbortMove, TypeOK
<1>3. ASSUME NEW j \in Job, RecoveryReads(j) PROVE AbortMove
  <2>1. /\ UNCHANGED <<status, hostClock>>
        /\ \/ ~Covered(j) /\ seen' = [seen EXCEPT ![j] = "clear"]
           \/ seen' = [seen EXCEPT ![j] = "aborted"]
    BY <1>3 DEF RecoveryReads
  <2> QED  BY <2>1 DEF AbortMove, TypeOK
<1>4. ASSUME NEW j \in Job, NEW p \in Payload, NEW opens \in BOOLEAN, NEW t,
             CompleteJob(j, t, p, opens) \/ CompleteLate(j, t, p, opens)
      PROVE  AbortMove
  <2>1. outcome[p] \in Terminal
    BY ConstantsAssumption
  <2> QED  BY <1>4, <2>1, EndedMove DEF CompleteJob, CompleteLate, AcceptCompletion
<1>5. ASSUME NEW j \in Job, NEW opens \in BOOLEAN, NEW t,
             \/ RecoverBootMismatch(j, t, opens) \/ FinalizeExpired(j, opens)
             \/ FinalizeStale(j, opens) \/ PendingTimeout(j)
      PROVE  AbortMove
  <2>1. /\ SetStatus(j, "FAILED") /\ UNCHANGED hostClock
        /\ seen' = seen \/ \E o \in BOOLEAN : HandleRelease(j, o)
    BY <1>5 DEF RecoverBootMismatch, FinalizeExpired, FinalizeStale, PendingTimeout
  <2> QED  BY <2>1, EndedMove DEF Terminal
<1>6. ASSUME NEW j \in Job, NEW opens \in BOOLEAN, NEW t, RecoverCleanup(j, t, opens)
      PROVE  AbortMove
  <2>1. UNCHANGED <<status, hostClock>> /\ HandleRelease(j, opens)
    BY <1>6 DEF RecoverCleanup
  <2> QED  BY <2>1, ReleaseForgets, QuietMove
<1>7. ASSUME NEW j \in Job, NEW i \in Instance, NEW t,
             RecoverAbort(j, t, i) \/ RecoverTakeover(j, t, i)
      PROVE  AbortMove
  <2>1. UNCHANGED <<status, hostClock>> /\ seen' = [seen EXCEPT ![j] = "nothing"]
    BY <1>7 DEF RecoverAbort, RecoverTakeover, DecidedOn
  <2>2. \A k \in Job : seen'[k] \in {seen[k], "nothing"}
    BY <2>1 DEF TypeOK
  <2> QED  BY <2>1, <2>2, QuietMove
<1>8. UNCHANGED <<status, hostClock, seen>> => AbortMove
  BY QuietMove
<1>9. ASSUME NEW j \in Job, NEW i \in Instance, NEW t, ExtendLease(j, t, i) PROVE AbortMove
  BY <1>8, <1>9 DEF ExtendLease
<1>10. ASSUME NEW j \in Job, NEW t,
              \/ \E p \in Payload : LateConfirmed(j, t, p)
              \/ \E S : \E opens \in BOOLEAN : InitCheck(j, t, S, opens)
       PROVE  AbortMove
  BY <1>8, <1>10 DEF LateConfirmed, InitCheck
<1>11. CASE AgentCall
  BY <1>1, <1>2, <1>3, <1>4, <1>5, <1>6, <1>7, <1>9, <1>10, <1>11 DEF AgentCall
<1>12. ASSUME NEW j \in Job, ExpireToUnknown(j) \/ ReapAborted(j) \/ RunningTimeout(j)
       PROVE  AbortMove
  <2>1. ToUnknown(j)
    BY <1>12 DEF ExpireToUnknown, ReapAborted, RunningTimeout
  <2> QED  BY <2>1, QuietMove DEF ToUnknown, TypeOK
<1>13. CASE Supervise
  BY <1>5, <1>12, <1>13 DEF Supervise
<1>14. ASSUME NEW r \in Run, MaterializeJobs(r) PROVE AbortMove
  BY <1>14, QuietMove DEF MaterializeJobs
<1>15. ASSUME NEW w \in window, AbortPending(w) PROVE AbortMove
  BY <1>15, QuietMove DEF AbortPending, Terminal
<1>16. ASSUME NEW r \in Run, NEW h \in Host, AbortHost(r, h) PROVE AbortMove
  <2>1. hostClock \subseteq hostClock' /\ UNCHANGED <<status, seen>>
    BY <1>16 DEF AbortHost
  <2> QED  BY <2>1, QuietMove
<1>17. ASSUME \/ \E j \in Job : LeaseExpires(j) \/ GraceExpires(j)
              \/ \E r \in Run : ValidateDevices(r) \/ AbortQueued(r) \/ AbortRun(r)
              \/ \E w \in window : AbortInterrupted(w)
              \/ Administer
       PROVE  AbortMove
  <2>1. UNCHANGED <<status, hostClock, seen>>
    BY <1>17 DEF LeaseExpires, GraceExpires, ValidateDevices, AbortQueued, AbortRun,
                 AbortInterrupted, Administer, Override, Discharge, CloseDebts, RetireDevice,
                 UnretireDevice, InitReturn
  <2> QED  BY <1>8, <2>1
<1>18. CASE Dispatch \/ TimePasses \/ Abort \/ Administer
  BY <1>14, <1>15, <1>16, <1>17, <1>18 DEF Dispatch, TimePasses, Abort
<1>19. CASE UNCHANGED vars
  BY <1>8, <1>19 DEF vars
<1> QED  BY <1>11, <1>13, <1>18, <1>19 DEF Next

\* "durable abort intent forbids RESUME" (agent_recovery.py), of a host's abort:
\* it stays, no recovery that looks at a job under it finds the job clear, and
\* only one that has looked before it can still set the job back to RUNNING.
THEOREM HostAbortIsDurable == Spec => HostAbortForbidsResume
<1>1. TypeOK /\ [Next]_vars =>
        [/\ hostClock \subseteq hostClock'
         /\ \A j \in Job : <<runOf[j], hostOf[j]>> \in hostClock /\ seen[j] # "clear" =>
              /\ seen'[j] # "clear"
              /\ status[j] = "UNKNOWN" => status'[j] # "RUNNING"]_vars
  BY AbortStep DEF AbortMove, Covered
<1> QED  BY <1>1, TypeCorrect, PTL DEF Spec, HostAbortForbidsResume
-----------------------------------------------------------------------------
(* The lock.  Its state is a function of the lease tables. *)

HoldersOf(d) ==
  {j \in JobsOn(d) : Leased(j)} \cup IF debtTok[d] # 0 THEN {"debt"} ELSE {}

Holders == [d \in Device |-> HoldersOf(d)]

Granted(d, S) == Holders' = [Holders EXCEPT ![d] = S] /\ gen' = [gen EXCEPT ![d] = @ + 1]
Dropped(d) == Holders[d] # {} /\ Holders' = [Holders EXCEPT ![d] = {}] /\ gen' = gen

LEMMA GrantOrDrop ==
  ASSUME NEW d \in Device
  PROVE  /\ \A S : Granted(d, S) => Lock!Grant(d, S)
         /\ Dropped(d) => Lock!Drop(d)
  BY DEF Granted, Dropped, Lock!Grant, Lock!Drop, Holders, HoldersOf

\* The steps of the lock.
LEMMA LockSteps ==
  ASSUME NEW d \in Device, NEW j \in Job
  PROVE  /\ HoldersOf(d) = {} /\ Granted(d, {j}) /\ fact' = fact => Lock!Next
         /\ HoldersOf(d) # {} /\ Granted(d, HoldersOf(d)) /\ fact' = fact => Lock!Next
         /\ HoldersOf(d) # {"debt"} /\ Granted(d, {"debt"}) /\ fact' = fact => Lock!Next
         /\ Dropped(d) /\ fact' = fact => Lock!Next
         /\ \A p \in Payload :
              /\ HoldersOf(d) = {j} /\ fact[j] = NoPayload /\ fact' = [fact EXCEPT ![j] = p]
              /\ Dropped(d) \/ Granted(d, {"debt"})
              => Lock!Next
<1>1. HoldersOf(d) = {} /\ Granted(d, {j}) /\ fact' = fact => Lock!Acquire(d, j)
  BY GrantOrDrop DEF Lock!Acquire, HoldersOf
<1>2. HoldersOf(d) # {} /\ Granted(d, HoldersOf(d)) /\ fact' = fact => Lock!Refence(d)
  BY DEF Lock!Refence, Lock!Grant, Granted, Holders, HoldersOf
<1>3. HoldersOf(d) # {"debt"} /\ Granted(d, {"debt"}) /\ fact' = fact => Lock!KeepBack(d)
  BY GrantOrDrop DEF Lock!KeepBack, HoldersOf
<1>4. Dropped(d) /\ fact' = fact => Lock!Free(d)
  BY GrantOrDrop DEF Lock!Free
<1>5. ASSUME NEW p \in Payload,
             HoldersOf(d) = {j}, fact[j] = NoPayload, fact' = [fact EXCEPT ![j] = p],
             Dropped(d) \/ Granted(d, {"debt"})
      PROVE  Lock!Commit(d, j, p)
  BY <1>5, GrantOrDrop DEF Lock!Commit, HoldersOf
<1> QED  BY <1>1, <1>2, <1>3, <1>4, <1>5 DEF Lock!Next

LEMMA Moves ==
  ASSUME NEW d \in Device, NEW S, HoldersOf(d)' = S,
         \A e \in Device \ {d} : HoldersOf(e)' = HoldersOf(e)
  PROVE  Holders' = [Holders EXCEPT ![d] = S]
  BY DEF Holders

LEMMA HolderIsJob ==
  ASSUME LeaseInv, NEW j \in Job, Leased(j)
  PROVE  HoldersOf(devOf[j]) = {j} /\ debtTok[devOf[j]] = 0
  BY JobsOnDevice DEF LeaseInv, LeaseExclusion, HoldersOf

\* The lock does not move.
LEMMA Stutters ==
  ASSUME UNCHANGED <<leaseSt, debtTok, gen, fact>>
  PROVE  UNCHANGED Lock!lockVars
  BY DEF Lock!lockVars, JobsOn, Leased

\* handle_job_lease_release of a lease that stands: dropped, or kept back.
LEMMA ReleaseMoves ==
  ASSUME TypeOK, LeaseInv, NEW j \in Job, NEW opens \in BOOLEAN, Leased(j), HandleRelease(j, opens)
  PROVE  Dropped(devOf[j]) \/ Granted(devOf[j], {"debt"})
<1> DEFINE d == devOf[j]
           open == IF opens THEN owed[d] \cup {<<j, tok[j]>>} ELSE owed[d]
           debt == open # {}
<1>1. d \in Device /\ HoldersOf(d) = {j} /\ debtTok[d] = 0
  BY HolderIsJob, JobsOnDevice
<1>2. /\ leaseSt' = [leaseSt EXCEPT ![j] = IF debt THEN "CONVERTED" ELSE "RELEASED"]
      /\ gen' = IF debt THEN [gen EXCEPT ![d] = @ + 1] ELSE gen
      /\ debtTok' = IF debt THEN [debtTok EXCEPT ![d] = gen[d] + 1] ELSE debtTok
  BY DEF HandleRelease
<1>3. \A k \in Job : Leased(k)' <=> Leased(k) /\ k # j
  BY <1>2 DEF Leased, TypeOK
<1>4. \A e \in Device \ {d} : HoldersOf(e)' = HoldersOf(e)
  <2> SUFFICES ASSUME NEW e \in Device \ {d} PROVE HoldersOf(e)' = HoldersOf(e)
    OBVIOUS
  <2>1. debtTok'[e] = debtTok[e]
    BY <1>1, <1>2 DEF TypeOK
  <2>2. {k \in JobsOn(e) : Leased(k)}' = {k \in JobsOn(e) : Leased(k)}
    BY <1>3 DEF JobsOn
  <2> QED  BY <2>1, <2>2 DEF HoldersOf
<1>5. {k \in JobsOn(d) : Leased(k)}' = {}
  <2>1. \A k \in JobsOn(d) : Leased(k) => k = j
    BY <1>1 DEF HoldersOf
  <2> QED  BY <1>3, <2>1 DEF JobsOn
<1>6. CASE debt
  <2>1. debtTok'[d] = gen[d] + 1 /\ gen[d] \in Nat
    BY <1>1, <1>2, <1>6 DEF TypeOK
  <2>2. HoldersOf(d)' = {"debt"}
    BY <1>5, <2>1 DEF HoldersOf
  <2> QED  BY <1>1, <1>2, <1>4, <1>6, <2>2, Moves DEF Granted
<1>7. CASE ~debt
  <2>1. HoldersOf(d)' = {}
    BY <1>1, <1>2, <1>5, <1>7 DEF HoldersOf
  <2>2. Holders[d] # {}
    BY <1>1 DEF Holders
  <2> QED  BY <1>1, <1>2, <1>4, <1>7, <2>1, <2>2, Moves DEF Dropped
<1> QED  BY <1>6, <1>7

\* A rotation of the token fences the holder and keeps the device.
LEMMA RotationMoves ==
  ASSUME LeaseInv, NEW j \in Job, Leased(j), NewToken(j), UNCHANGED <<leaseSt, debtTok, fact>>
  PROVE  Lock!Next
<1>1. devOf[j] \in Device /\ HoldersOf(devOf[j]) = {j}
  BY HolderIsJob, JobsOnDevice
<1>2. Granted(devOf[j], HoldersOf(devOf[j]))
  <2>1. \A e \in Device : HoldersOf(e)' = HoldersOf(e)
    BY DEF HoldersOf, JobsOn, Leased
  <2> QED  BY <1>1, <2>1, Moves DEF Granted, NewToken
<1> QED  BY <1>1, <1>2, LockSteps

\* Closing debts frees the device when the last one goes.
LEMMA DebtMoves ==
  ASSUME TypeOK, LeaseInv, NEW d \in Device, UNCHANGED <<leaseSt, gen, fact>>,
         debtTok' = debtTok \/ debtTok' = [debtTok EXCEPT ![d] = 0]
  PROVE  Lock!Next \/ UNCHANGED Lock!lockVars
<1>1. CASE debtTok' = debtTok
  BY <1>1, Stutters
<1>2. CASE debtTok' # debtTok
  <2>1. debtTok' = [debtTok EXCEPT ![d] = 0] /\ debtTok[d] # 0
    <3>1. debtTok \in [Device -> Nat]
      BY DEF TypeOK
    <3>2. debtTok[d] = 0 => [debtTok EXCEPT ![d] = 0] = debtTok
      BY <3>1
    <3> QED  BY <1>2, <3>2
  <2>2. {k \in JobsOn(d) : Leased(k)} = {}
    BY <2>1 DEF LeaseInv, LeaseExclusion
  <2>3. \A e \in Device : {k \in JobsOn(e) : Leased(k)}' = {k \in JobsOn(e) : Leased(k)}
    BY DEF JobsOn, Leased
  <2>4. HoldersOf(d)' = {} /\ HoldersOf(d) = {"debt"}
    BY <2>1, <2>2, <2>3 DEF HoldersOf, TypeOK
  <2>5. \A e \in Device \ {d} : HoldersOf(e)' = HoldersOf(e)
    BY <2>1, <2>3 DEF HoldersOf, TypeOK
  <2>6. Holders[d] # {}
    BY <2>4 DEF Holders
  <2>7. Dropped(d)
    BY <2>4, <2>5, <2>6, Moves DEF Dropped
  <2>8. Lock!Free(d)
    BY <2>7, GrantOrDrop DEF Lock!Free
  <2> QED  BY <2>8 DEF Lock!Next
<1> QED  BY <1>1, <1>2

\* A device that nobody holds is kept back: a debt lease comes back with the
\* device, or an administrator's look at its history takes one.
LEMMA KeptBack ==
  ASSUME TypeOK, NEW d \in Device, ~Busy(d), UNCHANGED <<leaseSt, fact>>,
         debtTok' = [debtTok EXCEPT ![d] = gen[d] + 1], gen' = [gen EXCEPT ![d] = @ + 1]
  PROVE  Lock!Next
<1>1. {k \in JobsOn(d) : Leased(k)} = {} /\ debtTok[d] = 0
  BY DEF Busy
<1>2. \A e \in Device : {k \in JobsOn(e) : Leased(k)}' = {k \in JobsOn(e) : Leased(k)}
  BY DEF JobsOn, Leased
<1>3. debtTok'[d] # 0
  <2>1. debtTok'[d] = gen[d] + 1 /\ gen[d] \in Nat
    BY DEF TypeOK
  <2> QED  BY <2>1
<1>4. HoldersOf(d)' = {"debt"} /\ HoldersOf(d) = {}
  BY <1>1, <1>2, <1>3 DEF HoldersOf
<1>5. \A e \in Device \ {d} : HoldersOf(e)' = HoldersOf(e)
  BY <1>2 DEF HoldersOf, TypeOK
<1>6. Granted(d, {"debt"})
  BY <1>4, <1>5, Moves DEF Granted
<1>7. Lock!KeepBack(d)
  BY <1>4, <1>6, GrantOrDrop DEF Lock!KeepBack, HoldersOf
<1> QED  BY <1>7 DEF Lock!Next

LEMMA RestoreMoves ==
  ASSUME TypeOK, NEW d \in Device,
         \/ UnretireDevice(d)
         \/ \E opens, recorded \in BOOLEAN : InitReturn(d, opens, recorded)
  PROVE  Lock!Next \/ UNCHANGED Lock!lockVars
<1> USE DEF jobVars, leaseVars
<1>1. CASE UnretireDevice(d) /\ Restores(d)
  BY <1>1, KeptBack DEF UnretireDevice, Restores
<1>2. CASE UnretireDevice(d) /\ ~Restores(d)
  BY <1>2, Stutters DEF UnretireDevice
<1>3. ASSUME NEW opens \in BOOLEAN, NEW recorded \in BOOLEAN, InitReturn(d, opens, recorded)
      PROVE  Lock!Next \/ UNCHANGED Lock!lockVars
  <2>1. UNCHANGED <<leaseSt, fact>>
    BY <1>3 DEF InitReturn
  <2>2. \/ UNCHANGED <<debtTok, gen>>
        \/ /\ ~Busy(d)
           /\ debtTok' = [debtTok EXCEPT ![d] = gen[d] + 1] /\ gen' = [gen EXCEPT ![d] = @ + 1]
    BY <1>3 DEF InitReturn
  <2> QED  BY <2>1, <2>2, KeptBack, Stutters
<1> QED  BY <1>1, <1>2, <1>3

LEMMA StepIsLockStep ==
  ASSUME TypeOK, LeaseInv, FactInv, [Next]_vars
  PROVE  Lock!Next \/ UNCHANGED Lock!lockVars
<1> USE DEF leaseVars, deviceVars, requestVars, abortVars, jobVars
<1>1. ASSUME NEW j \in Job, NEW i \in Instance, ClaimJob(j, i) PROVE Lock!Next
  <2> DEFINE d == devOf[j]
  <2>1. d \in Device /\ j \in JobsOn(d) /\ ~Busy(d)
    BY <1>1, JobsOnDevice DEF ClaimJob, Claimable
  <2>2. leaseSt' = [leaseSt EXCEPT ![j] = "ACTIVE"] /\ UNCHANGED <<debtTok, fact>> /\ NewToken(j)
    BY <1>1 DEF ClaimJob
  <2>3. \A k \in Job : Leased(k)' <=> Leased(k) \/ k = j
    BY <2>2 DEF Leased, TypeOK
  <2>4. HoldersOf(d) = {} /\ HoldersOf(d)' = {j}
    <3>1. {k \in JobsOn(d) : Leased(k)} = {} /\ debtTok[d] = 0
      BY <2>1 DEF Busy
    <3>2. {k \in JobsOn(d) : Leased(k)}' = {j}
      BY <2>1, <2>3, <3>1 DEF JobsOn
    <3> QED  BY <2>2, <3>1, <3>2 DEF HoldersOf
  <2>5. \A e \in Device \ {d} : HoldersOf(e)' = HoldersOf(e)
    <3> SUFFICES ASSUME NEW e \in Device \ {d} PROVE HoldersOf(e)' = HoldersOf(e)
      OBVIOUS
    <3>1. {k \in JobsOn(e) : Leased(k)}' = {k \in JobsOn(e) : Leased(k)}
      BY <2>3 DEF JobsOn
    <3> QED  BY <2>2, <3>1 DEF HoldersOf
  <2>6. Granted(d, {j})
    BY <2>1, <2>2, <2>4, <2>5, Moves DEF Granted, NewToken
  <2> QED  BY <2>1, <2>2, <2>4, <2>6, LockSteps
<1>2. ASSUME NEW j \in Job, NEW i \in Instance, NEW t,
             RecoverAbort(j, t, i) \/ RecoverResume(j, t, i) \/ RecoverTakeover(j, t, i)
      PROVE  Lock!Next \/ UNCHANGED Lock!lockVars
  <2>1. Leased(j) /\ TakeOver(j, i) /\ UNCHANGED <<leaseSt, debtTok, fact>>
    BY <1>2 DEF RecoverAbort, RecoverResume, RecoverTakeover, Owns, CanResume
  <2>2. CASE inst[j] = i
    BY <2>1, <2>2, Stutters DEF TakeOver
  <2>3. CASE inst[j] # i
    BY <2>1, <2>3, RotationMoves DEF TakeOver
  <2> QED  BY <2>2, <2>3
<1>3. ASSUME NEW j \in Job, NEW p \in Payload, NEW opens \in BOOLEAN, NEW t,
             CompleteJob(j, t, p, opens) \/ CompleteLate(j, t, p, opens)
      PROVE  Lock!Next
  <2>1. /\ Leased(j) /\ status[j] \in {"RUNNING", "UNKNOWN"}
        /\ HandleRelease(j, opens) /\ fact' = [fact EXCEPT ![j] = p]
    BY <1>3 DEF CompleteJob, CompleteLate, ValidLease, CanResume, AcceptCompletion
  <2>2. fact[j] = NoPayload
    BY <2>1 DEF FactInv, FactOfEnded, Terminal
  <2> QED  BY <2>1, <2>2, HolderIsJob, JobsOnDevice, ReleaseMoves, LockSteps
<1>4. ASSUME NEW j \in Job, NEW opens \in BOOLEAN, Leased(j), HandleRelease(j, opens),
             fact' = fact
      PROVE  Lock!Next
  <2>1. HoldersOf(devOf[j]) # {"debt"} /\ devOf[j] \in Device
    BY <1>4, HolderIsJob, JobsOnDevice, ConstantsAssumption
  <2> QED  BY <1>4, <2>1, ReleaseMoves, LockSteps
<1>5. ASSUME NEW j \in Job, NEW opens \in BOOLEAN, NEW t,
             \/ RecoverBootMismatch(j, t, opens) \/ RecoverCleanup(j, t, opens)
             \/ FinalizeExpired(j, opens) \/ FinalizeStale(j, opens)
      PROVE  Lock!Next \/ UNCHANGED Lock!lockVars
  <2>1. CASE Leased(j)
    BY <1>4, <1>5, <2>1 DEF RecoverBootMismatch, RecoverCleanup, FinalizeExpired, FinalizeStale
  <2>2. CASE ~Leased(j)
    BY <1>5, <2>2, Stutters
       DEF RecoverBootMismatch, RecoverCleanup, FinalizeExpired, FinalizeStale, Owns
  <2> QED  BY <2>1, <2>2
<1>6. ASSUME NEW j \in Job, PendingTimeout(j) PROVE UNCHANGED Lock!lockVars
  <2>1. ~Leased(j) /\ HandleRelease(j, FALSE) /\ UNCHANGED fact
    BY <1>6 DEF PendingTimeout, LeaseInv, LeaseFollowsJob
  <2>2. owed[devOf[j]] # {} /\ ~retired[devOf[j]] => Busy(devOf[j])
    BY JobsOnDevice DEF LeaseInv, DebtHoldsDevice, Busy
  <2>3. UNCHANGED <<leaseSt, debtTok, gen>>
    BY <2>1, <2>2 DEF HandleRelease
  <2> QED  BY <2>1, <2>3, Stutters
<1>7. ASSUME NEW d \in Device, NEW closed, CloseDebts(d, closed)
      PROVE  Lock!Next \/ UNCHANGED Lock!lockVars
  BY <1>7, DebtMoves DEF CloseDebts
<1>8. ASSUME NEW j \in Job, NEW p \in Payload, NEW t, LateConfirmed(j, t, p)
      PROVE  Lock!Next \/ UNCHANGED Lock!lockVars
  BY <1>8, JobsOnDevice, DebtMoves DEF LateConfirmed
<1>9. ASSUME NEW d \in Device, RetireDevice(d)
      PROVE  Lock!Next \/ UNCHANGED Lock!lockVars
  BY <1>9, DebtMoves DEF RetireDevice
<1>10. ASSUME NEW d \in Device,
              \/ UnretireDevice(d)
              \/ \E opens, recorded \in BOOLEAN : InitReturn(d, opens, recorded)
       PROVE  Lock!Next \/ UNCHANGED Lock!lockVars
  BY <1>10, RestoreMoves
<1>11. ASSUME NEW r \in Run,
              \/ ValidateDevices(r) \/ MaterializeJobs(r) \/ AbortQueued(r) \/ AbortRun(r)
              \/ \E h \in Host : AbortHost(r, h)
       PROVE  UNCHANGED Lock!lockVars
  BY <1>11, Stutters DEF ValidateDevices, MaterializeJobs, AbortQueued, AbortRun, AbortHost
<1>12. ASSUME NEW j \in Job,
              \/ ExpireToUnknown(j) \/ ReapAborted(j) \/ RunningTimeout(j)
              \/ LeaseExpires(j) \/ GraceExpires(j)
              \/ \E t \in Tokens(devOf[j]), i \in Instance : ExtendLease(j, t, i)
              \/ RecoveryReads(j)
              \/ \E t, S : \E opens \in BOOLEAN : InitCheck(j, t, S, opens)
       PROVE  UNCHANGED Lock!lockVars
  BY <1>12, Stutters DEF ExpireToUnknown, ReapAborted, RunningTimeout, ToUnknown,
                         LeaseExpires, GraceExpires, ExtendLease, RecoveryReads, InitCheck
<1>13. ASSUME NEW w \in window, AbortPending(w) \/ AbortInterrupted(w)
       PROVE  UNCHANGED Lock!lockVars
  BY <1>13, Stutters DEF AbortPending, AbortInterrupted
<1>14. UNCHANGED vars => UNCHANGED Lock!lockVars
  BY Stutters DEF vars
<1> QED  BY <1>1, <1>2, <1>3, <1>5, <1>6, <1>7, <1>8, <1>9, <1>10, <1>11, <1>12, <1>13, <1>14
         DEF Next, Dispatch, AgentCall, Supervise, TimePasses, Abort, Administer, Discharge, Override

\* The lease tables implement the lock with fencing epochs: every grant has a
\* new epoch, a device is passed on only when its holder is gone or fenced, and
\* a result is committed by the holder as it gives the device up (acquire_lease,
\* handle_job_lease_release, complete_agent_job).
THEOREM LeasesAreLock == Spec => LeasesImplementLock
<1>1. Init => Lock!Init
  <2> SUFFICES ASSUME Init PROVE Lock!Init
    OBVIOUS
  <2>1. \A d \in Device : HoldersOf(d) = {}
    BY DEF Init, HoldersOf, Leased, JobsOn
  <2> QED  BY <2>1 DEF Init, Lock!Init, HoldersOf
<1>2. TypeOK /\ LeaseInv /\ FactInv /\ [Next]_vars => [Lock!Next]_Lock!lockVars
  BY StepIsLockStep
<1> QED  BY <1>1, <1>2, FactsCorrect, PTL DEF Spec, LeasesImplementLock, Lock!Spec
-----------------------------------------------------------------------------
(* What the lock says of epochs. *)

\* No device passes to another holder but under an epoch that is newer than
\* every token issued before.
PassedOnUnderNewEpoch ==
  [][\A d \in Device :
       /\ gen'[d] >= gen[d]
       /\ Holders'[d] \subseteq Holders[d] \/ gen'[d] > gen[d]]_vars

LEMMA LockStepMoves ==
  ASSUME TypeOK, Lock!Next, NEW d \in Device
  PROVE  gen'[d] >= gen[d] /\ (Holders'[d] \subseteq Holders[d] \/ gen'[d] > gen[d])
<1>1. gen \in [Device -> Nat] /\ Holders = [e \in Device |-> Holders[e]]
  BY DEF TypeOK, Holders
<1>2. ASSUME NEW e \in Device, NEW S, Lock!Grant(e, S)
      PROVE  gen'[d] >= gen[d] /\ (Holders'[d] \subseteq Holders[d] \/ gen'[d] > gen[d])
  <2>1. Granted(e, S)
    BY <1>2 DEF Lock!Grant, Granted, Holders, HoldersOf
  <2> QED  BY <1>1, <2>1 DEF Granted
<1>3. ASSUME NEW e \in Device, Lock!Drop(e)
      PROVE  gen'[d] >= gen[d] /\ (Holders'[d] \subseteq Holders[d] \/ gen'[d] > gen[d])
  <2>1. Dropped(e)
    BY <1>3 DEF Lock!Drop, Dropped, Holders, HoldersOf
  <2> QED  BY <1>1, <2>1 DEF Dropped
<1>4. PICK e \in Device :
        \/ Lock!Refence(e) \/ Lock!KeepBack(e) \/ Lock!Free(e)
        \/ \E o \in Job : Lock!Acquire(e, o) \/ \E x \in Payload : Lock!Commit(e, o, x)
  BY DEF Lock!Next
<1>5. CASE Lock!Refence(e)
  <2>1. Granted(e, Holders[e])
    BY <1>5 DEF Lock!Refence, Lock!Grant, Granted, Holders, HoldersOf
  <2> QED  BY <1>1, <2>1 DEF Granted
<1>6. CASE Lock!KeepBack(e)
  BY <1>2, <1>6 DEF Lock!KeepBack
<1>7. CASE Lock!Free(e)
  BY <1>3, <1>7 DEF Lock!Free
<1>8. ASSUME NEW o \in Job, Lock!Acquire(e, o)
      PROVE  gen'[d] >= gen[d] /\ (Holders'[d] \subseteq Holders[d] \/ gen'[d] > gen[d])
  BY <1>2, <1>8 DEF Lock!Acquire
<1>9. ASSUME NEW o \in Job, NEW x \in Payload, Lock!Commit(e, o, x)
      PROVE  gen'[d] >= gen[d] /\ (Holders'[d] \subseteq Holders[d] \/ gen'[d] > gen[d])
  BY <1>2, <1>3, <1>9 DEF Lock!Commit
<1>10. CASE \E o \in Job : Lock!Acquire(e, o) \/ \E x \in Payload : Lock!Commit(e, o, x)
  BY <1>8, <1>9, <1>10
<1> QED  BY <1>4, <1>5, <1>6, <1>7, <1>10

\* The fencing token of a device only grows, and grows whenever the device is
\* taken or kept back (acquire_lease, handle_job_lease_release,
\* restore_debt_lease_on_unretire_sync): no token is ever valid again.
THEOREM EpochsOnlyGrow == Spec => PassedOnUnderNewEpoch
<1>1. ASSUME TypeOK, LeaseInv, FactInv, [Next]_vars, NEW d \in Device
      PROVE  gen'[d] >= gen[d] /\ (Holders'[d] \subseteq Holders[d] \/ gen'[d] > gen[d])
  <2>1. CASE Lock!Next
    BY <1>1, <2>1, LockStepMoves
  <2>2. CASE UNCHANGED Lock!lockVars
    <3>1. gen' = gen /\ Holders' = Holders
      BY <2>2 DEF Lock!lockVars, Holders, HoldersOf
    <3>2. gen'[d] = gen[d] /\ gen[d] \in Nat
      BY <1>1, <3>1 DEF TypeOK
    <3>3. Holders'[d] = Holders[d]
      BY <3>1
    <3> QED  BY <3>2, <3>3
  <2> QED  BY <1>1, <2>1, <2>2, StepIsLockStep
<1>2. TypeOK /\ LeaseInv /\ FactInv /\ [Next]_vars =>
        [\A d \in Device :
           /\ gen'[d] >= gen[d]
           /\ Holders'[d] \subseteq Holders[d] \/ gen'[d] > gen[d]]_vars
  BY <1>1
<1> QED  BY <1>2, FactsCorrect, PTL DEF Spec, PassedOnUnderNewEpoch
=============================================================================
