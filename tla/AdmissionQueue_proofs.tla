------------------------ MODULE AdmissionQueue_proofs ------------------------
(***************************************************************************)
(* The admission queue keeps its promise, and a superseded attempt has no  *)
(* effect, for any number of runs, devices, attempts and tasks.            *)
(***************************************************************************)
EXTENDS AdmissionQueue, TLAPS

\* A retry request writes a run that it has read without a lock.  The code has
\* nothing that keeps the run as it was; FOR UPDATE would.  Where a theorem
\* needs that no retry comes too late, it says so, and OneRetrySuffices says
\* when the code has it: while no two requests are under way.
RetryInTime == \A u \in User : RetryWrite(u) => st[retrying[u]] = "FAILED"
NoRetryTooLate == [][RetryInTime]_vars
OneRetryAtATime == \A u, v \in User : u = v

\* A precheck belongs to an attempt.
PrecheckIsOwned == \A r \in Run : st[r] = "PRECHECK" => owner[r] \in Attempt

\* A run has lost no target that it may not do without.
TargetsKept ==
  \A r \in Run :
    /\ targets[r] \subseteq wanted[r]
    /\ r \notin Shrinkable => targets[r] = wanted[r]

\* What the only retry has read is still so.
RetryIsOfFailed ==
  \A u \in User : retrying[u] # NoRun => st[retrying[u]] = "FAILED"

\* Holds whatever the retries do.
RowInv == TypeOK /\ PrecheckIsOwned /\ TargetsKept

-----------------------------------------------------------------------------
LEMMA InitRowInv == Init => RowInv
<1> SUFFICES ASSUME Init PROVE RowInv
  OBVIOUS
<1>1. TypeOK
  BY ConstantsAssumption DEF Init, TypeOK, Statuses
<1>2. PrecheckIsOwned /\ TargetsKept
  BY ConstantsAssumption DEF Init, PrecheckIsOwned, TargetsKept
<1> QED  BY <1>1, <1>2 DEF RowInv

\* One row of plan_run written: its status, and its owner with it or not.
LEMMA RowWritten ==
  ASSUME RowInv, NEW r \in Run, NEW s \in Statuses, Become(r, s),
         NEW a \in Attempt \cup {Nobody}, s = "PRECHECK" => a \in Attempt,
         owner' \in {owner, [owner EXCEPT ![r] = a]},
         s # "PRECHECK" \/ owner' # owner,
         targets' = targets
  PROVE  /\ st' \in [Run -> Statuses]
         /\ owner' \in [Run -> Attempt \cup {Nobody}]
         /\ PrecheckIsOwned' /\ TargetsKept'
<1>1. st' \in [Run -> Statuses] /\ owner' \in [Run -> Attempt \cup {Nobody}]
  BY DEF RowInv, TypeOK, Become
<1>2. PrecheckIsOwned'
  BY DEF RowInv, TypeOK, Become, PrecheckIsOwned
<1>3. TargetsKept'
  BY DEF RowInv, TargetsKept
<1> QED  BY <1>1, <1>2, <1>3

\* Nothing written at all.
LEMMA RowsUntouched ==
  ASSUME RowInv, UNCHANGED runVars
  PROVE  /\ st' \in [Run -> Statuses]
         /\ owner' \in [Run -> Attempt \cup {Nobody}]
         /\ targets' \in [Run -> SUBSET Device] /\ jobs' \in [Run -> SUBSET Device]
         /\ strikes' \in [Run -> 0..MaxStrikes]
         /\ PrecheckIsOwned' /\ TargetsKept'
  BY DEF RowInv, runVars, TypeOK, PrecheckIsOwned, TargetsKept

\* requeue_plan_run
LEMMA SendBackKeepsRows ==
  ASSUME RowInv, NEW x, x.run \in Run, SendBack(x)
  PROVE  /\ st' \in [Run -> Statuses]
         /\ owner' \in [Run -> Attempt \cup {Nobody}]
         /\ targets' \in [Run -> SUBSET Device] /\ jobs' \in [Run -> SUBSET Device]
         /\ strikes' \in [Run -> 0..MaxStrikes]
         /\ PrecheckIsOwned' /\ TargetsKept'
<1>1. CASE Owns(x)
  <2>1. /\ Become(x.run, "QUEUED") /\ owner' = [owner EXCEPT ![x.run] = Nobody]
        /\ UNCHANGED <<targets, jobs, strikes>>
    BY <1>1 DEF SendBack
  <2> QED  BY <2>1, RowWritten DEF Statuses, RowInv, TypeOK
<1>2. CASE ~Owns(x)
  BY <1>2, RowsUntouched DEF SendBack
<1> QED  BY <1>1, <1>2

-----------------------------------------------------------------------------
LEMMA PumpClaimKeepsRows ==
  ASSUME RowInv, PumpClaim
  PROVE  RowInv'
<1>0. PICK S \in SUBSET Waiting :
        \E id \in Injection(S, FreshAttempts) :
          /\ st' = [r \in Run |-> IF r \in S THEN "PRECHECK" ELSE st[r]]
          /\ owner' = [r \in Run |-> IF r \in S THEN id[r] ELSE owner[r]]
          /\ handing' = {[run |-> r, attempt |-> id[r], at |-> "enqueue"] : r \in S}
  BY DEF PumpClaim
<1>1. PICK id \in Injection(S, FreshAttempts) :
        /\ st' = [r \in Run |-> IF r \in S THEN "PRECHECK" ELSE st[r]]
        /\ owner' = [r \in Run |-> IF r \in S THEN id[r] ELSE owner[r]]
        /\ handing' = {[run |-> r, attempt |-> id[r], at |-> "enqueue"] : r \in S}
        /\ UNCHANGED <<targets, jobs, strikes, queue, work, scan, retrying>>
  BY <1>0 DEF PumpClaim
<1>2. S \subseteq Run /\ \A r \in S : id[r] \in Attempt
  BY DEF Waiting, Injection, FreshAttempts
<1>3. st' \in [Run -> Statuses] /\ owner' \in [Run -> Attempt \cup {Nobody}]
  BY <1>1, <1>2 DEF RowInv, TypeOK, Statuses
<1>4. handing' \subseteq Handover
  <2>1. \A r \in S : [run |-> r, attempt |-> id[r], at |-> "enqueue"] \in Handover
    BY <1>2 DEF Handover
  <2> QED  BY <1>1, <2>1
<1>5. TypeOK'
  BY <1>1, <1>3, <1>4 DEF RowInv, TypeOK
<1>6. PrecheckIsOwned'
  <2> SUFFICES ASSUME NEW r \in Run, st'[r] = "PRECHECK" PROVE owner'[r] \in Attempt
    BY DEF PrecheckIsOwned
  <2>1. CASE r \in S
    BY <1>1, <1>2, <2>1
  <2>2. CASE r \notin S
    BY <1>1, <2>2 DEF RowInv, PrecheckIsOwned
  <2> QED  BY <2>1, <2>2
<1>7. TargetsKept'
  BY <1>1 DEF RowInv, TargetsKept
<1> QED  BY <1>5, <1>6, <1>7 DEF RowInv

LEMMA PumpGoesOnKeepsRows ==
  ASSUME RowInv,
         PumpCrash \/ \E h \in handing : PumpEnqueue(h) \/ PumpTakeBack(h)
  PROVE  RowInv'
<1>1. CASE PumpCrash
  <2>1. handing' = {} /\ UNCHANGED <<runVars, queue, work, scan, retrying>>
    BY <1>1 DEF PumpCrash
  <2> QED  BY <2>1, RowsUntouched DEF RowInv, TypeOK
<1>2. ASSUME NEW h \in handing, PumpEnqueue(h)
      PROVE  RowInv'
  <2>1. h \in Handover /\ ClaimOf(h) \in Claim /\ [h EXCEPT !.at = "take back"] \in Handover
    BY DEF RowInv, TypeOK, Handover, ClaimOf, Claim
  <2>2. /\ queue' \in {queue, queue \cup {ClaimOf(h)}}
        /\ handing' \subseteq handing \cup {[h EXCEPT !.at = "take back"]}
        /\ UNCHANGED <<runVars, work, scan, retrying>>
    BY <1>2 DEF PumpEnqueue
  <2> QED  BY <2>1, <2>2, RowsUntouched DEF RowInv, TypeOK
<1>3. ASSUME NEW h \in handing, PumpTakeBack(h)
      PROVE  RowInv'
  <2>1. h.run \in Run
    BY DEF RowInv, TypeOK, Handover
  <2>2. SendBack(h) /\ handing' = handing \ {h} /\ UNCHANGED <<queue, work, scan, retrying>>
    BY <1>3 DEF PumpTakeBack
  <2> QED  BY <2>1, <2>2, SendBackKeepsRows DEF RowInv, TypeOK
<1> QED  BY <1>1, <1>2, <1>3

-----------------------------------------------------------------------------
LEMMA TaskFacts ==
  ASSUME RowInv, NEW t \in work
  PROVE  /\ t \in Task /\ t.run \in Run /\ t.attempt \in Attempt
         /\ \A place \in {"check", "admit", "requeue", "fail", "dead"} :
              Replace(t, place) \subseteq Task
  BY DEF RowInv, TypeOK, Task, Replace

\* What moves tasks about without writing a row.
LEMMA TasksMoveKeepsRows ==
  ASSUME RowInv,
         \/ \E c \in queue : TaskStart(c) \/ QueueLoses(c)
         \/ \E t \in work : TaskCheck(t) \/ TaskTurnedAway(t) \/ TaskError(t) \/ WorkerLost(t)
  PROVE  RowInv'
<1>1. ASSUME NEW c \in queue, TaskStart(c) \/ QueueLoses(c)
      PROVE  RowInv'
  <2>1. c \in Claim
    BY DEF RowInv, TypeOK
  <2>2. [run |-> c.run, attempt |-> c.attempt, alive |-> TRUE, at |-> "check"] \in Task
    BY <2>1 DEF Claim, Task
  <2>3. /\ queue' = queue \ {c}
        /\ work' \subseteq work \cup {[run |-> c.run, attempt |-> c.attempt,
                                       alive |-> TRUE, at |-> "check"]}
        /\ UNCHANGED <<runVars, handing, scan, retrying>>
    BY <1>1 DEF TaskStart, QueueLoses
  <2> QED  BY <2>2, <2>3, RowsUntouched DEF RowInv, TypeOK
<1>2. ASSUME NEW t \in work,
             TaskCheck(t) \/ TaskTurnedAway(t) \/ TaskError(t) \/ WorkerLost(t)
      PROVE  RowInv'
  <2>1. t \in Task /\ \A place \in {t.at, "dead"} :
                        [t EXCEPT !.alive = FALSE, !.at = place] \in Task
    BY TaskFacts DEF Task
  <2>2. work' \subseteq Task /\ UNCHANGED <<runVars, handing, queue, scan, retrying>>
    BY <1>2, <2>1, TaskFacts DEF TaskCheck, TaskTurnedAway, TaskError, WorkerLost,
       RowInv, TypeOK
  <2> QED  BY <2>2, RowsUntouched DEF RowInv, TypeOK
<1> QED  BY <1>1, <1>2

\* What admission_transaction writes.
LEMMA AdmitFacts ==
  ASSUME RowInv, NEW t \in work, TaskAdmit(t)
  PROVE  /\ t.run \in Run /\ st[t.run] = "PRECHECK"
         /\ st' = [st EXCEPT ![t.run] = "RUNNING"]
         /\ work' \subseteq work
         /\ UNCHANGED <<owner, strikes, handing, queue, scan, retrying>>
         /\ \E kept \in SUBSET targets[t.run] :
              /\ kept # {} /\ (kept = targets[t.run] \/ t.run \in Shrinkable)
              /\ \A q \in Run : jobs[q] \cap kept = {}
              /\ targets' = [targets EXCEPT ![t.run] = kept]
              /\ jobs' = [jobs EXCEPT ![t.run] = kept]
<1>1. t.run \in Run
  BY TaskFacts
<1>2. PICK away \in SUBSET targets[t.run] :
        LET kept == targets[t.run] \ (Busy \cup away)
        IN /\ StartsWith(t.run, kept)
           /\ targets' = [targets EXCEPT ![t.run] = kept]
           /\ jobs' = [jobs EXCEPT ![t.run] = kept]
  BY DEF TaskAdmit
<1> DEFINE kept == targets[t.run] \ (Busy \cup away)
<1>3. \A q \in Run : jobs[q] \cap kept = {}
  BY DEF Busy
<1>4. /\ kept \in SUBSET targets[t.run]
      /\ kept # {} /\ (kept = targets[t.run] \/ t.run \in Shrinkable)
      /\ targets' = [targets EXCEPT ![t.run] = kept]
      /\ jobs' = [jobs EXCEPT ![t.run] = kept]
  BY <1>2 DEF StartsWith
<1> QED  BY <1>1, <1>3, <1>4 DEF TaskAdmit, Owns, Become

LEMMA TaskAdmitKeepsRows ==
  ASSUME RowInv, NEW t \in work, TaskAdmit(t)
  PROVE  RowInv'
<1>1. PICK kept \in SUBSET targets[t.run] :
        /\ kept # {} /\ (kept = targets[t.run] \/ t.run \in Shrinkable)
        /\ targets' = [targets EXCEPT ![t.run] = kept]
        /\ jobs' = [jobs EXCEPT ![t.run] = kept]
  BY AdmitFacts
<1>2. /\ t.run \in Run /\ st' = [st EXCEPT ![t.run] = "RUNNING"]
      /\ work' \subseteq work
      /\ UNCHANGED <<owner, strikes, handing, queue, scan, retrying>>
  BY AdmitFacts
<1>3. TypeOK'
  BY <1>1, <1>2 DEF RowInv, TypeOK, Statuses
<1>4. PrecheckIsOwned'
  BY <1>2 DEF RowInv, TypeOK, PrecheckIsOwned
<1>5. TargetsKept'
  BY <1>1, <1>2 DEF RowInv, TypeOK, TargetsKept
<1> QED  BY <1>3, <1>4, <1>5 DEF RowInv

LEMMA TaskEndsKeepsRows ==
  ASSUME RowInv, NEW t \in work, TaskSendBack(t) \/ TaskFail(t)
  PROVE  RowInv'
<1>1. t.run \in Run /\ work \ {t} \subseteq Task
  BY TaskFacts DEF RowInv, TypeOK
<1>2. CASE TaskSendBack(t)
  <2>1. SendBack(t) /\ work' = work \ {t} /\ UNCHANGED <<handing, queue, scan, retrying>>
    BY <1>2 DEF TaskSendBack
  <2> QED  BY <1>1, <2>1, SendBackKeepsRows DEF RowInv, TypeOK
<1>3. CASE TaskFail(t)
  <2>1. /\ work' = work \ {t}
        /\ UNCHANGED <<owner, targets, jobs, strikes, handing, queue, scan, retrying>>
        /\ Become(t.run, "FAILED") \/ UNCHANGED st
    BY <1>3 DEF TaskFail, Fails
  <2>2. CASE Become(t.run, "FAILED")
    BY <1>1, <2>1, <2>2, RowWritten DEF RowInv, TypeOK, Statuses
  <2>3. CASE UNCHANGED st
    BY <1>1, <2>1, <2>3 DEF RowInv, TypeOK, PrecheckIsOwned, TargetsKept
  <2> QED  BY <2>1, <2>2, <2>3
<1> QED  BY <1>2, <1>3

-----------------------------------------------------------------------------
LEMMA ReaperKeepsRows ==
  ASSUME RowInv,
         \/ \E c \in scan : ReaperRecover(c) \/ ReaperSkip(c)
         \/ \E r \in Run : ReaperScan(r)
  PROVE  RowInv'
<1>1. ASSUME NEW c \in scan, ReaperRecover(c)
      PROVE  RowInv'
  <2>1. c.run \in Run /\ scan' = scan \ {c}
        /\ UNCHANGED <<targets, jobs, handing, queue, work, retrying>>
    BY <1>1 DEF ReaperRecover, RowInv, TypeOK, Claim
  <2>2. CASE /\ MayTryAgain(c.run)
             /\ Become(c.run, "QUEUED")
             /\ owner' = [owner EXCEPT ![c.run] = Nobody]
             /\ strikes' = [strikes EXCEPT ![c.run] = @ + 1]
    <3>1. strikes' \in [Run -> 0..MaxStrikes]
      BY <2>1, <2>2, ConstantsAssumption DEF MayTryAgain, RowInv, TypeOK
    <3> QED  BY <2>1, <2>2, <3>1, RowWritten DEF RowInv, TypeOK, Statuses
  <2>3. CASE Become(c.run, "FAILED") /\ UNCHANGED <<owner, strikes>>
    BY <2>1, <2>3, RowWritten DEF RowInv, TypeOK, Statuses
  <2> QED  BY <1>1, <2>2, <2>3 DEF ReaperRecover
<1>2. ASSUME NEW c \in scan, ReaperSkip(c)
      PROVE  RowInv'
  BY <1>2, RowsUntouched DEF ReaperSkip, RowInv, TypeOK
<1>3. ASSUME NEW r \in Run, ReaperScan(r)
      PROVE  RowInv'
  <2>1. [run |-> r, attempt |-> owner[r]] \in Claim
    BY <1>3 DEF ReaperScan, RowInv, PrecheckIsOwned, Claim
  <2> QED  BY <1>3, <2>1, RowsUntouched DEF ReaperScan, RowInv, TypeOK
<1> QED  BY <1>1, <1>2, <1>3

LEMMA UsersKeepRows ==
  ASSUME RowInv,
         \/ \E r \in Run : Abort(r) \/ \E d \in Device : JobEnds(r, d)
         \/ \E u \in User : RetryWrite(u) \/ \E r \in Run : RetryRead(u, r)
  PROVE  RowInv'
<1>1. ASSUME NEW r \in Run, Abort(r)
      PROVE  RowInv'
  BY <1>1, RowWritten DEF Abort, RowInv, TypeOK, Statuses
<1>2. ASSUME NEW r \in Run, NEW d \in Device, JobEnds(r, d)
      PROVE  RowInv'
  <2>1. /\ jobs' = [jobs EXCEPT ![r] = @ \ {d}]
        /\ Become(r, "OVER") \/ UNCHANGED st
        /\ UNCHANGED <<owner, targets, strikes, handing, queue, work, scan, retrying>>
    BY <1>2 DEF JobEnds
  <2>2. jobs' \in [Run -> SUBSET Device]
    BY <2>1 DEF RowInv, TypeOK
  <2>3. CASE Become(r, "OVER")
    BY <2>1, <2>2, <2>3, RowWritten DEF RowInv, TypeOK, Statuses
  <2>4. CASE UNCHANGED st
    BY <2>1, <2>2, <2>4 DEF RowInv, TypeOK, PrecheckIsOwned, TargetsKept
  <2> QED  BY <2>1, <2>3, <2>4
<1>3. ASSUME NEW u \in User, RetryWrite(u)
      PROVE  RowInv'
  <2>1. retrying[u] \in Run
    BY <1>3 DEF RetryWrite, RowInv, TypeOK
  <2>2. /\ Become(retrying[u], "QUEUED")
        /\ owner' = [owner EXCEPT ![retrying[u]] = Nobody]
        /\ retrying' = [retrying EXCEPT ![u] = NoRun]
        /\ UNCHANGED <<targets, jobs, strikes, handing, queue, work, scan>>
    BY <1>3 DEF RetryWrite
  <2> QED  BY <2>1, <2>2, RowWritten DEF RowInv, TypeOK, Statuses
<1>4. ASSUME NEW u \in User, NEW r \in Run, RetryRead(u, r)
      PROVE  RowInv'
  BY <1>4, RowsUntouched DEF RetryRead, RowInv, TypeOK
<1> QED  BY <1>1, <1>2, <1>3, <1>4

LEMMA NextKeepsRows ==
  ASSUME RowInv, [Next]_vars
  PROVE  RowInv'
<1>1. CASE UNCHANGED vars
  BY <1>1, RowsUntouched DEF vars, RowInv, TypeOK
<1>2. CASE Next
  BY <1>2, PumpClaimKeepsRows, PumpGoesOnKeepsRows, TasksMoveKeepsRows,
     TaskAdmitKeepsRows, TaskEndsKeepsRows, ReaperKeepsRows, UsersKeepRows
     DEF Next, TaskStep
<1> QED  BY <1>1, <1>2

-----------------------------------------------------------------------------
\* The ways in which a step can write the status and the jobs of runs.
Claimed ==
  /\ \A r \in Run : st'[r] = st[r] \/ (st[r] = "QUEUED" /\ st'[r] = "PRECHECK")
  /\ jobs' = jobs
Requeued(r) ==
  /\ st[r] = "PRECHECK" /\ Become(r, "QUEUED")
  /\ jobs' = jobs
TurnedAway(r, verdict) ==
  /\ st[r] \in {"QUEUED", "PRECHECK"} /\ Become(r, verdict)
  /\ jobs' = jobs
Admitted(r, kept) ==
  /\ st[r] = "PRECHECK" /\ Become(r, "RUNNING")
  /\ jobs' = [jobs EXCEPT ![r] = kept]
  /\ kept # {} /\ kept \subseteq wanted[r]
  /\ kept = wanted[r] \/ r \in Shrinkable
  /\ \A q \in Run : jobs[q] \cap kept = {}
JobGone(r, d) ==
  /\ st[r] = "RUNNING" /\ d \in jobs[r]
  /\ jobs' = [jobs EXCEPT ![r] = @ \ {d}]
  /\ IF jobs[r] = {d} THEN Become(r, "OVER") ELSE UNCHANGED st

ByQueue ==
  \/ UNCHANGED <<st, jobs>>
  \/ Claimed
  \/ \E r \in Run :
       \/ Requeued(r)
       \/ \E verdict \in {"FAILED", "ABORTED"} : TurnedAway(r, verdict)
       \/ \E kept \in SUBSET Device : Admitted(r, kept)
       \/ \E d \in Device : JobGone(r, d)

\* A step is one of these, and leaves the users' requests alone; or it reads
\* or writes for a user.
LEMMA StepKinds ==
  ASSUME RowInv, [Next]_vars
  PROVE  \/ ByQueue /\ retrying' = retrying
         \/ \E u \in User, r \in Run : RetryRead(u, r)
         \/ \E u \in User : RetryWrite(u)
<1>1. CASE UNCHANGED vars
  BY <1>1 DEF vars, runVars, ByQueue
<1>2. CASE PumpClaim
  <2>1. PICK S \in SUBSET Waiting :
          /\ st' = [r \in Run |-> IF r \in S THEN "PRECHECK" ELSE st[r]]
          /\ UNCHANGED <<jobs, retrying>>
    BY <1>2 DEF PumpClaim
  <2> QED  BY <2>1 DEF ByQueue, Claimed, Waiting
<1>3. ASSUME NEW x \in handing \cup work, SendBack(x), retrying' = retrying
      PROVE  ByQueue
  <2>1. x.run \in Run
    BY DEF RowInv, TypeOK, Handover, Task
  <2> QED  BY <1>3, <2>1 DEF SendBack, Owns, ByQueue, Requeued, runVars
<1>4. CASE PumpCrash \/ \E h \in handing : PumpEnqueue(h) \/ PumpTakeBack(h)
  BY <1>3, <1>4 DEF PumpCrash, PumpEnqueue, PumpTakeBack, ByQueue, runVars
<1>5. CASE \E c \in queue : TaskStart(c) \/ QueueLoses(c)
  BY <1>5 DEF TaskStart, QueueLoses, ByQueue, runVars
<1>6. ASSUME NEW t \in work, TaskStep(t) \/ TaskError(t) \/ WorkerLost(t)
      PROVE  ByQueue /\ retrying' = retrying
  <2>1. t.run \in Run
    BY TaskFacts
  <2>2. CASE TaskCheck(t) \/ TaskTurnedAway(t) \/ TaskError(t) \/ WorkerLost(t)
    BY <2>2 DEF TaskCheck, TaskTurnedAway, TaskError, WorkerLost, ByQueue, runVars
  <2>3. CASE TaskSendBack(t)
    BY <1>3, <2>3 DEF TaskSendBack
  <2>4. CASE TaskFail(t)
    BY <2>1, <2>4 DEF TaskFail, Fails, Owns, ByQueue, TurnedAway
  <2>5. CASE TaskAdmit(t)
    <3>1. PICK kept \in SUBSET targets[t.run] :
            /\ kept # {} /\ (kept = targets[t.run] \/ t.run \in Shrinkable)
            /\ \A q \in Run : jobs[q] \cap kept = {}
            /\ jobs' = [jobs EXCEPT ![t.run] = kept]
      BY <2>5, AdmitFacts
    <3>2. kept \in SUBSET Device /\ kept \subseteq wanted[t.run]
          /\ (kept = wanted[t.run] \/ t.run \in Shrinkable)
      BY <2>1, <3>1 DEF RowInv, TypeOK, TargetsKept
    <3>3. Admitted(t.run, kept)
      BY <2>1, <2>5, <3>1, <3>2 DEF Admitted, TaskAdmit, Owns
    <3>4. retrying' = retrying
      BY <2>5 DEF TaskAdmit
    <3> QED  BY <2>1, <3>2, <3>3, <3>4 DEF ByQueue
  <2> QED  BY <1>6, <2>2, <2>3, <2>4, <2>5 DEF TaskStep
<1>7. ASSUME NEW c \in scan, ReaperRecover(c)
      PROVE  ByQueue /\ retrying' = retrying
  <2>1. c.run \in Run /\ st[c.run] = "PRECHECK" /\ UNCHANGED <<jobs, retrying>>
        /\ (Become(c.run, "QUEUED") \/ Become(c.run, "FAILED"))
    BY <1>7 DEF ReaperRecover, RowInv, TypeOK, Claim, StillStale, Owns
  <2> QED  BY <2>1 DEF ByQueue, Requeued, TurnedAway
<1>8. CASE (\E c \in scan : ReaperSkip(c)) \/ (\E r \in Run : ReaperScan(r))
  BY <1>8 DEF ReaperSkip, ReaperScan, ByQueue, runVars
<1>9. ASSUME NEW r \in Run, Abort(r)
      PROVE  ByQueue /\ retrying' = retrying
  BY <1>9 DEF Abort, ByQueue, TurnedAway
<1>10. ASSUME NEW r \in Run, NEW d \in Device, JobEnds(r, d)
       PROVE  ByQueue /\ retrying' = retrying
  BY <1>10 DEF JobEnds, ByQueue, JobGone
<1> QED
  BY <1>1, <1>2, <1>4, <1>5, <1>6, <1>7, <1>8, <1>9, <1>10 DEF Next

\* No run that waits gets jobs, but by a retry that comes too late.
LEMMA NextKeepsWaiting ==
  ASSUME RowInv, WaitingRunHoldsNothing, [Next]_vars, [RetryInTime]_vars
  PROVE  WaitingRunHoldsNothing'
<1>1. /\ st \in [Run -> Statuses] /\ jobs \in [Run -> SUBSET Device]
      /\ retrying \in [User -> Run \cup {NoRun}]
  BY DEF RowInv, TypeOK
<1>2. CASE UNCHANGED <<st, jobs>> \/ Claimed
  BY <1>1, <1>2 DEF WaitingRunHoldsNothing, Claimed
<1>3. ASSUME NEW r \in Run,
             Requeued(r) \/ \E v \in {"FAILED", "ABORTED"} : TurnedAway(r, v)
      PROVE  WaitingRunHoldsNothing'
  BY <1>1, <1>3 DEF WaitingRunHoldsNothing, Requeued, TurnedAway, Become
<1>4. ASSUME NEW r \in Run, NEW kept \in SUBSET Device, Admitted(r, kept)
      PROVE  WaitingRunHoldsNothing'
  BY <1>1, <1>4 DEF WaitingRunHoldsNothing, Admitted, Become
<1>5. ASSUME NEW r \in Run, NEW d \in Device, JobGone(r, d)
      PROVE  WaitingRunHoldsNothing'
  <2>1. jobs' = [jobs EXCEPT ![r] = jobs[r] \ {d}] /\ d \in jobs[r]
    BY <1>5 DEF JobGone
  <2>2. CASE jobs[r] = {d}
    BY <1>1, <1>5, <2>1, <2>2 DEF JobGone, WaitingRunHoldsNothing, Become
  <2>3. CASE jobs[r] # {d}
    BY <1>1, <1>5, <2>1, <2>3 DEF JobGone, WaitingRunHoldsNothing
  <2> QED  BY <2>2, <2>3
<1>6. ASSUME NEW u \in User, NEW r \in Run, RetryRead(u, r)
      PROVE  WaitingRunHoldsNothing'
  BY <1>6 DEF RetryRead, runVars, WaitingRunHoldsNothing
<1>7. ASSUME NEW u \in User, RetryWrite(u)
      PROVE  WaitingRunHoldsNothing'
  <2>1. CASE UNCHANGED vars
    BY <2>1 DEF vars, runVars, WaitingRunHoldsNothing
  <2>2. CASE RetryInTime
    <3>1. /\ retrying[u] \in Run /\ st[retrying[u]] = "FAILED"
          /\ Become(retrying[u], "QUEUED") /\ jobs' = jobs
      BY <1>1, <1>7, <2>2 DEF RetryWrite, RetryInTime
    <3> QED  BY <1>1, <3>1 DEF WaitingRunHoldsNothing, Become
  <2> QED  BY <2>1, <2>2
<1> QED  BY <1>2, <1>3, <1>4, <1>5, <1>6, <1>7, StepKinds DEF ByQueue

\* Nothing but a retry opens a failed run.
LEMMA NextKeepsFailed ==
  ASSUME OneRetryAtATime, RowInv, RetryIsOfFailed, [Next]_vars
  PROVE  RetryIsOfFailed'
<1>1. /\ st \in [Run -> Statuses] /\ jobs \in [Run -> SUBSET Device]
      /\ retrying \in [User -> Run \cup {NoRun}]
  BY DEF RowInv, TypeOK
<1>2. CASE ByQueue /\ retrying' = retrying
  <2>1. \A r \in Run : st[r] = "FAILED" => st'[r] = "FAILED"
    BY <1>1, <1>2 DEF ByQueue, Claimed, Requeued, TurnedAway, Admitted, JobGone, Become
  <2> QED  BY <1>1, <1>2, <2>1 DEF RetryIsOfFailed
<1>3. ASSUME NEW u \in User, NEW r \in Run, RetryRead(u, r)
      PROVE  RetryIsOfFailed'
  BY <1>1, <1>3 DEF RetryRead, Retryable, runVars, RetryIsOfFailed
<1>4. ASSUME NEW u \in User, RetryWrite(u)
      PROVE  RetryIsOfFailed'
  BY <1>1, <1>4 DEF RetryWrite, RetryIsOfFailed, OneRetryAtATime
<1> QED  BY <1>2, <1>3, <1>4, StepKinds

-----------------------------------------------------------------------------
\* The verdict of a run depends on its row alone, before and after a step.
LEMMA VerdictOfRow ==
  ASSUME NEW r \in Run
  PROVE  /\ st[r] \in {"QUEUED", "PRECHECK"} => Verdicts[r] = "waiting"
         /\ st[r] \in {"RUNNING", "OVER"} => Verdicts[r] = "admitted"
         /\ st[r] = "FAILED" => Verdicts[r] = "rejected"
         /\ st[r] = "ABORTED" => Verdicts[r] = "aborted"
         /\ st'[r] \in {"QUEUED", "PRECHECK"} => Verdicts'[r] = "waiting"
         /\ st'[r] \in {"RUNNING", "OVER"} => Verdicts'[r] = "admitted"
         /\ st'[r] = "FAILED" => Verdicts'[r] = "rejected"
         /\ st'[r] = "ABORTED" => Verdicts'[r] = "aborted"
  BY DEF Verdicts, VerdictOf

LEMMA VerdictsAreFunctions ==
  /\ Verdicts = [r \in Run |-> Verdicts[r]]
  /\ Verdicts' = [r \in Run |-> Verdicts'[r]]
  BY DEF Verdicts

LEMMA VerdictsUnchanged ==
  ASSUME st \in [Run -> Statuses],
         \A r \in Run :
           \/ st'[r] = st[r]
           \/ {st[r], st'[r]} \subseteq {"QUEUED", "PRECHECK"}
           \/ {st[r], st'[r]} \subseteq {"RUNNING", "OVER"}
  PROVE  Verdicts' = Verdicts
<1>1. ASSUME NEW r \in Run PROVE Verdicts'[r] = Verdicts[r]
  <2>1. st[r] \in Statuses
    OBVIOUS
  <2> QED  BY <2>1, VerdictOfRow DEF Statuses
<1> QED  BY <1>1, VerdictsAreFunctions

\* The row of one run is written: its verdict follows, no other one does.
LEMMA VerdictWritten ==
  ASSUME st \in [Run -> Statuses], NEW r \in Run, NEW s \in Statuses, Become(r, s),
         NEW v, \/ s = "QUEUED" /\ v = "waiting"
                \/ s = "RUNNING" /\ v = "admitted"
                \/ s = "FAILED" /\ v = "rejected"
                \/ s = "ABORTED" /\ v = "aborted"
  PROVE  Verdicts' = [Verdicts EXCEPT ![r] = v]
<1>1. st' = [st EXCEPT ![r] = s]
  BY DEF Become
<1>2. Verdicts'[r] = v
  BY <1>1, VerdictOfRow
<1>3. ASSUME NEW q \in Run, q # r PROVE Verdicts'[q] = Verdicts[q]
  <2>1. st[q] \in Statuses /\ st'[q] = st[q]
    BY <1>1, <1>3
  <2> QED  BY <2>1, VerdictOfRow DEF Statuses
<1> QED  BY <1>2, <1>3, VerdictsAreFunctions

LEMMA StepIsPromiseStep ==
  ASSUME RowInv, [Next]_vars, [RetryInTime]_vars
  PROVE  [Promise!Next]_<<Verdicts, jobs>>
<1>1. /\ st \in [Run -> Statuses] /\ jobs \in [Run -> SUBSET Device]
      /\ retrying \in [User -> Run \cup {NoRun}]
  BY DEF RowInv, TypeOK
<1>2. CASE ByQueue
  <2>1. CASE UNCHANGED <<st, jobs>> \/ Claimed
    BY <1>1, <2>1, VerdictsUnchanged DEF Claimed
  <2>2. ASSUME NEW r \in Run, Requeued(r)
        PROVE  UNCHANGED <<Verdicts, jobs>>
    BY <1>1, <2>2, VerdictsUnchanged DEF Requeued, Become
  <2>3. ASSUME NEW r \in Run, NEW v \in {"FAILED", "ABORTED"}, TurnedAway(r, v)
        PROVE  Promise!Reject(r)
    BY <1>1, <2>3, VerdictOfRow, VerdictWritten
       DEF TurnedAway, Statuses, Promise!Reject, Promise!Decide
  <2>4. ASSUME NEW r \in Run, NEW kept \in SUBSET Device, Admitted(r, kept)
        PROVE  Promise!Admit(r)
    <3>1. Verdicts[r] = "waiting" /\ Verdicts' = [Verdicts EXCEPT ![r] = "admitted"]
      BY <1>1, <2>4, VerdictOfRow, VerdictWritten DEF Admitted, Statuses
    <3> QED  BY <2>4, <3>1 DEF Admitted, Promise!Admit, Promise!Decide
  <2>5. ASSUME NEW r \in Run, NEW d \in Device, JobGone(r, d)
        PROVE  Promise!GiveBack(r)
    <3>1. Verdicts' = Verdicts
      BY <1>1, <2>5, VerdictsUnchanged DEF JobGone, Become
    <3>2. Verdicts[r] = "admitted"
      BY <2>5, VerdictOfRow DEF JobGone
    <3> QED  BY <2>5, <3>1, <3>2 DEF JobGone, Promise!GiveBack
  <2> QED  BY <1>2, <2>1, <2>2, <2>3, <2>4, <2>5 DEF ByQueue, Promise!Next
<1>3. ASSUME NEW u \in User, NEW r \in Run, RetryRead(u, r)
      PROVE  UNCHANGED <<Verdicts, jobs>>
  BY <1>3 DEF RetryRead, runVars, Verdicts
<1>4. ASSUME NEW u \in User, RetryWrite(u), RetryInTime
      PROVE  \E r \in Run : Promise!Reopen(r)
  <2>1. /\ retrying[u] \in Run /\ st[retrying[u]] = "FAILED"
        /\ Become(retrying[u], "QUEUED") /\ jobs' = jobs
    BY <1>1, <1>4 DEF RetryWrite, RetryInTime
  <2> QED  BY <1>1, <2>1, VerdictOfRow, VerdictWritten
           DEF Promise!Reopen, Promise!Decide, Statuses
<1>5. CASE UNCHANGED vars
  BY <1>5 DEF vars, runVars, Verdicts
<1> QED  BY <1>2, <1>3, <1>4, <1>5, StepKinds DEF Promise!Next

-----------------------------------------------------------------------------
\* The rows of the runs stay consistent: RowInv is inductive.
LEMMA RowsCorrect == Spec => []RowInv
<1>1. RowInv /\ [Next]_vars => RowInv'
  BY NextKeepsRows
<1> QED  BY <1>1, InitRowInv, PTL DEF Spec

\* Every variable keeps to its type, however many retries overlap.
THEOREM TypeCorrect == Spec => []TypeOK
<1>1. RowInv => TypeOK
  BY DEF RowInv
<1> QED  BY <1>1, RowsCorrect, PTL

\* An attempt that gives up a run it does not own any more writes nothing:
\* what leaves handing or work in a step is one attempt, or all that a
\* crashed pump was about to enqueue.
LEMMA LeavingIsInert ==
  ASSUME [Next]_vars,
         NEW x \in handing \cup work, ~Owns(x), x \notin handing' \cup work'
  PROVE  UNCHANGED runVars
<1>1. CASE UNCHANGED vars
  BY <1>1 DEF vars
<1>2. ASSUME PumpClaim PROVE FALSE
  BY <1>2 DEF PumpClaim
<1>3. CASE PumpCrash
  BY <1>3 DEF PumpCrash
<1>4. ASSUME NEW h \in handing, PumpEnqueue(h) \/ PumpTakeBack(h)
      PROVE  UNCHANGED runVars
  <2>1. CASE PumpEnqueue(h)
    BY <2>1 DEF PumpEnqueue
  <2>2. CASE PumpTakeBack(h)
    <3>1. x = h
      BY <2>2 DEF PumpTakeBack
    <3> QED  BY <2>2, <3>1 DEF PumpTakeBack, SendBack
  <2> QED  BY <1>4, <2>1, <2>2
<1>5. ASSUME NEW c \in queue, TaskStart(c) \/ QueueLoses(c)
      PROVE  UNCHANGED runVars
  BY <1>5 DEF TaskStart, QueueLoses
<1>6. ASSUME NEW t \in work, TaskStep(t) \/ TaskError(t) \/ WorkerLost(t)
      PROVE  UNCHANGED runVars
  <2>1. CASE TaskCheck(t) \/ TaskTurnedAway(t) \/ TaskError(t) \/ WorkerLost(t)
    BY <2>1 DEF TaskCheck, TaskTurnedAway, TaskError, WorkerLost
  <2>2. CASE TaskAdmit(t) \/ TaskSendBack(t) \/ TaskFail(t)
    <3>1. x = t
      BY <2>2 DEF TaskAdmit, TaskSendBack, TaskFail
    <3> QED  BY <2>2, <3>1 DEF TaskAdmit, TaskSendBack, TaskFail, SendBack, Fails, runVars
  <2> QED  BY <1>6, <2>1, <2>2 DEF TaskStep
<1>7. ASSUME handing' = handing, work' = work
      PROVE  FALSE
  BY <1>7
<1>8. (\E c \in scan : ReaperRecover(c) \/ ReaperSkip(c)) \/ (\E r \in Run : ReaperScan(r))
        => handing' = handing /\ work' = work
  BY DEF ReaperRecover, ReaperSkip, ReaperScan
<1>9. (\E r \in Run : Abort(r) \/ \E d \in Device : JobEnds(r, d))
        => handing' = handing /\ work' = work
  BY DEF Abort, JobEnds
<1>10. (\E u \in User : RetryWrite(u) \/ \E r \in Run : RetryRead(u, r))
        => handing' = handing /\ work' = work
  BY DEF RetryRead, RetryWrite
<1> QED
  BY <1>1, <1>2, <1>3, <1>4, <1>5, <1>6, <1>7, <1>8, <1>9, <1>10 DEF Next

\* A superseded attempt - by the reaper, a user or its own lost enqueue -
\* leaves its run alone, however many retries overlap.
THEOREM SupersededAttemptsAreInert == Spec => SupersededIsInert
<1>1. [Next]_vars =>
        [\A x \in handing \cup work :
           ~Owns(x) /\ x \notin handing' \cup work'
             => RunRow(x.run)' = RunRow(x.run)]_vars
  <2>1. ASSUME [Next]_vars, NEW x \in handing \cup work, ~Owns(x),
               x \notin handing' \cup work'
        PROVE  RunRow(x.run)' = RunRow(x.run)
    <3>1. UNCHANGED runVars
      BY <2>1, LeavingIsInert
    <3> QED  BY <3>1 DEF RunRow, runVars
  <2> QED  BY <2>1
<1> QED  BY <1>1, PTL DEF Spec, SupersededIsInert

\* Jobs are added by an admission only.
LEMMA JobsMove ==
  ASSUME RowInv, [Next]_vars
  PROVE  \/ targets' = targets /\ \A r \in Run : jobs'[r] \subseteq jobs[r]
         \/ \E t \in work : TaskAdmit(t)
<1> SUFFICES ASSUME ~ \E t \in work : TaskAdmit(t)
             PROVE  targets' = targets /\ \A r \in Run : jobs'[r] \subseteq jobs[r]
  OBVIOUS
<1>1. ASSUME NEW r \in Run, NEW d \in Device, JobEnds(r, d)
      PROVE  targets' = targets /\ \A q \in Run : jobs'[q] \subseteq jobs[q]
  BY <1>1 DEF JobEnds, RowInv, TypeOK
<1>2. UNCHANGED vars => UNCHANGED <<targets, jobs>>
  BY DEF vars, runVars
<1>3. ASSUME NEW x, SendBack(x) PROVE UNCHANGED <<targets, jobs>>
  BY <1>3 DEF SendBack, runVars
<1>4. ASSUME PumpClaim \/ PumpCrash \/ \E h \in handing : PumpEnqueue(h) \/ PumpTakeBack(h)
      PROVE  UNCHANGED <<targets, jobs>>
  BY <1>3, <1>4 DEF PumpClaim, PumpCrash, PumpEnqueue, PumpTakeBack, runVars
<1>5. ASSUME \/ \E c \in queue : TaskStart(c) \/ QueueLoses(c)
             \/ \E c \in scan : ReaperRecover(c) \/ ReaperSkip(c)
             \/ \E r \in Run : ReaperScan(r) \/ Abort(r)
             \/ \E u \in User : RetryWrite(u) \/ \E r \in Run : RetryRead(u, r)
      PROVE  UNCHANGED <<targets, jobs>>
  BY <1>5 DEF TaskStart, QueueLoses, ReaperRecover, ReaperSkip, ReaperScan, Abort,
              RetryWrite, RetryRead, runVars
<1>6. ASSUME NEW t \in work, TaskStep(t) \/ TaskError(t) \/ WorkerLost(t)
      PROVE  UNCHANGED <<targets, jobs>>
  BY <1>3, <1>6 DEF TaskStep, TaskCheck, TaskTurnedAway, TaskSendBack, TaskFail, TaskError,
                    WorkerLost, runVars
<1> QED  BY <1>1, <1>2, <1>4, <1>5, <1>6 DEF Next

\* Runs share no device, however many attempts, retries and reapings overlap:
\* admission_transaction counts the devices of every run as busy, those of an
\* earlier admission of its own run too.
THEOREM RunsAreApart == Spec => []OneRunPerDevice
<1>1. Init => OneRunPerDevice
  BY DEF Init, OneRunPerDevice
<1>2. ASSUME RowInv, OneRunPerDevice, [Next]_vars
      PROVE  OneRunPerDevice'
  <2>1. CASE targets' = targets /\ \A r \in Run : jobs'[r] \subseteq jobs[r]
    <3> SUFFICES ASSUME NEW q \in Run
                 PROVE  /\ jobs'[q] \subseteq targets'[q]
                        /\ \A r \in Run \ {q} : jobs'[q] \cap jobs'[r] = {}
      BY DEF OneRunPerDevice
    <3>1. jobs[q] \subseteq targets[q] /\ \A r \in Run \ {q} : jobs[q] \cap jobs[r] = {}
      BY <1>2 DEF OneRunPerDevice
    <3>2. jobs'[q] \subseteq targets'[q]
      BY <2>1, <3>1
    <3>3. ASSUME NEW r \in Run \ {q} PROVE jobs'[q] \cap jobs'[r] = {}
      BY <2>1, <3>1
    <3> QED  BY <3>2, <3>3
  <2>2. ASSUME NEW t \in work, TaskAdmit(t)
        PROVE  OneRunPerDevice'
    <3>1. PICK kept \in SUBSET targets[t.run] :
            /\ \A q \in Run : jobs[q] \cap kept = {}
            /\ targets' = [targets EXCEPT ![t.run] = kept]
            /\ jobs' = [jobs EXCEPT ![t.run] = kept]
      BY <1>2, <2>2, AdmitFacts
    <3>2. /\ targets'[t.run] = kept /\ jobs'[t.run] = kept
          /\ \A q \in Run \ {t.run} : targets'[q] = targets[q] /\ jobs'[q] = jobs[q]
      BY <1>2, <3>1, TaskFacts DEF RowInv, TypeOK
    <3>3. ASSUME NEW q \in Run PROVE jobs'[q] \subseteq targets'[q]
      BY <1>2, <3>2 DEF OneRunPerDevice
    <3>4. ASSUME NEW q \in Run, NEW r \in Run \ {q} PROVE jobs'[q] \cap jobs'[r] = {}
      <4>1. CASE q = t.run
        BY <3>1, <3>2, <4>1
      <4>2. CASE r = t.run
        BY <3>1, <3>2, <4>2
      <4>3. CASE q # t.run /\ r # t.run
        BY <1>2, <3>2, <4>3 DEF OneRunPerDevice
      <4> QED  BY <4>1, <4>2, <4>3
    <3> QED  BY <3>3, <3>4 DEF OneRunPerDevice
  <2> QED  BY <1>2, <2>1, <2>2, JobsMove
<1> QED  BY <1>1, <1>2, RowsCorrect, PTL DEF Spec

\* ADR-0026: a run that waits for admission, or was rejected, has no job.  It
\* needs no more than that retries are in time.
THEOREM NoJobBeforeAdmission ==
  Spec /\ NoRetryTooLate => []WaitingRunHoldsNothing
<1>1. Init => WaitingRunHoldsNothing
  BY DEF Init, WaitingRunHoldsNothing
<1>2. RowInv /\ WaitingRunHoldsNothing /\ [Next]_vars /\ [RetryInTime]_vars
        => WaitingRunHoldsNothing'
  BY NextKeepsWaiting
<1> QED  BY <1>1, <1>2, RowsCorrect, PTL DEF Spec, NoRetryTooLate

\* The queue implements the promise of admission, if retries are in time.
THEOREM QueueImplementsPromise ==
  Spec /\ NoRetryTooLate => KeepsRunAdmission
<1>1. Init => Promise!Init
  BY DEF Init, Promise!Init, Verdicts, VerdictOf
<1>2. RowInv /\ [Next]_vars /\ [RetryInTime]_vars
        => [Promise!Next]_<<Verdicts, jobs>>
  BY StepIsPromiseStep
<1> QED  BY <1>1, <1>2, RowsCorrect, PTL DEF Spec, NoRetryTooLate,
         KeepsRunAdmission, Promise!Spec, Promise!vars

\* While no two requests of retry_plan_run_dispatch overlap, none is too late.
THEOREM OneRetrySuffices ==
  ASSUME OneRetryAtATime
  PROVE  Spec => NoRetryTooLate
<1>1. Init => RetryIsOfFailed
  BY DEF Init, RetryIsOfFailed
<1>2. RowInv /\ RetryIsOfFailed /\ [Next]_vars => RetryIsOfFailed'
  BY NextKeepsFailed
<1>3. RetryIsOfFailed => RetryInTime
  BY DEF RetryIsOfFailed, RetryInTime, RetryWrite
<1> QED  BY <1>1, <1>2, <1>3, RowsCorrect, PTL DEF Spec, NoRetryTooLate
=============================================================================
