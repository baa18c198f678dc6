--------------------------- MODULE JobLease_proofs ---------------------------
(* Proofs about JobLease, for every set of jobs, devices, hosts and runs. *)
EXTENDS JobLease, TLAPS

-----------------------------------------------------------------------------
(* Type correctness.  One lemma per shared piece of a transaction. *)

LEMMA NextGen ==
  ASSUME TypeOK, NEW j \in Job
  PROVE  devOf[j] \in Device /\ gen[devOf[j]] + 1 \in Nat
<1>1. devOf[j] \in Device BY ConstantsAssumption
<1>2. gen[devOf[j]] \in Nat BY <1>1 DEF TypeOK
<1> QED BY <1>1, <1>2

LeaseTypes ==
  /\ leaseSt \in [Job -> {"NONE", "ACTIVE", "RELEASED", "CONVERTED"}]
  /\ tok \in [Job -> Nat]
  /\ inst \in [Job -> Instance \cup {""}]
  /\ fresh \in [Job -> BOOLEAN]
  /\ gen \in [Device -> Nat]
  /\ retired \in [Device -> BOOLEAN]
  /\ owed \in [Device -> SUBSET Debts]
  /\ debtTok \in [Device -> Nat]
  /\ seen \in [Job -> {"nothing", "clear", "aborted"}]

LEMMA DebtOfJob == ASSUME TypeOK, NEW j \in Job PROVE <<j, tok[j]>> \in Debts
  BY DEF TypeOK, Debts

LEMMA ReleaseType ==
  ASSUME TypeOK, NEW j \in Job, NEW opens \in BOOLEAN, HandleRelease(j, opens)
  PROVE  LeaseTypes'
<1>1. devOf[j] \in Device /\ gen[devOf[j]] + 1 \in Nat BY NextGen
<1>2. leaseSt' \in [Job -> {"NONE", "ACTIVE", "RELEASED", "CONVERTED"}]
  BY DEF HandleRelease, TypeOK
<1>3. owed' \in [Device -> SUBSET Debts]
  <2>1. owed[devOf[j]] \subseteq Debts BY <1>1 DEF TypeOK
  <2>2. (IF opens THEN owed[devOf[j]] \cup {<<j, tok[j]>>} ELSE owed[devOf[j]]) \in SUBSET Debts
    BY <2>1, DebtOfJob
  <2> QED BY <2>2 DEF HandleRelease, TypeOK
<1>4. gen' \in [Device -> Nat] BY <1>1 DEF HandleRelease, TypeOK
<1>5. debtTok' \in [Device -> Nat] BY <1>1 DEF HandleRelease, TypeOK
<1>6. fresh' \in [Job -> BOOLEAN] /\ seen' \in [Job -> {"nothing", "clear", "aborted"}]
  BY DEF HandleRelease, TypeOK
<1> QED BY <1>2, <1>3, <1>4, <1>5, <1>6 DEF HandleRelease, TypeOK, LeaseTypes

LEMMA NewTokenType ==
  ASSUME TypeOK, NEW j \in Job, NewToken(j)
  PROVE  gen' \in [Device -> Nat] /\ tok' \in [Job -> Nat]
  BY NextGen DEF NewToken, TypeOK

LEMMA TakeOverType ==
  ASSUME TypeOK, NEW j \in Job, NEW i \in Instance, TakeOver(j, i)
  PROVE  /\ inst' \in [Job -> Instance \cup {""}]
         /\ gen' \in [Device -> Nat] /\ tok' \in [Job -> Nat]
  BY NewTokenType DEF TakeOver, TypeOK

LEMMA SeenType ==
  ASSUME TypeOK, NEW j \in Job, NEW v, DecidedOn(j, v)
  PROVE  seen' \in [Job -> {"nothing", "clear", "aborted"}]
  BY DEF DecidedOn, TypeOK

LEMMA SetStatusType ==
  ASSUME TypeOK, NEW j \in Job, NEW s \in Active \cup Terminal, SetStatus(j, s)
  PROVE  /\ status' \in [Job -> {"ABSENT"} \cup Active \cup Terminal]
         /\ grace' \in [Job -> BOOLEAN]
  BY DEF SetStatus, TypeOK

LEMMA ToUnknownType == ASSUME TypeOK, NEW j \in Job, ToUnknown(j) PROVE TypeOK'
  BY DEF ToUnknown, TypeOK, Active, leaseVars, deviceVars, requestVars, abortVars

LEMMA AcceptType ==
  ASSUME TypeOK, NEW j \in Job, NEW p \in Payload, NEW opens \in BOOLEAN,
         AcceptCompletion(j, p, opens)
  PROVE  TypeOK'
<1>1. outcome[p] \in Terminal BY ConstantsAssumption
<1>2. LeaseTypes' BY ReleaseType DEF AcceptCompletion
<1>3. /\ status' \in [Job -> {"ABSENT"} \cup Active \cup Terminal]
      /\ grace' \in [Job -> BOOLEAN]
  BY <1>1, SetStatusType DEF AcceptCompletion
<1> QED BY <1>2, <1>3 DEF AcceptCompletion, TypeOK, LeaseTypes, requestVars

LEMMA WindowType ==
  ASSUME TypeOK, NEW r \in Run, NEW P \in SUBSET Job, NEW R \in SUBSET Job,
         OpenWindow(r, P, R)
  PROVE  window' \subseteq Window
<1>1. [run |-> r, pending |-> P, running |-> R] \in Window BY DEF Window
<1> QED BY <1>1 DEF OpenWindow, TypeOK

LEMMA TypeInit == Init => TypeOK
<1> SUFFICES ASSUME Init PROVE TypeOK
  OBVIOUS
<1>1. status \in [Job -> {"ABSENT"} \cup Active \cup Terminal] BY DEF Init
<1>2. phase \in [Run -> {"QUEUED", "VALIDATED", "STARTED", "FAILED"}] BY DEF Init
<1>3. fact \in [Job -> Payload \cup {NoPayload}] BY DEF Init
<1>4. LeaseTypes BY DEF Init, LeaseTypes
<1>5. requested \in [Run -> SUBSET Job] BY DEF Init
<1>6. clock \in [Run -> BOOLEAN] /\ grace \in [Job -> BOOLEAN] BY DEF Init
<1>7. hostClock \subseteq Run \X Host /\ window \subseteq Window BY DEF Init
<1> QED BY <1>1, <1>2, <1>3, <1>4, <1>5, <1>6, <1>7 DEF TypeOK, LeaseTypes

LEMMA TypeStep == TypeOK /\ [Next]_vars => TypeOK'
<1> SUFFICES ASSUME TypeOK, [Next]_vars PROVE TypeOK'
  OBVIOUS
<1> USE DEF leaseVars, deviceVars, requestVars, abortVars, jobVars
<1>1. ASSUME NEW r \in Run, ValidateDevices(r) PROVE TypeOK'
  BY <1>1 DEF ValidateDevices, TypeOK
<1>2. ASSUME NEW r \in Run, MaterializeJobs(r) PROVE TypeOK'
  BY <1>2 DEF MaterializeJobs, TypeOK, Active
<1>3. ASSUME NEW j \in Job, NEW i \in Instance, ClaimJob(j, i) PROVE TypeOK'
  <2>1. gen' \in [Device -> Nat] /\ tok' \in [Job -> Nat]
    BY <1>3, NewTokenType DEF ClaimJob
  <2> QED BY <1>3, <2>1 DEF ClaimJob, TypeOK, Active
<1>4. ASSUME NEW j \in Job, NEW i \in Instance, NEW t, ExtendLease(j, t, i) PROVE TypeOK'
  BY <1>4 DEF ExtendLease, TypeOK
<1>5. ASSUME NEW j \in Job, NEW i \in Instance, NEW t, RecoverAbort(j, t, i) PROVE TypeOK'
  BY <1>5, TakeOverType, SeenType DEF RecoverAbort, TypeOK
<1>6. ASSUME NEW j \in Job, NEW i \in Instance, NEW t, RecoverResume(j, t, i) PROVE TypeOK'
  <2>1. "RUNNING" \in Active \cup Terminal BY DEF Active
  <2> QED BY <1>6, <2>1, TakeOverType, SetStatusType, SeenType DEF RecoverResume, TypeOK
<1>7. ASSUME NEW j \in Job, NEW i \in Instance, NEW t, RecoverTakeover(j, t, i) PROVE TypeOK'
  BY <1>7, TakeOverType, SeenType DEF RecoverTakeover, TypeOK
<1>8. ASSUME NEW j \in Job, NEW p \in Payload, NEW opens \in BOOLEAN, NEW t,
             CompleteJob(j, t, p, opens) \/ CompleteLate(j, t, p, opens)
      PROVE  TypeOK'
  BY <1>8, AcceptType DEF CompleteJob, CompleteLate
<1>9. ASSUME NEW j \in Job, NEW p \in Payload, NEW t, LateConfirmed(j, t, p) PROVE TypeOK'
  BY <1>9, NextGen DEF LateConfirmed, TypeOK
<1>10. ASSUME NEW j \in Job, NEW opens \in BOOLEAN, NEW t,
              RecoverBootMismatch(j, t, opens) \/ FinalizeExpired(j, opens)
       PROVE  TypeOK'
  <2>1. "FAILED" \in Active \cup Terminal BY DEF Terminal
  <2>2. /\ SetStatus(j, "FAILED") /\ HandleRelease(j, opens)
        /\ UNCHANGED <<phase, fact, requestVars>>
    BY <1>10 DEF RecoverBootMismatch, FinalizeExpired
  <2>3. LeaseTypes' BY <2>2, ReleaseType DEF TypeOK, LeaseTypes
  <2> QED BY <2>1, <2>2, <2>3, ReleaseType, SetStatusType DEF TypeOK, LeaseTypes
<1>11. ASSUME NEW j \in Job, NEW opens \in BOOLEAN, NEW t, RecoverCleanup(j, t, opens)
       PROVE  TypeOK'
  BY <1>11, ReleaseType DEF RecoverCleanup, TypeOK, LeaseTypes
<1>12. ASSUME NEW j \in Job, ExpireToUnknown(j) \/ ReapAborted(j) \/ RunningTimeout(j)
       PROVE  TypeOK'
  BY <1>12, ToUnknownType DEF ExpireToUnknown, ReapAborted, RunningTimeout
<1>13. ASSUME NEW j \in Job, NEW opens \in BOOLEAN, FinalizeStale(j, opens) PROVE TypeOK'
  <2>1. "FAILED" \in Active \cup Terminal BY DEF Terminal
  <2>2. LeaseTypes' BY <1>13, ReleaseType DEF FinalizeStale, TypeOK, LeaseTypes
  <2> QED BY <1>13, <2>1, <2>2, SetStatusType DEF FinalizeStale, TypeOK, LeaseTypes
<1>14. ASSUME NEW j \in Job, PendingTimeout(j) PROVE TypeOK'
  <2>1. "FAILED" \in Active \cup Terminal BY DEF Terminal
  <2> QED BY <1>14, <2>1, ReleaseType, SetStatusType DEF PendingTimeout, TypeOK, LeaseTypes
<1>15. ASSUME NEW j \in Job, LeaseExpires(j) \/ GraceExpires(j) PROVE TypeOK'
  BY <1>15 DEF LeaseExpires, GraceExpires, TypeOK
<1>16. ASSUME NEW r \in Run, AbortQueued(r) PROVE TypeOK'
  BY <1>16 DEF AbortQueued, TypeOK
<1>17. ASSUME NEW r \in Run, AbortRun(r) PROVE TypeOK'
  <2>1. window' \subseteq Window
    BY <1>17, WindowType DEF AbortRun, JobsIn, JobsOfRun
  <2> QED BY <1>17, <2>1 DEF AbortRun, TypeOK, JobsIn, JobsOfRun
<1>18. ASSUME NEW r \in Run, NEW h \in Host, AbortHost(r, h) PROVE TypeOK'
  <2>1. window' \subseteq Window
    BY <1>18, WindowType DEF AbortHost, JobsIn, JobsOfRun
  <2>2. hostClock' \subseteq Run \X Host
    <3>1. hostClock \subseteq Run \X Host BY DEF TypeOK
    <3>2. hostClock' = hostClock \cup {<<r, h>>} BY <1>18 DEF AbortHost
    <3> QED BY <3>1, <3>2
  <2>3. requested' \in [Run -> SUBSET Job]
    BY <1>18 DEF AbortHost, TypeOK, JobsIn, JobsOfRun
  <2> QED BY <1>18, <2>1, <2>2, <2>3 DEF AbortHost, TypeOK
<1>19. ASSUME NEW w \in window, AbortPending(w) PROVE TypeOK'
  <2>1. w.run \in Run /\ w.pending \subseteq Job /\ w.running \subseteq Job
    BY DEF TypeOK, Window
  <2> QED BY <1>19, <2>1 DEF AbortPending, TypeOK, Terminal
<1>20. ASSUME NEW w \in window, AbortInterrupted(w) PROVE TypeOK'
  BY <1>20 DEF AbortInterrupted, TypeOK
<1>21. ASSUME NEW d \in Device, NEW S \in SUBSET owed[d], CloseDebts(d, S) PROVE TypeOK'
  BY <1>21 DEF CloseDebts, TypeOK
<1>22. ASSUME NEW d \in Device, RetireDevice(d) PROVE TypeOK'
  BY <1>22 DEF RetireDevice, TypeOK
<1>23. ASSUME NEW d \in Device, UnretireDevice(d) PROVE TypeOK'
  <2>1. gen[d] \in Nat BY DEF TypeOK
  <2>2. gen[d] + 1 \in Nat BY <2>1
  <2> QED BY <1>23, <2>2 DEF UnretireDevice, TypeOK
<1>24. ASSUME NEW j \in Job, RecoveryReads(j) PROVE TypeOK'
  BY <1>24 DEF RecoveryReads, TypeOK
<1>25. ASSUME NEW j \in Job, NEW t \in Tokens(devOf[j]), NEW opens \in BOOLEAN,
              NEW S \in SUBSET owed[devOf[j]], InitCheck(j, t, S, opens)
       PROVE  TypeOK'
  <2>1. devOf[j] \in Device /\ t \in Nat BY NextGen DEF Tokens
  <2>2. owed[devOf[j]] \in SUBSET Debts BY <2>1 DEF TypeOK
  <2>3. <<j, t>> \in Debts BY <2>1 DEF Debts
  <2>4. (owed[devOf[j]] \ S) \cup (IF opens THEN {<<j, t>>} ELSE {}) \in SUBSET Debts
    BY <2>2, <2>3
  <2> QED BY <1>25, <2>4 DEF InitCheck, TypeOK
<1>26. ASSUME NEW d \in Device, NEW opens \in BOOLEAN, NEW recorded \in BOOLEAN,
              InitReturn(d, opens, recorded)
       PROVE  TypeOK'
  <2>0. gen[d] \in Nat BY DEF TypeOK
  <2>1. gen[d] + 1 \in Nat BY <2>0
  <2>2. (IF opens THEN owed[d] \cup {Stock} ELSE owed[d]) \in SUBSET Debts
    BY DEF TypeOK, Debts
  <2>3. owed' \in [Device -> SUBSET Debts] BY <1>26, <2>2 DEF InitReturn, TypeOK
  <2>4. gen' \in [Device -> Nat] /\ debtTok' \in [Device -> Nat]
    BY <1>26, <2>1 DEF InitReturn, TypeOK
  <2> QED BY <1>26, <2>3, <2>4 DEF InitReturn, TypeOK
<1>27. CASE UNCHANGED vars
  BY <1>27 DEF TypeOK, vars
<1> QED
  BY <1>1, <1>2, <1>3, <1>4, <1>5, <1>6, <1>7, <1>8, <1>9, <1>10, <1>11, <1>12, <1>13,
     <1>14, <1>15, <1>16, <1>17, <1>18, <1>19, <1>20, <1>21, <1>22, <1>23, <1>24, <1>25,
     <1>26, <1>27
  DEF Next, Dispatch, AgentCall, Supervise, TimePasses, Abort, Administer, Discharge, Override

\* Every reachable state of the control plane is well typed.
THEOREM TypeCorrect == Spec => []TypeOK
  BY TypeInit, TypeStep, PTL DEF Spec

-----------------------------------------------------------------------------
(* The lease invariant.  None of the five is inductive alone: a rotation    *)
(* keeps NewestToken because of LeaseExclusion, the timeout of a PENDING job *)
(* keeps LeaseFollowsJob because of DebtHoldsDevice (it must not conjure up  *)
(* a debt lease), a release keeps DebtHoldsDevice because of                 *)
(* RetiredDeviceIdle and LeaseFollowsJob.  Together they are.                *)

LeaseInv ==
  /\ LeaseExclusion
  /\ LeaseFollowsJob
  /\ NewestToken
  /\ DebtHoldsDevice
  /\ RetiredDeviceIdle

Holding(j) == status[j] \in {"RUNNING", "UNKNOWN"}

LEMMA JobsOnDevice == \A j \in Job : devOf[j] \in Device /\ j \in JobsOn(devOf[j])
  BY ConstantsAssumption DEF JobsOn

LEMMA InitInv == Init => LeaseInv
<1> SUFFICES ASSUME Init PROVE LeaseInv
  OBVIOUS
<1>1. \A j \in Job : ~Leased(j) /\ status[j] = "ABSENT" BY DEF Init, Leased
<1>2. \A d \in Device : debtTok[d] = 0 /\ owed[d] = {} BY DEF Init
<1> QED
  BY <1>1, <1>2 DEF LeaseInv, LeaseExclusion, LeaseFollowsJob, NewestToken,
     DebtHoldsDevice, RetiredDeviceIdle, JobsOn

\* A step that leaves leases and debts alone and starts no job.
LEMMA QuietInv ==
  ASSUME LeaseInv, UNCHANGED <<leaseSt, tok, gen, retired, owed, debtTok>>,
         \A j \in Job : Holding(j)' <=> Holding(j),
         \A j \in Job : status'[j] = "RUNNING" => Leased(j)
  PROVE  LeaseInv'
<1> USE DEF LeaseInv
<1>1. LeaseExclusion' BY DEF LeaseExclusion, Leased
<1>2. LeaseFollowsJob' BY DEF LeaseFollowsJob, Leased, Holding
<1>3. NewestToken' BY DEF NewestToken, Leased
<1>4. DebtHoldsDevice' BY DEF DebtHoldsDevice, Busy, Leased
<1>5. RetiredDeviceIdle' BY DEF RetiredDeviceIdle, Holding
<1> QED BY <1>1, <1>2, <1>3, <1>4, <1>5

\* The holder of a device gets a new token.
LEMMA RotateInv ==
  ASSUME TypeOK, LeaseInv, NEW j \in Job, Leased(j), NewToken(j),
         UNCHANGED <<leaseSt, retired, owed, debtTok>>,
         \A k \in Job : Holding(k)' <=> Holding(k),
         \A k \in Job : status'[k] = "RUNNING" => Leased(k)
  PROVE  LeaseInv'
<1> USE DEF LeaseInv
<1>1. LeaseExclusion' BY DEF LeaseExclusion, Leased
<1>2. LeaseFollowsJob' BY DEF LeaseFollowsJob, Leased, Holding
<1>3. NewestToken'
  <2>1. \A k \in JobsOn(devOf[j]) : Leased(k) => k = j
    BY JobsOnDevice DEF LeaseExclusion
  <2>2. debtTok[devOf[j]] = 0 BY JobsOnDevice DEF LeaseExclusion
  <2> QED BY <2>1, <2>2, JobsOnDevice DEF NewestToken, NewToken, TypeOK, Leased, JobsOn
<1>4. DebtHoldsDevice' BY DEF DebtHoldsDevice, Busy, Leased
<1>5. RetiredDeviceIdle' BY DEF RetiredDeviceIdle, Holding
<1> QED BY <1>1, <1>2, <1>3, <1>4, <1>5

\* A job's lease is acquired.
LEMMA ClaimInv ==
  ASSUME TypeOK, LeaseInv, NEW j \in Job, NEW i \in Instance, ClaimJob(j, i)
  PROVE  LeaseInv'
<1> USE DEF LeaseInv
<1>0. /\ devOf[j] \in Device /\ ~retired[devOf[j]] /\ debtTok[devOf[j]] = 0
      /\ \A k \in JobsOn(devOf[j]) : ~Leased(k)
      /\ leaseSt' = [leaseSt EXCEPT ![j] = "ACTIVE"]
      /\ status' = [status EXCEPT ![j] = "RUNNING"]
      /\ UNCHANGED <<retired, owed, debtTok>>
  BY JobsOnDevice DEF ClaimJob, Claimable, Busy, deviceVars
<1>1. LeaseExclusion' BY <1>0 DEF LeaseExclusion, Leased, JobsOn, TypeOK
<1>2. LeaseFollowsJob' BY <1>0 DEF LeaseFollowsJob, Leased, TypeOK
<1>3. NewestToken'
  <2>1. /\ gen' = [gen EXCEPT ![devOf[j]] = @ + 1]
        /\ tok' = [tok EXCEPT ![j] = gen[devOf[j]] + 1]
    BY DEF ClaimJob, NewToken
  <2>2. ASSUME NEW e \in Device, NEW k \in JobsOn(e), Leased(k)' PROVE tok'[k] = gen'[e]
    <3>1. CASE k = j BY <1>0, <2>1, <3>1 DEF JobsOn, TypeOK
    <3>2. CASE k # j
      <4>1. Leased(k) /\ e # devOf[j] BY <1>0, <2>2, <3>2 DEF Leased, JobsOn, TypeOK
      <4> QED BY <2>1, <3>2, <4>1 DEF NewestToken, JobsOn, TypeOK
    <3> QED BY <3>1, <3>2
  <2>3. ASSUME NEW e \in Device, debtTok'[e] # 0 PROVE debtTok'[e] = gen'[e]
    BY <1>0, <2>1, <2>3 DEF NewestToken, TypeOK
  <2> QED BY <2>2, <2>3 DEF NewestToken, JobsOn
<1>4. DebtHoldsDevice'
  <2>1. \A k \in Job : Leased(k) => Leased(k)' BY <1>0 DEF Leased, TypeOK
  <2>2. \A e \in Device : Busy(e) => Busy(e)' BY <1>0, <2>1 DEF Busy, JobsOn
  <2> QED BY <1>0, <2>2 DEF DebtHoldsDevice
<1>5. RetiredDeviceIdle' BY <1>0 DEF RetiredDeviceIdle, TypeOK
<1> QED BY <1>1, <1>2, <1>3, <1>4, <1>5

\* The holder's lease ends, in release or in debt, and the job is not RUNNING.
LEMMA ReleaseInv ==
  ASSUME TypeOK, LeaseInv, NEW j \in Job, NEW opens \in BOOLEAN, Leased(j),
         HandleRelease(j, opens),
         NEW s \in {"UNKNOWN"} \cup Terminal, status' = [status EXCEPT ![j] = s]
  PROVE  LeaseInv'
<1> DEFINE d == devOf[j]
           open == IF opens THEN owed[d] \cup {<<j, tok[j]>>} ELSE owed[d]
<1>0. d \in Device /\ gen[d] \in Nat BY JobsOnDevice DEF TypeOK
<1>1. /\ ~retired[d] /\ debtTok[d] = 0
      /\ \A k \in JobsOn(d) : Leased(k) => k = j
  BY <1>0, JobsOnDevice
  DEF LeaseInv, LeaseExclusion, LeaseFollowsJob, RetiredDeviceIdle
<1>2. /\ owed' = [owed EXCEPT ![d] = open]
      /\ gen' = IF open # {} THEN [gen EXCEPT ![d] = @ + 1] ELSE gen
      /\ debtTok' = IF open # {} THEN [debtTok EXCEPT ![d] = gen[d] + 1] ELSE debtTok
      /\ leaseSt' = [leaseSt EXCEPT ![j] = IF open # {} THEN "CONVERTED" ELSE "RELEASED"]
      /\ UNCHANGED <<tok, retired>>
  BY DEF HandleRelease
<1>3. \A k \in Job : Leased(k)' <=> Leased(k) /\ k # j
  BY <1>2 DEF Leased, TypeOK
<1> HIDE DEF d, open
<1>4. LeaseExclusion'
  <2>1. ASSUME NEW e \in Device, NEW k \in JobsOn(e), NEW m \in JobsOn(e),
               Leased(k)', Leased(m)'
        PROVE  k = m
    BY <1>3, <2>1 DEF LeaseInv, LeaseExclusion, JobsOn
  <2>2. ASSUME NEW e \in Device, debtTok'[e] # 0, NEW k \in JobsOn(e), Leased(k)'
        PROVE  FALSE
    <3>1. k \in Job /\ Leased(k) /\ k # j
      BY <1>3, <2>2 DEF JobsOn
    <3>2. e # d BY <1>1, <2>2, <3>1
    <3>3. debtTok'[e] = debtTok[e] BY <1>2, <3>2 DEF TypeOK
    <3> QED BY <2>2, <3>1, <3>3 DEF LeaseInv, LeaseExclusion
  <2> QED BY <2>1, <2>2 DEF LeaseExclusion, JobsOn
<1>5. LeaseFollowsJob'
  BY <1>2, <1>3 DEF LeaseInv, LeaseFollowsJob, TypeOK, Terminal
<1>6. NewestToken'
  BY <1>0, <1>1, <1>2, <1>3 DEF LeaseInv, NewestToken, JobsOn, TypeOK
<1>7. DebtHoldsDevice'
  <2>1. ASSUME NEW e \in Device \ {d}
        PROVE  UNCHANGED <<debtTok[e], owed[e], retired[e]>> /\ (Busy(e) => Busy(e)')
    <3>1. UNCHANGED <<debtTok[e], owed[e], retired[e]>> BY <1>2, <2>1 DEF TypeOK
    <3>2. \A k \in JobsOn(e) : Leased(k) => Leased(k)' BY <1>3, <2>1 DEF JobsOn, d
    <3> QED BY <3>1, <3>2 DEF Busy, JobsOn
  <2>2. ~retired'[d] /\ owed'[d] = open BY <1>0, <1>1, <1>2 DEF TypeOK
  <2>3. ASSUME open # {} PROVE Busy(d)'
    <3>1. debtTok'[d] = gen[d] + 1 BY <1>0, <1>2, <2>3 DEF TypeOK
    <3> QED BY <1>0, <3>1 DEF Busy
  <2> QED BY <2>1, <2>2, <2>3 DEF LeaseInv, DebtHoldsDevice
<1>8. RetiredDeviceIdle'
  BY <1>1, <1>2 DEF LeaseInv, RetiredDeviceIdle, TypeOK, d
<1> QED BY <1>4, <1>5, <1>6, <1>7, <1>8 DEF LeaseInv

\* A job that never started has nothing to release.
LEMMA PendingInv ==
  ASSUME TypeOK, LeaseInv, NEW j \in Job, PendingTimeout(j)
  PROVE  LeaseInv'
<1>0. devOf[j] \in Device /\ ~Leased(j) /\ status[j] = "PENDING"
  BY JobsOnDevice DEF PendingTimeout, LeaseInv, LeaseFollowsJob
<1>1. ~(owed[devOf[j]] # {} /\ ~Busy(devOf[j]) /\ ~retired[devOf[j]])
  BY <1>0 DEF LeaseInv, DebtHoldsDevice, Busy
<1>2. UNCHANGED <<leaseSt, tok, gen, retired, owed, debtTok>>
  BY <1>0, <1>1 DEF PendingTimeout, HandleRelease, TypeOK
<1>3. status' = [status EXCEPT ![j] = "FAILED"]
  BY DEF PendingTimeout, SetStatus
<1>4. \A k \in Job : Holding(k)' <=> Holding(k)
  BY <1>0, <1>3 DEF Holding, TypeOK
<1>5. \A k \in Job : status'[k] = "RUNNING" => Leased(k)
  BY <1>3 DEF LeaseInv, LeaseFollowsJob, TypeOK
<1> QED BY <1>2, <1>4, <1>5, QuietInv

\* Debts are closed: the debt lease goes with the last of them.
LEMMA CloseInv ==
  ASSUME TypeOK, LeaseInv, NEW d \in Device, NEW closed, CloseDebts(d, closed)
  PROVE  LeaseInv'
<1> USE DEF LeaseInv
<1>1. /\ UNCHANGED <<status, leaseSt, tok, gen, retired>>
      /\ \A e \in Device : debtTok'[e] # 0 => debtTok'[e] = debtTok[e]
  BY DEF CloseDebts, TypeOK, jobVars, leaseVars
<1>2. LeaseExclusion' BY <1>1 DEF LeaseExclusion, Leased
<1>3. LeaseFollowsJob' BY <1>1 DEF LeaseFollowsJob, Leased
<1>4. NewestToken' BY <1>1 DEF NewestToken, Leased
<1>5. DebtHoldsDevice'
  <2>1. /\ owed' = [owed EXCEPT ![d] = @ \ closed]
        /\ debtTok' = IF owed[d] \ closed = {} THEN [debtTok EXCEPT ![d] = 0] ELSE debtTok
    BY DEF CloseDebts
  <2>2. ASSUME NEW e \in Device, owed'[e] # {}
        PROVE  owed[e] # {} /\ debtTok'[e] = debtTok[e]
    BY <2>1, <2>2 DEF TypeOK
  <2>3. \A e \in Device : Busy(e) /\ debtTok'[e] = debtTok[e] => Busy(e)'
    BY <1>1 DEF Busy, Leased, JobsOn
  <2> QED BY <1>1, <2>2, <2>3 DEF DebtHoldsDevice
<1>6. RetiredDeviceIdle' BY <1>1 DEF RetiredDeviceIdle
<1> QED BY <1>2, <1>3, <1>4, <1>5, <1>6

LEMMA RetireInv ==
  ASSUME TypeOK, LeaseInv, NEW d \in Device, RetireDevice(d)
  PROVE  LeaseInv'
<1> USE DEF LeaseInv
<1>1. /\ UNCHANGED <<status, leaseSt, tok, gen, owed>>
      /\ retired' = [retired EXCEPT ![d] = TRUE]
      /\ debtTok' = [debtTok EXCEPT ![d] = 0]
      /\ \A j \in JobsOn(d) : status[j] \notin Active
  BY DEF RetireDevice, jobVars, leaseVars
<1>2. LeaseExclusion' BY <1>1 DEF LeaseExclusion, Leased, TypeOK
<1>3. LeaseFollowsJob' BY <1>1 DEF LeaseFollowsJob, Leased
<1>4. NewestToken' BY <1>1 DEF NewestToken, Leased, TypeOK
<1>5. DebtHoldsDevice'
  <2>1. ASSUME NEW e \in Device, ~retired'[e]
        PROVE  e # d /\ UNCHANGED <<debtTok[e], retired[e]>>
    BY <1>1, <2>1 DEF TypeOK
  <2>2. \A e \in Device : debtTok'[e] = debtTok[e] /\ Busy(e) => Busy(e)'
    BY <1>1 DEF Busy, Leased, JobsOn
  <2>3. \A e \in Device : debtTok'[e] # 0 => e # d /\ debtTok[e] # 0
    BY <1>1 DEF TypeOK
  <2>4. \A e \in Device \ {d} : retired'[e] = retired[e] BY <1>1 DEF TypeOK
  <2> QED BY <1>1, <2>1, <2>2, <2>3, <2>4 DEF DebtHoldsDevice
<1>6. RetiredDeviceIdle'
  <2> SUFFICES ASSUME NEW j \in Job, retired'[devOf[j]]
               PROVE  status'[j] \notin {"RUNNING", "UNKNOWN"}
    BY DEF RetiredDeviceIdle
  <2>1. devOf[j] \in Device BY JobsOnDevice
  <2>2. CASE devOf[j] = d BY <1>1, <2>2 DEF JobsOn, Active
  <2>3. CASE devOf[j] # d BY <1>1, <2>1, <2>3 DEF RetiredDeviceIdle, TypeOK
  <2> QED BY <2>2, <2>3
<1> QED BY <1>2, <1>3, <1>4, <1>5, <1>6

LEMMA UnretireInv ==
  ASSUME TypeOK, LeaseInv, NEW d \in Device, UnretireDevice(d)
  PROVE  LeaseInv'
<1> USE DEF LeaseInv
<1>0. gen[d] \in Nat BY DEF TypeOK
<1>1. /\ UNCHANGED <<status, leaseSt, tok, owed>>
      /\ retired' = [retired EXCEPT ![d] = FALSE]
      /\ debtTok[d] = 0 /\ \A j \in JobsOn(d) : ~Leased(j)
  BY DEF UnretireDevice, jobVars, DebtHoldsDevice, RetiredDeviceIdle, LeaseFollowsJob, JobsOn
<1>4. RetiredDeviceIdle'
  <2>1. \A j \in Job : retired'[devOf[j]] => retired[devOf[j]]
    BY <1>1, JobsOnDevice DEF TypeOK
  <2> QED BY <1>1, <2>1 DEF RetiredDeviceIdle
<1>2. CASE owed[d] = {}
  <2>1. UNCHANGED <<gen, debtTok>> BY <1>2 DEF UnretireDevice, Restores
  <2>2. LeaseExclusion' BY <1>1, <2>1 DEF LeaseExclusion, Leased
  <2>3. LeaseFollowsJob' BY <1>1 DEF LeaseFollowsJob, Leased
  <2>4. NewestToken' BY <1>1, <2>1 DEF NewestToken, Leased
  <2>5. DebtHoldsDevice'
    <3>1. \A e \in Device : Busy(e) => Busy(e)' BY <1>1, <2>1 DEF Busy, Leased, JobsOn
    <3> QED BY <1>1, <1>2, <2>1, <3>1 DEF DebtHoldsDevice, TypeOK
  <2>6. RetiredDeviceIdle' BY <1>4
  <2> QED BY <2>2, <2>3, <2>4, <2>5, <2>6
<1>3. CASE owed[d] # {}
  <2>1. /\ gen' = [gen EXCEPT ![d] = @ + 1]
        /\ debtTok' = [debtTok EXCEPT ![d] = gen[d] + 1]
    BY <1>1, <1>3 DEF UnretireDevice, Restores, Busy
  <2>2. LeaseExclusion' BY <1>1, <2>1 DEF LeaseExclusion, Leased, TypeOK
  <2>3. LeaseFollowsJob' BY <1>1 DEF LeaseFollowsJob, Leased
  <2>4. NewestToken' BY <1>0, <1>1, <2>1 DEF NewestToken, Leased, TypeOK
  <2>5. DebtHoldsDevice'
    <3>0. debtTok'[d] = gen[d] + 1 BY <2>1 DEF TypeOK
    <3>1. Busy(d)' BY <1>0, <3>0 DEF Busy
    <3>2. \A e \in Device \ {d} : UNCHANGED <<debtTok[e], owed[e], retired[e]>>
      BY <1>1, <2>1 DEF TypeOK
    <3>3. \A e \in Device \ {d} : Busy(e) => Busy(e)'
      BY <1>1, <3>2 DEF Busy, Leased, JobsOn
    <3>4. ~retired'[d] BY <1>1 DEF TypeOK
    <3> QED BY <3>1, <3>2, <3>3, <3>4 DEF DebtHoldsDevice
  <2>6. RetiredDeviceIdle' BY <1>4
  <2> QED BY <2>2, <2>3, <2>4, <2>5, <2>6
<1> QED BY <1>2, <1>3

\* The debts that the init check of a running job opens wait under its lease.
LEMMA InitCheckInv ==
  ASSUME TypeOK, LeaseInv, NEW j \in Job, NEW t, NEW S, NEW opens \in BOOLEAN,
         InitCheck(j, t, S, opens)
  PROVE  LeaseInv'
<1> USE DEF LeaseInv
<1>1. /\ UNCHANGED <<status, leaseSt, tok, gen, retired, debtTok>>
      /\ Leased(j) /\ devOf[j] \in Device /\ j \in JobsOn(devOf[j])
      /\ \A e \in Device \ {devOf[j]} : owed'[e] = owed[e]
  BY JobsOnDevice DEF InitCheck, ValidLease, TypeOK, jobVars, leaseVars
<1>2. LeaseExclusion' BY <1>1 DEF LeaseExclusion, Leased
<1>3. LeaseFollowsJob' BY <1>1 DEF LeaseFollowsJob, Leased
<1>4. NewestToken' BY <1>1 DEF NewestToken, Leased
<1>5. DebtHoldsDevice'
  <2>1. \A e \in Device : Busy(e) => Busy(e)' BY <1>1 DEF Busy, Leased
  <2>2. Busy(devOf[j]) BY <1>1 DEF Busy
  <2> QED BY <1>1, <2>1, <2>2 DEF DebtHoldsDevice
<1>6. RetiredDeviceIdle' BY <1>1 DEF RetiredDeviceIdle
<1> QED BY <1>2, <1>3, <1>4, <1>5, <1>6

\* The debts of the history are recorded, and take the device if it is free.
LEMMA InitReturnInv ==
  ASSUME TypeOK, LeaseInv, NEW d \in Device, NEW opens \in BOOLEAN, NEW recorded \in BOOLEAN,
         InitReturn(d, opens, recorded)
  PROVE  LeaseInv'
<1> USE DEF LeaseInv
<1> DEFINE open == IF opens THEN owed[d] \cup {Stock} ELSE owed[d]
           debt == (open # {} \/ recorded) /\ ~Busy(d)
<1>0. gen[d] \in Nat BY DEF TypeOK
<1>1. /\ UNCHANGED <<status, leaseSt, tok, retired>> /\ ~retired[d]
      /\ owed' = [owed EXCEPT ![d] = open]
      /\ gen' = IF debt THEN [gen EXCEPT ![d] = @ + 1] ELSE gen
      /\ debtTok' = IF debt THEN [debtTok EXCEPT ![d] = gen[d] + 1] ELSE debtTok
  BY DEF InitReturn, jobVars
<1> HIDE DEF open
<1>2. \A e \in Device \ {d} : UNCHANGED <<owed[e], gen[e], debtTok[e]>>
  BY <1>1 DEF TypeOK
<1>3. CASE debt
  <2>1. /\ debtTok[d] = 0 /\ \A k \in JobsOn(d) : ~Leased(k)
        /\ gen'[d] = gen[d] + 1 /\ debtTok'[d] = gen[d] + 1
    BY <1>1, <1>3 DEF Busy, TypeOK
  <2>2. LeaseExclusion' BY <1>1, <1>2, <2>1 DEF LeaseExclusion, Leased
  <2>3. LeaseFollowsJob' BY <1>1 DEF LeaseFollowsJob, Leased
  <2>4. NewestToken' BY <1>1, <1>2, <2>1 DEF NewestToken, Leased
  <2>5. DebtHoldsDevice'
    <3>1. Busy(d)' BY <1>0, <2>1 DEF Busy
    <3>2. \A e \in Device \ {d} : Busy(e) => Busy(e)' BY <1>1, <1>2 DEF Busy, Leased
    <3> QED BY <1>1, <1>2, <3>1, <3>2 DEF DebtHoldsDevice
  <2>6. RetiredDeviceIdle' BY <1>1 DEF RetiredDeviceIdle
  <2> QED BY <2>2, <2>3, <2>4, <2>5, <2>6
<1>4. CASE ~debt
  <2>1. UNCHANGED <<gen, debtTok>> BY <1>1, <1>4
  <2>2. LeaseExclusion' /\ LeaseFollowsJob' /\ NewestToken' /\ RetiredDeviceIdle'
    BY <1>1, <2>1 DEF LeaseExclusion, LeaseFollowsJob, NewestToken, RetiredDeviceIdle, Leased
  <2>3. DebtHoldsDevice'
    <3>1. \A e \in Device : Busy(e) => Busy(e)' BY <1>1, <2>1 DEF Busy, Leased
    <3>2. owed'[d] # {} => Busy(d) BY <1>1, <1>4 DEF TypeOK
    <3> QED BY <1>1, <1>2, <2>1, <3>1, <3>2 DEF DebtHoldsDevice
  <2> QED BY <2>2, <2>3
<1> QED BY <1>3, <1>4

LEMMA LeaseStep == TypeOK /\ LeaseInv /\ [Next]_vars => LeaseInv'
<1> SUFFICES ASSUME TypeOK, LeaseInv, [Next]_vars PROVE LeaseInv'
  OBVIOUS
<1> USE DEF leaseVars, deviceVars, requestVars, abortVars, jobVars
<1>0. /\ \A j \in Job : status[j] = "RUNNING" => Leased(j)
      /\ \A j \in Job : Leased(j) => Holding(j) /\ devOf[j] \in Device
  BY JobsOnDevice DEF LeaseInv, LeaseFollowsJob, Holding
<1>1. ASSUME NEW r \in Run, ValidateDevices(r) PROVE LeaseInv'
  BY <1>0, <1>1, QuietInv DEF ValidateDevices, Holding
<1>2. ASSUME NEW r \in Run, MaterializeJobs(r) PROVE LeaseInv'
  <2>1. \A j \in Job : status'[j] # status[j] => status'[j] = "PENDING" /\ status[j] \notin Active
    BY <1>2 DEF MaterializeJobs, JobsOfRun
  <2>2. UNCHANGED <<leaseSt, tok, gen, retired, owed, debtTok>>
    BY <1>2 DEF MaterializeJobs
  <2> QED BY <1>0, <2>1, <2>2, QuietInv DEF Holding, Active
<1>3. ASSUME NEW j \in Job, NEW i \in Instance, ClaimJob(j, i) PROVE LeaseInv'
  BY <1>3, ClaimInv
<1>4. ASSUME NEW j \in Job, NEW i \in Instance, NEW t, ExtendLease(j, t, i) PROVE LeaseInv'
  BY <1>0, <1>4, QuietInv DEF ExtendLease, Holding
<1>5. ASSUME NEW j \in Job, NEW i \in Instance, NEW t,
             RecoverAbort(j, t, i) \/ RecoverTakeover(j, t, i)
      PROVE  LeaseInv'
  <2>1. Leased(j) /\ NewToken(j) /\ UNCHANGED <<status, leaseSt, retired, owed, debtTok>>
    BY <1>5 DEF RecoverAbort, RecoverTakeover, Owns, TakeOver
  <2> QED BY <1>0, <2>1, RotateInv DEF Holding
<1>6. ASSUME NEW j \in Job, NEW i \in Instance, NEW t, RecoverResume(j, t, i) PROVE LeaseInv'
  <2>1. Leased(j) /\ status[j] = "UNKNOWN" /\ UNCHANGED <<leaseSt, retired, owed, debtTok>>
    BY <1>6 DEF RecoverResume, CanResume
  <2>2. status' = [status EXCEPT ![j] = "RUNNING"] BY <1>6 DEF RecoverResume, SetStatus
  <2>3. /\ \A k \in Job : Holding(k)' <=> Holding(k)
        /\ \A k \in Job : status'[k] = "RUNNING" => Leased(k)
    BY <1>0, <2>1, <2>2 DEF Holding, TypeOK
  <2>4. CASE inst[j] = i
    BY <1>6, <2>1, <2>3, <2>4, QuietInv DEF RecoverResume, TakeOver
  <2>5. CASE inst[j] # i
    BY <1>6, <2>1, <2>3, <2>5, RotateInv DEF RecoverResume, TakeOver
  <2> QED BY <2>4, <2>5
<1>7. ASSUME NEW j \in Job, NEW p \in Payload, NEW opens \in BOOLEAN, NEW t,
             CompleteJob(j, t, p, opens) \/ CompleteLate(j, t, p, opens)
      PROVE  LeaseInv'
  <2>1. outcome[p] \in Terminal BY ConstantsAssumption
  <2>2. Leased(j) /\ AcceptCompletion(j, p, opens)
    BY <1>7 DEF CompleteJob, CompleteLate, ValidLease, CanResume
  <2>3. status' = [status EXCEPT ![j] = outcome[p]] /\ HandleRelease(j, opens)
    BY <2>2 DEF AcceptCompletion, SetStatus
  <2> QED BY <2>1, <2>2, <2>3, ReleaseInv
<1>8. ASSUME NEW j \in Job, NEW p \in Payload, NEW t, LateConfirmed(j, t, p) PROVE LeaseInv'
  <2>1. devOf[j] \in Device /\ CloseDebts(devOf[j], {<<j, t>>})
    BY <1>8, JobsOnDevice DEF LateConfirmed, CloseDebts
  <2> QED BY <2>1, CloseInv
<1>9. ASSUME NEW j \in Job, NEW opens \in BOOLEAN, NEW t,
             RecoverBootMismatch(j, t, opens) \/ FinalizeExpired(j, opens)
      PROVE  LeaseInv'
  <2>1. Leased(j) /\ HandleRelease(j, opens) /\ status' = [status EXCEPT ![j] = "FAILED"]
    BY <1>9 DEF RecoverBootMismatch, FinalizeExpired, Owns, SetStatus
  <2> QED BY <2>1, ReleaseInv DEF Terminal
<1>10. ASSUME NEW j \in Job, NEW opens \in BOOLEAN, NEW t, RecoverCleanup(j, t, opens)
       PROVE  LeaseInv'
  <2>1. /\ Leased(j) /\ HandleRelease(j, opens)
        /\ status' = [status EXCEPT ![j] = "UNKNOWN"]
    BY <1>10 DEF RecoverCleanup, Owns, TypeOK
  <2> QED BY <2>1, ReleaseInv
<1>11. ASSUME NEW j \in Job, ExpireToUnknown(j) \/ ReapAborted(j) \/ RunningTimeout(j)
       PROVE  LeaseInv'
  <2>1. ToUnknown(j) BY <1>11 DEF ExpireToUnknown, ReapAborted, RunningTimeout
  <2>2. /\ \A k \in Job : Holding(k)' <=> Holding(k)
        /\ \A k \in Job : status'[k] = "RUNNING" => Leased(k)
    BY <1>0, <2>1 DEF ToUnknown, Holding, TypeOK
  <2> QED BY <2>1, <2>2, QuietInv DEF ToUnknown
<1>12. ASSUME NEW j \in Job, NEW opens \in BOOLEAN, FinalizeStale(j, opens) PROVE LeaseInv'
  <2>1. status[j] = "UNKNOWN" /\ status' = [status EXCEPT ![j] = "FAILED"]
    BY <1>12 DEF FinalizeStale, Overdue, SetStatus
  <2>2. CASE Leased(j)
    BY <1>12, <2>1, <2>2, ReleaseInv DEF FinalizeStale, Terminal
  <2>3. CASE ~Leased(j)
    <3>1. UNCHANGED <<leaseSt, tok, gen, retired, owed, debtTok>>
      BY <1>12, <2>3 DEF FinalizeStale
    <3>2. \A k \in Job : Leased(k)' => Holding(k)'
      BY <1>0, <2>1, <2>3, <3>1 DEF Holding, Leased, TypeOK
    <3>3. \A k \in Job : status'[k] = "RUNNING" => Leased(k)'
      BY <1>0, <2>1, <3>1 DEF Leased, TypeOK
    <3>4. RetiredDeviceIdle'
      BY <2>1, <3>1 DEF LeaseInv, RetiredDeviceIdle, TypeOK
    <3>5. LeaseExclusion' /\ NewestToken' /\ DebtHoldsDevice'
      BY <3>1 DEF LeaseInv, LeaseExclusion, NewestToken, DebtHoldsDevice, Busy, Leased
    <3> QED BY <3>2, <3>3, <3>4, <3>5 DEF LeaseInv, LeaseFollowsJob, Holding
  <2> QED BY <2>2, <2>3
<1>13. ASSUME NEW j \in Job, PendingTimeout(j) PROVE LeaseInv'
  BY <1>13, PendingInv
<1>14. ASSUME NEW j \in Job, LeaseExpires(j) \/ GraceExpires(j) PROVE LeaseInv'
  BY <1>0, <1>14, QuietInv DEF LeaseExpires, GraceExpires, Holding
<1>15. ASSUME NEW r \in Run, NEW h \in Host, AbortQueued(r) \/ AbortRun(r) \/ AbortHost(r, h)
       PROVE  LeaseInv'
  BY <1>0, <1>15, QuietInv DEF AbortQueued, AbortRun, AbortHost, Holding
<1>16. ASSUME NEW w \in window, AbortPending(w) PROVE LeaseInv'
  <2>1. \A j \in Job : status'[j] # status[j] => status[j] = "PENDING" /\ status'[j] = "ABORTED"
    BY <1>16 DEF AbortPending
  <2>2. UNCHANGED <<leaseSt, tok, gen, retired, owed, debtTok>> BY <1>16 DEF AbortPending
  <2> QED BY <1>0, <2>1, <2>2, QuietInv DEF Holding
<1>17. ASSUME NEW w \in window, AbortInterrupted(w) PROVE LeaseInv'
  BY <1>0, <1>17, QuietInv DEF AbortInterrupted, Holding
<1>18. ASSUME NEW d \in Device, NEW S, CloseDebts(d, S) PROVE LeaseInv'
  BY <1>18, CloseInv
<1>19. ASSUME NEW d \in Device, RetireDevice(d) PROVE LeaseInv'
  BY <1>19, RetireInv
<1>20. ASSUME NEW d \in Device, UnretireDevice(d) PROVE LeaseInv'
  BY <1>20, UnretireInv
<1>21. CASE UNCHANGED vars
  BY <1>0, <1>21, QuietInv DEF vars, Holding
<1>22. ASSUME NEW r \in Run, AbortQueued(r) \/ AbortRun(r) PROVE LeaseInv'
  BY <1>0, <1>22, QuietInv DEF AbortQueued, AbortRun, Holding
<1>23. ASSUME NEW j \in Job, RecoveryReads(j) PROVE LeaseInv'
  BY <1>0, <1>23, QuietInv DEF RecoveryReads, Holding
<1>24. ASSUME NEW j \in Job, NEW t, NEW S, NEW opens \in BOOLEAN, InitCheck(j, t, S, opens)
       PROVE  LeaseInv'
  BY <1>24, InitCheckInv
<1>25. ASSUME NEW d \in Device, NEW opens \in BOOLEAN, NEW recorded \in BOOLEAN,
              InitReturn(d, opens, recorded)
       PROVE  LeaseInv'
  BY <1>25, InitReturnInv
<1> QED
  BY <1>1, <1>2, <1>3, <1>4, <1>5, <1>6, <1>7, <1>8, <1>9, <1>10, <1>11, <1>12, <1>13,
     <1>14, <1>15, <1>16, <1>17, <1>18, <1>19, <1>20, <1>21, <1>22, <1>23, <1>24, <1>25
  DEF Next, Dispatch, AgentCall, Supervise, TimePasses, Abort, Administer, Discharge, Override

\* A device has one holder, its holder is a job that may be executing, the
\* token in force is the newest one, debt leases and debts go together, and a
\* retired device executes nothing.
THEOREM LeaseCorrect == Spec => []LeaseInv
<1>1. Init => TypeOK /\ LeaseInv BY TypeInit, InitInv
<1>2. TypeOK /\ LeaseInv /\ [Next]_vars => (TypeOK /\ LeaseInv)'
  BY TypeStep, LeaseStep
<1> QED BY <1>1, <1>2, PTL DEF Spec

\* No device ever has two holders, whatever interleaving of claims, recoveries,
\* reapers, debts and retirements (acquire_lease, handle_job_lease_release).
THEOREM Exclusion == Spec => []LeaseExclusion
<1>1. LeaseInv => LeaseExclusion BY DEF LeaseInv
<1> QED BY <1>1, LeaseCorrect, PTL

\* A job that may be executing holds its device, and only such a job does.
THEOREM LeaseNeitherLeaksNorDrops == Spec => []LeaseFollowsJob
<1>1. LeaseInv => LeaseFollowsJob BY DEF LeaseInv
<1> QED BY <1>1, LeaseCorrect, PTL

\* The token in force is the newest one issued for the device
\* (device.lease_generation), so an older one has no power left.
THEOREM Fencing == Spec => []NewestToken
<1>1. LeaseInv => NewestToken BY DEF LeaseInv
<1> QED BY <1>1, LeaseCorrect, PTL

\* A device in service that owes a return is not free, whichever path opened
\* the debt, and a retired device has no debt lease (handle_job_lease_release,
\* apply_init_check_sync, init_device_return_sync, unretire_device).
THEOREM DebtsHold == Spec => []DebtHoldsDevice
<1>1. LeaseInv => DebtHoldsDevice BY DEF LeaseInv
<1> QED BY <1>1, LeaseCorrect, PTL

\* A retired device executes nothing (retire_device, claim_jobs_for_host).
THEOREM RetirementHolds == Spec => []RetiredDeviceIdle
<1>1. LeaseInv => RetiredDeviceIdle BY DEF LeaseInv
<1> QED BY <1>1, LeaseCorrect, PTL

-----------------------------------------------------------------------------
(* Fencing of completions. *)

\* A terminal report is accepted only with the newest token of the device: a
\* fenced worker never writes the outcome of a job (complete_agent_job).
THEOREM CompletionIsFenced == Spec => AcceptedUnderNewestToken
<1>1. LeaseInv => [\A j \in Job : \A t \in Tokens(devOf[j]) :
                     Reports(j, t) => Leased(j) /\ t = gen[devOf[j]]]_vars
  <2> SUFFICES ASSUME LeaseInv, NEW j \in Job, NEW t, Reports(j, t)
               PROVE  Leased(j) /\ t = gen[devOf[j]]
    OBVIOUS
  <2>1. Leased(j) /\ tok[j] = t
    BY DEF Reports, ValidLease, CanResume
  <2> QED BY <2>1, JobsOnDevice DEF LeaseInv, NewestToken
<1> QED BY <1>1, LeaseCorrect, PTL DEF AcceptedUnderNewestToken
=============================================================================
