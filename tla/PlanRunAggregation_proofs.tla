------------------------ MODULE PlanRunAggregation_proofs ------------------------
(***************************************************************************)
(* The aggregation of a PlanRun, for any number of jobs, hosts, tail       *)
(* tasks, lost messages and crashes, and any size of batches and rounds.   *)
(***************************************************************************)
EXTENDS PlanRunAggregation, FiniteSetTheorems, TLAPS

\* What has effects, pending or done, is a settled run.
EffectsOfSettled == effects # "none" => runSt # "RUNNING"

\* Whoever counts has a round left; a task has effects to see to only after a
\* round of its own, and leaves the sweep to the leader.
RoundsOfPlace ==
  /\ \A d \in Drainer : pc[d] = "counting" => rounds[d] < MaxRounds
  /\ \A d \in Worker :
       /\ pc[d] \in {"applied", "chaining", "closing"} => rounds[d] > 0
       /\ pc[d] \notin {"recounting", "rescuing", "replaying"}

\* Until the main task has given its key back, its tail is queued: the wake-ups
\* that are dropped in between find a drain that starts after them.
TailBehindMain ==
  failures = 0 /\ pc[Main] = "finishing" => \E t \in Tail : pc[t] = "queued"

AggInv ==
  /\ TypeOK
  /\ CountersBetweenMarksAndFacts
  /\ VerdictOfAllFacts
  /\ EffectsOfSettled
  /\ OneChild
  /\ RoundsOfPlace
  /\ TailBehindMain
  /\ NoStrandedMark

-----------------------------------------------------------------------------
(* Counting.  f gives the status of the jobs, as they are or as they become. *)

Having(f, S, s) == {j \in S : f[j] = s}

Enclosed(f, m, c, S) ==
  \A s \in Terminal : /\ Cardinality(Having(f, S \ m, s)) <= c[s]
                      /\ c[s] <= Cardinality(Having(f, S, s))

LEMMA Smaller ==
  ASSUME NEW B \in SUBSET Job, NEW A \in SUBSET B
  PROVE  /\ IsFiniteSet(A) /\ Cardinality(A) \in Nat
         /\ Cardinality(B) \in Nat /\ Cardinality(A) <= Cardinality(B)
         /\ Cardinality(A) = Cardinality(B) => A = B
<1>1. IsFiniteSet(B)
  BY AggregationAssumption, FS_Subset
<1>2. IsFiniteSet(A) /\ Cardinality(A) <= Cardinality(B)
      /\ (Cardinality(B) = Cardinality(A) => B = A)
  BY <1>1, FS_Subset
<1>3. Cardinality(A) \in Nat /\ Cardinality(B) \in Nat
  BY <1>1, <1>2, FS_CardinalityType
<1> QED  BY <1>2, <1>3

LEMMA UnionCount ==
  ASSUME NEW A \in SUBSET Job, NEW B \in SUBSET Job
  PROVE  /\ Cardinality(A) \in Nat /\ Cardinality(B) \in Nat
         /\ Cardinality(A \cup B) \in Nat
         /\ Cardinality(A \cup B) <= Cardinality(A) + Cardinality(B)
         /\ A \cap B = {} => Cardinality(A \cup B) = Cardinality(A) + Cardinality(B)
<1> DEFINE U == A \cup B
           I == A \cap B
<1>1. U \in SUBSET Job /\ I \in SUBSET Job
  OBVIOUS
<1>2. IsFiniteSet(A) /\ IsFiniteSet(B)
  BY Smaller
<1>3. /\ Cardinality(A) \in Nat /\ Cardinality(B) \in Nat
      /\ Cardinality(U) \in Nat /\ Cardinality(I) \in Nat
  BY <1>1, Smaller
<1>4. Cardinality(U) = Cardinality(A) + Cardinality(B) - Cardinality(I)
  BY <1>2, FS_Union
<1>5. I = {} => Cardinality(I) = 0
  BY FS_EmptySet
<1> HIDE DEF U, I
<1>6. /\ Cardinality(U) \in Nat
      /\ Cardinality(U) <= Cardinality(A) + Cardinality(B)
      /\ I = {} => Cardinality(U) = Cardinality(A) + Cardinality(B)
  BY <1>3, <1>4, <1>5
<1> QED  BY <1>3, <1>6 DEF U, I

\* A count of the facts is between the facts without marks and the facts.
LEMMA TallyEnclosed ==
  ASSUME NEW S \in SUBSET Job, NEW m
  PROVE  Tally(S) \in Counters /\ Enclosed(job, m, Tally(S), S)
<1>1. ASSUME NEW s \in Terminal
      PROVE  /\ Tally(S)[s] = Cardinality(Having(job, S, s))
             /\ Tally(S)[s] \in Nat
             /\ Cardinality(Having(job, S \ m, s)) <= Tally(S)[s]
  <2>1. Tally(S)[s] = Cardinality(JobsIn(S, s))
    BY DEF Tally
  <2>2. JobsIn(S, s) = Having(job, S, s)
    BY DEF JobsIn, Having
  <2>3. Having(job, S \ m, s) \in SUBSET Having(job, S, s) /\ Having(job, S, s) \in SUBSET Job
    BY DEF Having
  <2>4. /\ Cardinality(Having(job, S, s)) \in Nat
        /\ Cardinality(Having(job, S \ m, s)) <= Cardinality(Having(job, S, s))
    BY <2>3, Smaller
  <2> QED  BY <2>1, <2>2, <2>4
<1>2. Tally(S) = [s \in Terminal |-> Tally(S)[s]]
  BY DEF Tally
<1>3. Tally(S) \in Counters
  BY <1>1, <1>2 DEF Counters
<1>4. \A s \in Terminal : Tally(S)[s] <= Tally(S)[s]
  BY <1>1
<1> QED  BY <1>1, <1>3, <1>4 DEF Enclosed

\* Marks cover the facts that are new.
LEMMA MarkedFactsEnclosed ==
  ASSUME NEW S \in SUBSET Job, NEW f, NEW g, NEW m, NEW n, NEW c \in Counters,
         Enclosed(f, m, c, S),
         \A j \in S : f[j] \in Terminal => g[j] = f[j],
         \A j \in S \ n : g[j] \in Terminal => j \notin m /\ f[j] = g[j]
  PROVE  Enclosed(g, n, c, S)
<1> SUFFICES ASSUME NEW s \in Terminal
             PROVE  /\ Cardinality(Having(g, S \ n, s)) <= c[s]
                    /\ c[s] <= Cardinality(Having(g, S, s))
  BY DEF Enclosed
<1>1. /\ Having(g, S \ n, s) \in SUBSET Having(f, S \ m, s)
      /\ Having(f, S, s) \in SUBSET Having(g, S, s)
      /\ Having(f, S \ m, s) \in SUBSET Job /\ Having(g, S, s) \in SUBSET Job
  BY DEF Having
<1>2. /\ Cardinality(Having(g, S \ n, s)) <= Cardinality(Having(f, S \ m, s))
      /\ Cardinality(Having(f, S, s)) <= Cardinality(Having(g, S, s))
      /\ Cardinality(Having(g, S \ n, s)) \in Nat /\ Cardinality(Having(f, S \ m, s)) \in Nat
      /\ Cardinality(Having(f, S, s)) \in Nat /\ Cardinality(Having(g, S, s)) \in Nat
  BY <1>1, Smaller
<1>3. /\ Cardinality(Having(f, S \ m, s)) <= c[s]
      /\ c[s] <= Cardinality(Having(f, S, s)) /\ c[s] \in Nat
  BY DEF Enclosed, Counters
<1> QED  BY <1>2, <1>3

\* The bulk abort counts the jobs it ends, once.
LEMMA BulkAbortEnclosed ==
  ASSUME NEW S \in SUBSET Job, NEW f, NEW m, NEW c \in Counters, NEW A \in SUBSET Job,
         Enclosed(f, m, c, S), \A j \in A : f[j] = "PENDING",
         NEW g, g = [j \in Job |-> IF j \in A THEN "ABORTED" ELSE f[j]],
         NEW d, d = [c EXCEPT !["ABORTED"] = @ + Cardinality(A \cap S)]
  PROVE  d \in Counters /\ Enclosed(g, m, d, S)
<1>1. A \cap S \in SUBSET Job /\ Cardinality(A \cap S) \in Nat
  <2>1. A \cap S \in SUBSET Job  OBVIOUS
  <2> QED  BY <2>1, Smaller
<1>2. d \in Counters
  BY <1>1 DEF Counters, Terminal
<1>3. ASSUME NEW s \in Terminal
      PROVE  /\ Cardinality(Having(g, S \ m, s)) <= d[s]
             /\ d[s] <= Cardinality(Having(g, S, s))
  <2>0. /\ Cardinality(Having(f, S \ m, s)) <= c[s]
        /\ c[s] <= Cardinality(Having(f, S, s)) /\ c[s] \in Nat
    BY DEF Enclosed, Counters
  <2>1. Having(f, S \ m, s) \in SUBSET Job /\ Having(f, S, s) \in SUBSET Job
    BY DEF Having
  <2>2. /\ Cardinality(Having(f, S \ m, s)) \in Nat /\ Cardinality(Having(f, S, s)) \in Nat
    BY <2>1, Smaller
  <2>3. CASE s = "ABORTED"
    <3>1. d[s] = c[s] + Cardinality(A \cap S)
      BY <2>3 DEF Counters, Terminal
    <3>2. Having(g, S, s) = Having(f, S, s) \cup (A \cap S) /\ Having(f, S, s) \cap (A \cap S) = {}
      BY <2>3 DEF Having
    <3>3. Cardinality(Having(g, S, s)) = Cardinality(Having(f, S, s)) + Cardinality(A \cap S)
      BY <1>1, <2>1, <3>2, UnionCount
    <3>4. /\ Having(g, S \ m, s) \in SUBSET (Having(f, S \ m, s) \cup (A \cap S))
          /\ Having(f, S \ m, s) \cup (A \cap S) \in SUBSET Job
      BY <1>1, <2>1, <2>3 DEF Having
    <3>5. /\ Cardinality(Having(g, S \ m, s)) \in Nat
          /\ Cardinality(Having(g, S \ m, s)) <= Cardinality(Having(f, S \ m, s) \cup (A \cap S))
      BY <3>4, Smaller
    <3>6. /\ Cardinality(Having(f, S \ m, s) \cup (A \cap S)) \in Nat
          /\ Cardinality(Having(f, S \ m, s) \cup (A \cap S))
               <= Cardinality(Having(f, S \ m, s)) + Cardinality(A \cap S)
      BY <1>1, <2>1, UnionCount
    <3> QED  BY <1>1, <2>0, <2>2, <3>1, <3>3, <3>5, <3>6
  <2>4. CASE s # "ABORTED"
    <3>1. d[s] = c[s]
      BY <2>4 DEF Counters
    <3>2. Having(g, S \ m, s) = Having(f, S \ m, s) /\ Having(g, S, s) = Having(f, S, s)
      BY <2>4 DEF Having, Terminal
    <3> QED  BY <2>0, <3>1, <3>2
  <2> QED  BY <2>3, <2>4
<1> QED  BY <1>2, <1>3 DEF Enclosed

\* Counters that are not ahead of the facts reach the number of jobs only when
\* every job has ended, and then they are the facts.
LEMMA FullCountIsFact ==
  ASSUME NEW f, NEW c \in Counters, TerminalCount(c) >= Cardinality(Job),
         \A s \in Terminal : c[s] <= Cardinality(Having(f, Job, s))
  PROVE  /\ \A j \in Job : f[j] \in Terminal
         /\ \A s \in Terminal : c[s] = Cardinality(Having(f, Job, s))
<1> DEFINE C == Having(f, Job, "COMPLETED")
           F == Having(f, Job, "FAILED")
           A == Having(f, Job, "ABORTED")
<1>1. C \in SUBSET Job /\ F \in SUBSET Job /\ A \in SUBSET Job
      /\ C \cup F \in SUBSET Job /\ (C \cup F) \cup A \in SUBSET Job
  BY DEF Having
<1>2. /\ Cardinality(C) \in Nat /\ Cardinality(F) \in Nat /\ Cardinality(A) \in Nat
      /\ Cardinality(Job) \in Nat
      /\ Cardinality((C \cup F) \cup A) <= Cardinality(Job)
      /\ Cardinality((C \cup F) \cup A) = Cardinality(Job) => (C \cup F) \cup A = Job
  BY <1>1, Smaller
<1>3. C \cap F = {} /\ (C \cup F) \cap A = {}
  BY DEF Having
<1>4. Cardinality(C \cup F) = Cardinality(C) + Cardinality(F)
  BY <1>1, <1>3, UnionCount
<1>5. Cardinality((C \cup F) \cup A) = Cardinality(C) + Cardinality(F) + Cardinality(A)
  <2>1. Cardinality((C \cup F) \cup A) = Cardinality(C \cup F) + Cardinality(A)
    BY <1>1, <1>3, UnionCount
  <2> QED  BY <1>4, <2>1
<1>6. /\ c["COMPLETED"] \in Nat /\ c["COMPLETED"] <= Cardinality(C)
      /\ c["FAILED"] \in Nat /\ c["FAILED"] <= Cardinality(F)
      /\ c["ABORTED"] \in Nat /\ c["ABORTED"] <= Cardinality(A)
      /\ c["COMPLETED"] + c["FAILED"] + c["ABORTED"] >= Cardinality(Job)
  BY DEF Counters, Terminal, TerminalCount
<1>7. /\ Cardinality((C \cup F) \cup A) = Cardinality(Job)
      /\ c["COMPLETED"] = Cardinality(C)
      /\ c["FAILED"] = Cardinality(F) /\ c["ABORTED"] = Cardinality(A)
  <2> HIDE DEF C, F, A
  <2> QED  BY <1>2, <1>5, <1>6
<1>8. (C \cup F) \cup A = Job
  BY <1>2, <1>7
<1>9. \A j \in Job : f[j] \in Terminal
  <2> SUFFICES ASSUME NEW j \in Job PROVE f[j] \in Terminal
    OBVIOUS
  <2>1. j \in C \/ j \in F \/ j \in A
    BY <1>8
  <2> QED  BY <2>1 DEF Having, Terminal
<1>10. ASSUME NEW s \in Terminal PROVE c[s] = Cardinality(Having(f, Job, s))
  <2>1. CASE s = "COMPLETED"  BY <1>7, <2>1
  <2>2. CASE s = "FAILED"  BY <1>7, <2>2
  <2>3. CASE s = "ABORTED"  BY <1>7, <2>3
  <2> QED  BY <2>1, <2>2, <2>3 DEF Terminal
<1> QED  BY <1>9, <1>10

-----------------------------------------------------------------------------
LEMMA InitInv == Init => AggInv
<1> SUFFICES ASSUME Init PROVE AggInv
  OBVIOUS
<1>1. TypeOK
  <2>1. count \in Counters /\ hostCount \in [Host -> Counters]
    BY DEF Init, Counters
  <2>2. job \in [Job -> {"PENDING", "RUNNING"} \cup Terminal]
    BY DEF Init
  <2>3. pc \in [Drainer -> Places] /\ rounds \in [Drainer -> 0 .. MaxRounds]
    BY AggregationAssumption DEF Init, Places
  <2>4. failures \in 0 .. MaxFailures
    BY AggregationAssumption DEF Init
  <2> QED  BY <2>1, <2>2, <2>3, <2>4 DEF Init, TypeOK
<1>2. ASSUME NEW S \in SUBSET Job, NEW c, c = [s \in Terminal |-> 0] PROVE Between(c, S)
  <2> SUFFICES ASSUME NEW s \in Terminal
               PROVE  Cardinality(JobsIn(S \ mark, s)) <= c[s] /\ c[s] <= Cardinality(JobsIn(S, s))
    BY DEF Between
  <2>1. c[s] = 0
    BY <1>2
  <2>2. JobsIn(S, s) = {} /\ JobsIn(S \ mark, s) = {}
    BY DEF Init, JobsIn, Terminal
  <2> QED  BY <2>1, <2>2, FS_EmptySet
<1>3. CountersBetweenMarksAndFacts
  <2>1. \A h \in Host : JobsOn(h) \in SUBSET Job
    BY DEF JobsOn
  <2> QED  BY <1>2, <2>1 DEF Init, CountersBetweenMarksAndFacts
<1>4. VerdictOfAllFacts /\ EffectsOfSettled /\ OneChild /\ NoStrandedMark
  BY DEF Init, VerdictOfAllFacts, EffectsOfSettled, OneChild, NoStrandedMark
<1>5. RoundsOfPlace /\ TailBehindMain
  BY DEF Init, RoundsOfPlace, TailBehindMain, Drainer, Worker
<1> QED  BY <1>1, <1>3, <1>4, <1>5 DEF AggInv

-----------------------------------------------------------------------------
(* What the steps have in common. *)

LEMMA SettleFacts ==
  ASSUME NEW c, NEW asked, NEW marker \in {"pending", "done"}, Settle(c, asked, marker)
  PROVE  \/ runSt' = runSt /\ effects' = effects
         \/ /\ runSt = "RUNNING" /\ runSt' \in {"FAILED"} \cup Triggerable
            /\ effects' = marker
  BY DEF Settle, Settles, Verdict, Triggerable

\* A count that is not ahead of the facts settles the run by all the facts.
LEMMA SettleIsVerdict ==
  ASSUME NEW c \in Counters, NEW asked, NEW marker, Settle(c, asked, marker),
         asked = abortAsked', runSt = "RUNNING",
         \A s \in Terminal : c[s] <= Cardinality(Having(job', Job, s))
  PROVE  VerdictOfAllFacts'
<1>1. CASE Settles(c)
  <2>1. /\ \A j \in Job : job'[j] \in Terminal
        /\ \A s \in Terminal : c[s] = Cardinality(Having(job', Job, s))
    BY <1>1, FullCountIsFact DEF Settles
  <2>2. \A s \in Terminal : Tally(Job)'[s] = c[s]
    BY <2>1 DEF Tally, JobsIn, Having
  <2>3. Verdict(Tally(Job)', asked) = Verdict(c, asked)
    BY <2>2 DEF Verdict, Terminal
  <2>4. runSt' = Verdict(c, asked)
    BY <1>1 DEF Settle
  <2> QED  BY <2>1, <2>3, <2>4 DEF VerdictOfAllFacts
<1>2. CASE ~Settles(c)
  BY <1>2 DEF Settle, VerdictOfAllFacts
<1> QED  BY <1>1, <1>2

LEMMA SettledStays ==
  ASSUME VerdictOfAllFacts, runSt # "RUNNING", UNCHANGED <<job, runSt, abortAsked>>
  PROVE  VerdictOfAllFacts'
  BY DEF VerdictOfAllFacts, Tally, JobsIn

-----------------------------------------------------------------------------
\* The steps that write facts, marks or counters; no other step touches them.
FactStep ==
  \/ \E j \in Job : JobStarts(j) \/ \E s \in Terminal : JobEnds(j, s)
  \/ \E d \in Drainer : FinishRound(d)
  \/ Recount \/ AbortPending

LEMMA OtherSteps ==
  ASSUME [Next]_vars, ~FactStep
  PROVE  UNCHANGED <<job, mark, count, hostCount>>
<1> USE DEF runVars, taskVars
<1>1. ASSUME NEW j \in Job, Wake(j) \/ LoseWake(j) PROVE UNCHANGED <<job, mark, count, hostCount>>
  BY <1>1 DEF Wake, LoseWake
<1>2. ASSUME NEW d \in Drainer,
             \/ BeginRound(d) \/ CheckEffects(d) \/ TriggerChain(d) \/ CloseEffects(d)
             \/ StartTask(d) \/ EnqueueTail(d) \/ Crash(d)
      PROVE  UNCHANGED <<job, mark, count, hostCount>>
  BY <1>2 DEF BeginRound, CheckEffects, TriggerChain, CloseEffects, StartTask, EnqueueTail, Crash
<1>3. FinishTask \/ BeginSweep \/ Rescue \/ Replay \/ ReconcileChain \/ AbortInterrupted
        => UNCHANGED <<job, mark, count, hostCount>>
  BY DEF FinishTask, BeginSweep, Rescue, Replay, ReconcileChain, AbortInterrupted
<1>4. ASSUME NEW S \in Scopes, AbortRequest(S) PROVE UNCHANGED <<job, mark, count, hostCount>>
  BY <1>4 DEF AbortRequest
<1>5. UNCHANGED vars => UNCHANGED <<job, mark, count, hostCount>>
  BY DEF vars
<1> QED  BY <1>1, <1>2, <1>3, <1>4, <1>5 DEF FactStep, Next, Jobs, Tasks, DrainStep, Sweep, Abort

LEMMA HostFacts ==
  ASSUME TypeOK, NEW h \in Host
  PROVE  JobsOn(h) \in SUBSET Job /\ hostCount[h] \in Counters
  BY DEF TypeOK, JobsOn

\* The second transaction of an abort, jobs and counters.
LEMMA AbortPendingCounts ==
  ASSUME TypeOK, CountersBetweenMarksAndFacts, AbortPending
  PROVE  /\ count' \in Counters /\ hostCount' \in [Host -> Counters]
         /\ CountersBetweenMarksAndFacts'
         /\ job' \in [Job -> {"PENDING", "RUNNING"} \cup Terminal]
<1>1. CASE runSt # "RUNNING"
  BY <1>1 DEF AbortPending, CountersBetweenMarksAndFacts, Between, JobsIn, JobsOn, TypeOK
<1>2. CASE runSt = "RUNNING"
  <2> DEFINE A == JobsIn(window, "PENDING")
             g == [j \in Job |-> IF j \in A THEN "ABORTED" ELSE job[j]]
  <2>1. A \in SUBSET Job /\ \A j \in A : job[j] = "PENDING"
    BY DEF JobsIn, TypeOK
  <2>2. /\ job' = g /\ mark' = mark
        /\ count' = [count EXCEPT !["ABORTED"] = @ + Cardinality(A)]
        /\ hostCount' = [h \in Host |->
             [hostCount[h] EXCEPT !["ABORTED"] = @ + Cardinality(A \cap JobsOn(h))]]
    BY <1>2 DEF AbortPending, AbortedOf
  <2>3. count \in Counters /\ A \cap Job = A /\ Enclosed(job, mark, count, Job)
    BY <2>1 DEF TypeOK, CountersBetweenMarksAndFacts, Between, Enclosed, JobsIn, Having
  <2>4. count' \in Counters /\ Enclosed(job', mark', count', Job)
    <3>1. /\ Job \in SUBSET Job /\ job' = g /\ mark' = mark
          /\ count' = [count EXCEPT !["ABORTED"] = @ + Cardinality(A \cap Job)]
      BY <2>2, <2>3
    <3>2. count \in Counters /\ Enclosed(job, mark, count, Job)
      BY <2>3
    <3> HIDE DEF A
    <3> QED  BY <2>1, <3>1, <3>2, BulkAbortEnclosed
  <2>5. ASSUME NEW h \in Host
        PROVE  hostCount'[h] \in Counters /\ Enclosed(job', mark', hostCount'[h], JobsOn(h))
    <3>1. /\ JobsOn(h) \in SUBSET Job /\ hostCount[h] \in Counters
          /\ Enclosed(job, mark, hostCount[h], JobsOn(h))
      BY HostFacts DEF CountersBetweenMarksAndFacts, Between, Enclosed, JobsIn, Having
    <3>2. hostCount'[h] = [hostCount[h] EXCEPT !["ABORTED"] = @ + Cardinality(A \cap JobsOn(h))]
      BY <2>2
    <3> HIDE DEF A
    <3> QED  BY <2>1, <2>2, <3>1, <3>2, BulkAbortEnclosed
  <2>6. hostCount' \in [Host -> Counters]
    BY <2>2, <2>5
  <2>7. CountersBetweenMarksAndFacts'
    BY <2>4, <2>5 DEF CountersBetweenMarksAndFacts, Between, Enclosed, JobsIn, Having, JobsOn
  <2>8. job' \in [Job -> {"PENDING", "RUNNING"} \cup Terminal]
    BY <2>2 DEF TypeOK, Terminal
  <2> QED  BY <2>4, <2>6, <2>7, <2>8
<1> QED  BY <1>1, <1>2

\* No step counts a job twice, or consumes a mark without counting its job.
LEMMA CountStep ==
  ASSUME TypeOK, CountersBetweenMarksAndFacts, [Next]_vars
  PROVE  CountersBetweenMarksAndFacts'
<1> USE DEF runVars, taskVars
<1>1. ASSUME \/ \E j \in Job : JobStarts(j)
             \/ \E j \in Job, s \in Terminal : JobEnds(j, s)
      PROVE  CountersBetweenMarksAndFacts'
  <2>1. UNCHANGED <<count, hostCount>>
    BY <1>1 DEF JobStarts, JobEnds
  <2>2. /\ \A j \in Job : job[j] \in Terminal => job'[j] = job[j]
        /\ \A j \in Job \ mark' : job'[j] \in Terminal => j \notin mark /\ job[j] = job'[j]
    BY <1>1 DEF JobStarts, JobEnds, TypeOK, Terminal
  <2>3. ASSUME NEW S \in SUBSET Job, NEW c \in Counters, Enclosed(job, mark, c, S)
        PROVE  Enclosed(job', mark', c, S)
    <3>1. /\ \A j \in S : job[j] \in Terminal => job'[j] = job[j]
          /\ \A j \in S \ mark' : job'[j] \in Terminal => j \notin mark /\ job[j] = job'[j]
      BY <2>2
    <3> QED  BY <2>3, <3>1, MarkedFactsEnclosed
  <2>4. count \in Counters /\ Enclosed(job, mark, count, Job)
    BY DEF TypeOK, CountersBetweenMarksAndFacts, Between, Enclosed, JobsIn, Having
  <2>5. Enclosed(job', mark', count, Job)
    <3>1. Job \in SUBSET Job  OBVIOUS
    <3> QED  BY <2>3, <2>4, <3>1
  <2>6. ASSUME NEW h \in Host PROVE Enclosed(job', mark', hostCount[h], JobsOn(h))
    <3>1. /\ JobsOn(h) \in SUBSET Job /\ hostCount[h] \in Counters
          /\ Enclosed(job, mark, hostCount[h], JobsOn(h))
      BY HostFacts DEF CountersBetweenMarksAndFacts, Between, Enclosed, JobsIn, Having
    <3> QED  BY <2>3, <3>1
  <2> QED  BY <2>1, <2>5, <2>6
           DEF CountersBetweenMarksAndFacts, Between, Enclosed, JobsIn, Having, JobsOn
<1>2. ASSUME NEW d \in Drainer, FinishRound(d) PROVE CountersBetweenMarksAndFacts'
  <2>1. /\ count' = Tally(Job) /\ job' = job
        /\ \A h \in Host : hostCount'[h] = Tally(JobsOn(h))
    BY <1>2 DEF FinishRound
  <2>2. Enclosed(job, mark', Tally(Job), Job)
    <3>1. Job \in SUBSET Job  OBVIOUS
    <3> QED  BY <3>1, TallyEnclosed
  <2>3. \A h \in Host : Enclosed(job, mark', Tally(JobsOn(h)), JobsOn(h))
    BY HostFacts, TallyEnclosed
  <2> QED  BY <2>1, <2>2, <2>3
           DEF CountersBetweenMarksAndFacts, Between, Enclosed, JobsIn, Having, JobsOn
<1>3. ASSUME Recount PROVE CountersBetweenMarksAndFacts'
  <2>1. count' = Tally(Job) /\ UNCHANGED <<job, mark, hostCount>>
    BY <1>3 DEF Recount
  <2>2. Enclosed(job, mark, Tally(Job), Job)
    <3>1. Job \in SUBSET Job  OBVIOUS
    <3> QED  BY <3>1, TallyEnclosed
  <2> QED  BY <2>1, <2>2
           DEF CountersBetweenMarksAndFacts, Between, Enclosed, JobsIn, Having, JobsOn
<1>4. AbortPending => CountersBetweenMarksAndFacts'
  BY AbortPendingCounts
<1>5. ~FactStep => CountersBetweenMarksAndFacts'
  BY OtherSteps DEF CountersBetweenMarksAndFacts, Between, JobsIn, JobsOn
<1> QED  BY <1>1, <1>2, <1>3, <1>4, <1>5 DEF FactStep
-----------------------------------------------------------------------------
LEMMA PlacesAreTyped ==
  /\ Main \in Drainer /\ Leader \in Drainer /\ Main # Leader
  /\ Worker \subseteq Drainer /\ Tail \subseteq Worker
  /\ \A d \in Drainer : AfterDrain(d) \in Places /\ AfterEffects(d) \in Places
  BY DEF Drainer, Worker, Main, Leader, AfterDrain, AfterEffects, Places

LEMMA GotoType ==
  ASSUME TypeOK, NEW d \in Drainer, NEW place \in Places, Goto(d, place)
  PROVE  pc' \in [Drainer -> Places]
  BY DEF Goto, TypeOK

LEMMA FailType ==
  ASSUME TypeOK, Fail
  PROVE  failures' \in 0 .. MaxFailures
  BY AggregationAssumption DEF Fail, TypeOK

LEMMA SettleType ==
  ASSUME TypeOK, NEW c, NEW asked, NEW marker \in {"pending", "done"},
         Settle(c, asked, marker)
  PROVE  /\ runSt' \in {"RUNNING", "FAILED"} \cup Triggerable
         /\ effects' \in {"none", "pending", "done"}
  BY SettleFacts DEF TypeOK

LEMMA EnqueueDedupType ==
  ASSUME TypeOK, EnqueueDedup
  PROVE  dedup' \in BOOLEAN /\ failures' \in 0 .. MaxFailures
  BY FailType DEF EnqueueDedup, TypeOK

LEMMA AbortEffectsType ==
  ASSUME TypeOK, AbortEffects
  PROVE  dedup' \in BOOLEAN /\ failures' \in 0 .. MaxFailures
  BY EnqueueDedupType DEF AbortEffects, TypeOK

LEMMA TypeStep ==
  ASSUME TypeOK, CountersBetweenMarksAndFacts, RoundsOfPlace, [Next]_vars
  PROVE  TypeOK'
<1> USE DEF runVars, taskVars
<1>1. ASSUME NEW j \in Job, JobStarts(j) PROVE TypeOK'
  BY <1>1 DEF JobStarts, TypeOK
<1>2. ASSUME NEW j \in Job, NEW s \in Terminal, JobEnds(j, s) PROVE TypeOK'
  BY <1>2 DEF JobEnds, TypeOK
<1>3. ASSUME NEW j \in Job, Wake(j) PROVE TypeOK'
  BY <1>3, PlacesAreTyped DEF Wake, TypeOK, Places
<1>4. ASSUME NEW j \in Job, LoseWake(j) PROVE TypeOK'
  BY <1>4, FailType DEF LoseWake, TypeOK
<1>5. ASSUME NEW d \in Drainer, BeginRound(d) PROVE TypeOK'
  <2>1. pc' \in [Drainer -> Places]
    BY <1>5, GotoType, PlacesAreTyped DEF BeginRound, Places
  <2>2. batch' \subseteq Job
    BY <1>5 DEF BeginRound, TypeOK
  <2> QED  BY <1>5, <2>1, <2>2 DEF BeginRound, TypeOK
<1>6. ASSUME NEW d \in Drainer, FinishRound(d) PROVE TypeOK'
  <2>1. pc' \in [Drainer -> Places]
    BY <1>6, GotoType DEF FinishRound, Places
  <2>2. rounds' \in [Drainer -> 0 .. MaxRounds]
    <3>1. rounds[d] \in 0 .. MaxRounds /\ rounds[d] < MaxRounds /\ MaxRounds \in Nat
      BY <1>6, AggregationAssumption DEF FinishRound, RoundsOfPlace, TypeOK
    <3>2. rounds[d] + 1 \in 0 .. MaxRounds
      BY <3>1
    <3> QED  BY <1>6, <3>2 DEF FinishRound, TypeOK
  <2>3. runSt' \in {"RUNNING", "FAILED"} \cup Triggerable /\ effects' \in {"none", "pending", "done"}
    BY <1>6, SettleType DEF FinishRound
  <2>4. count' \in Counters /\ hostCount' \in [Host -> Counters]
    <3>1. Job \in SUBSET Job /\ \A h \in Host : JobsOn(h) \in SUBSET Job
      BY DEF JobsOn
    <3>2. Tally(Job) \in Counters /\ \A h \in Host : Tally(JobsOn(h)) \in Counters
      BY <3>1, TallyEnclosed
    <3> QED  BY <1>6, <3>2 DEF FinishRound
  <2> QED  BY <1>6, <2>1, <2>2, <2>3, <2>4 DEF FinishRound, TypeOK
<1>7. ASSUME NEW d \in Drainer, CheckEffects(d) \/ TriggerChain(d) PROVE TypeOK'
  <2>1. pc' \in [Drainer -> Places]
    BY <1>7, GotoType, PlacesAreTyped DEF CheckEffects, TriggerChain, Places
  <2> QED  BY <1>7, <2>1 DEF CheckEffects, TriggerChain, TriggerNext, TypeOK
<1>8. ASSUME NEW d \in Drainer, CloseEffects(d) PROVE TypeOK'
  <2>1. pc' \in [Drainer -> Places]
    BY <1>8, GotoType, PlacesAreTyped DEF CloseEffects
  <2> QED  BY <1>8, <2>1, EnqueueDedupType DEF CloseEffects, TypeOK
<1>9. ASSUME NEW d \in Drainer, StartTask(d) PROVE TypeOK'
  <2>1. pc' \in [Drainer -> Places]
    BY <1>9, GotoType DEF StartTask, Places
  <2>2. rounds' \in [Drainer -> 0 .. MaxRounds]
    <3>1. 0 \in 0 .. MaxRounds
      BY AggregationAssumption
    <3> QED  BY <1>9, <3>1 DEF StartTask, TypeOK
  <2> QED  BY <1>9, <2>1, <2>2 DEF StartTask, TypeOK
<1>10. ASSUME NEW d \in Drainer, EnqueueTail(d) PROVE TypeOK'
  <2>1. pc' \in [Drainer -> Places] /\ failures' \in 0 .. MaxFailures
    BY <1>10, FailType, PlacesAreTyped DEF EnqueueTail, TypeOK, Places
  <2> QED  BY <1>10, <2>1 DEF EnqueueTail, TypeOK
<1>11. ASSUME NEW d \in Drainer, Crash(d) PROVE TypeOK'
  <2>1. pc' \in [Drainer -> Places] /\ failures' \in 0 .. MaxFailures
    BY <1>11, GotoType, FailType DEF Crash, Places
  <2> QED  BY <1>11, <2>1 DEF Crash, TypeOK
<1>12. ASSUME FinishTask \/ BeginSweep PROVE TypeOK'
  <2>1. pc' \in [Drainer -> Places]
    BY <1>12, GotoType, PlacesAreTyped DEF FinishTask, BeginSweep, Places
  <2> QED  BY <1>12, <2>1 DEF FinishTask, BeginSweep, TypeOK
<1>13. ASSUME Recount PROVE TypeOK'
  <2>1. pc' \in [Drainer -> Places]
    BY <1>13, GotoType, PlacesAreTyped DEF Recount, Places
  <2>2. /\ runSt' \in {"RUNNING", "FAILED"} \cup Triggerable
        /\ effects' \in {"none", "pending", "done"}
    BY <1>13, SettleType DEF Recount, TypeOK
  <2>3. count' \in Counters
    <3>1. Job \in SUBSET Job  OBVIOUS
    <3> QED  BY <1>13, <3>1, TallyEnclosed DEF Recount
  <2> QED  BY <1>13, <2>1, <2>2, <2>3 DEF Recount, TypeOK
<1>14. ASSUME Rescue \/ Replay PROVE TypeOK'
  <2>1. pc' \in [Drainer -> Places]
    BY <1>14, GotoType, PlacesAreTyped DEF Rescue, Replay, Places
  <2> QED  BY <1>14, <2>1, AggregationAssumption DEF Rescue, Replay, TypeOK
<1>15. ASSUME ReconcileChain \/ AbortInterrupted PROVE TypeOK'
  BY <1>15, FailType DEF ReconcileChain, TriggerNext, AbortInterrupted, TypeOK
<1>16. ASSUME NEW S \in Scopes, AbortRequest(S) PROVE TypeOK'
  <2>1. /\ runSt' \in {"RUNNING", "FAILED"} \cup Triggerable
        /\ effects' \in {"none", "pending", "done"}
        /\ dedup' \in BOOLEAN /\ failures' \in 0 .. MaxFailures
    BY <1>16, SettleType, AbortEffectsType DEF AbortRequest, TypeOK
  <2>2. window' \subseteq Job
    BY <1>16 DEF AbortRequest, JobsIn, Scopes, JobsOn
  <2> QED  BY <1>16, <2>1, <2>2 DEF AbortRequest, TypeOK
<1>17. ASSUME AbortPending PROVE TypeOK'
  <2>1. /\ runSt' \in {"RUNNING", "FAILED"} \cup Triggerable
        /\ effects' \in {"none", "pending", "done"}
    BY <1>17, SettleType DEF AbortPending, TypeOK
  <2>2. dedup' \in BOOLEAN /\ failures' \in 0 .. MaxFailures
    BY <1>17, AbortEffectsType DEF AbortPending
  <2> QED  BY <1>17, <2>1, <2>2, AbortPendingCounts DEF AbortPending, TypeOK
<1>18. UNCHANGED vars => TypeOK'
  BY DEF vars, TypeOK
<1> QED  BY <1>1, <1>2, <1>3, <1>4, <1>5, <1>6, <1>7, <1>8, <1>9, <1>10, <1>11,
            <1>12, <1>13, <1>14, <1>15, <1>16, <1>17, <1>18
         DEF Next, Jobs, Tasks, DrainStep, Sweep, Abort

-----------------------------------------------------------------------------
\* A child may be missing only of a run whose jobs have ended, none aborted.
LEMMA ChildAfterAllJobs ==
  ASSUME TypeOK, VerdictOfAllFacts, ChildMissing
  PROVE  \A j \in Job : job[j] \in {"COMPLETED", "FAILED"}
<1>1. /\ runSt # "RUNNING" /\ runSt # "FAILED"
      /\ \A j \in Job : job[j] \in Terminal
      /\ runSt = Verdict(Tally(Job), abortAsked)
  BY DEF ChildMissing, Triggerable, VerdictOfAllFacts
<1>2. Cardinality(JobsIn(Job, "ABORTED")) = 0
  <2>1. ~(Tally(Job)["ABORTED"] > 0)
    BY <1>1 DEF Verdict
  <2>2. Tally(Job) \in Counters
    <3>1. Job \in SUBSET Job  OBVIOUS
    <3> QED  BY <3>1, TallyEnclosed
  <2>3. Tally(Job)["ABORTED"] \in Nat
    BY <2>2 DEF Counters, Terminal
  <2>4. Tally(Job)["ABORTED"] = Cardinality(JobsIn(Job, "ABORTED"))
    BY DEF Tally, Terminal
  <2> QED  BY <2>1, <2>3, <2>4
<1>3. JobsIn(Job, "ABORTED") = {}
  <2>1. JobsIn(Job, "ABORTED") \in SUBSET Job /\ Job \in SUBSET Job
    BY DEF JobsIn
  <2>2. IsFiniteSet(JobsIn(Job, "ABORTED"))
    BY <2>1, Smaller
  <2> QED  BY <1>2, <2>2, FS_EmptySet
<1> QED  BY <1>1, <1>3 DEF JobsIn, Terminal

LEMMA EndedJobsStay ==
  ASSUME TypeOK, [Next]_vars, \A j \in Job : job[j] \in Terminal
  PROVE  job' = job
<1> USE DEF runVars, taskVars
<1>1. ASSUME NEW j \in Job, NEW s \in Terminal PROVE ~JobStarts(j) /\ ~JobEnds(j, s)
  BY DEF JobStarts, JobEnds, Terminal
<1>2. ASSUME AbortPending PROVE job' = job
  <2>1. JobsIn(window, "PENDING") = {}
    BY DEF JobsIn, TypeOK, Terminal
  <2>2. job' = job \/ job' = [j \in Job |-> IF j \in {} THEN "ABORTED" ELSE job[j]]
    BY <1>2, <2>1 DEF AbortPending
  <2> QED  BY <2>2 DEF TypeOK
<1>3. Recount \/ (\E d \in Drainer : FinishRound(d)) => job' = job
  BY DEF Recount, FinishRound
<1> QED  BY <1>1, <1>2, <1>3, OtherSteps DEF FactStep

LEMMA ChildrenOnlyByChain ==
  ASSUME [Next]_vars, children' # children
  PROVE  ReconcileChain \/ \E d \in Drainer : TriggerChain(d)
<1>1. ASSUME NEW j \in Job, \/ JobStarts(j) \/ Wake(j) \/ LoseWake(j)
                            \/ \E s \in Terminal : JobEnds(j, s)
      PROVE  children' = children
  BY <1>1 DEF JobStarts, Wake, LoseWake, JobEnds
<1>2. ASSUME NEW d \in Drainer,
             \/ BeginRound(d) \/ FinishRound(d) \/ CheckEffects(d) \/ CloseEffects(d)
             \/ StartTask(d) \/ EnqueueTail(d) \/ Crash(d)
      PROVE  children' = children
  BY <1>2 DEF BeginRound, FinishRound, CheckEffects, CloseEffects, StartTask, EnqueueTail, Crash
<1>3. FinishTask \/ BeginSweep \/ Recount \/ Rescue \/ Replay \/ AbortPending \/ AbortInterrupted
        => children' = children
  BY DEF FinishTask, BeginSweep, Recount, Rescue, Replay, AbortPending, AbortInterrupted
<1>4. ASSUME NEW S \in Scopes, AbortRequest(S) PROVE children' = children
  BY <1>4 DEF AbortRequest
<1>5. UNCHANGED vars => children' = children
  BY DEF vars
<1> QED  BY <1>1, <1>2, <1>3, <1>4, <1>5 DEF Next, Jobs, Tasks, DrainStep, Sweep, Abort

\* The steps that may settle the run, or ask for its abort.
SettlingStep ==
  \/ \E d \in Drainer : FinishRound(d)
  \/ Recount \/ AbortPending
  \/ \E S \in Scopes : AbortRequest(S)

LEMMA UnsettlingSteps ==
  ASSUME [Next]_vars, ~SettlingStep
  PROVE  /\ UNCHANGED <<runSt, abortAsked>>
         /\ effects' = effects \/ effects = "pending"
<1> USE DEF runVars, taskVars
<1>1. ASSUME NEW j \in Job, \/ JobStarts(j) \/ Wake(j) \/ LoseWake(j)
                            \/ \E s \in Terminal : JobEnds(j, s)
      PROVE  UNCHANGED <<runSt, abortAsked, effects>>
  BY <1>1 DEF JobStarts, Wake, LoseWake, JobEnds
<1>2. ASSUME NEW d \in Drainer,
             \/ BeginRound(d) \/ CheckEffects(d) \/ TriggerChain(d)
             \/ StartTask(d) \/ EnqueueTail(d) \/ Crash(d)
      PROVE  UNCHANGED <<runSt, abortAsked, effects>>
  BY <1>2 DEF BeginRound, CheckEffects, TriggerChain, StartTask, EnqueueTail, Crash
<1>3. ASSUME NEW d \in Drainer, CloseEffects(d)
      PROVE  UNCHANGED <<runSt, abortAsked>> /\ (effects' = effects \/ effects = "pending")
  BY <1>3 DEF CloseEffects
<1>4. FinishTask \/ BeginSweep \/ Rescue \/ Replay \/ ReconcileChain \/ AbortInterrupted
        => UNCHANGED <<runSt, abortAsked, effects>>
  BY DEF FinishTask, BeginSweep, Rescue, Replay, ReconcileChain, AbortInterrupted
<1>5. UNCHANGED vars => UNCHANGED <<runSt, abortAsked, effects>>
  BY DEF vars
<1> QED  BY <1>1, <1>2, <1>3, <1>4, <1>5
         DEF SettlingStep, Next, Jobs, Tasks, DrainStep, Sweep, Abort

LEMMA SettleInv ==
  ASSUME TypeOK, EffectsOfSettled,
         NEW c \in Counters, NEW asked, NEW marker \in {"pending", "done"},
         Settle(c, asked, marker), asked = abortAsked',
         \A s \in Terminal : c[s] <= Cardinality(Having(job', Job, s))
  PROVE  /\ runSt # "RUNNING" => UNCHANGED <<runSt, effects>>
         /\ runSt = "RUNNING" => VerdictOfAllFacts' /\ EffectsOfSettled'
<1>1. runSt # "RUNNING" => UNCHANGED <<runSt, effects>>
  BY SettleFacts
<1>2. runSt = "RUNNING" => VerdictOfAllFacts'
  BY SettleIsVerdict
<1>3. runSt = "RUNNING" => EffectsOfSettled'
  BY SettleFacts DEF EffectsOfSettled, Triggerable
<1> QED  BY <1>1, <1>2, <1>3

\* What a settling step does to the run: nothing once it is settled, else it
\* settles it by a count that is not ahead of the facts.
LEMMA SettlingSteps ==
  ASSUME TypeOK, CountersBetweenMarksAndFacts, EffectsOfSettled, SettlingStep
  PROVE  /\ runSt # "RUNNING" => UNCHANGED <<runSt, abortAsked, effects>>
         /\ runSt = "RUNNING" => VerdictOfAllFacts' /\ EffectsOfSettled'
<1> DEFINE Goal == /\ runSt # "RUNNING" => UNCHANGED <<runSt, abortAsked, effects>>
                   /\ runSt = "RUNNING" => VerdictOfAllFacts' /\ EffectsOfSettled'
<1> USE DEF runVars, taskVars
<1>1. /\ Tally(Job) \in Counters
      /\ \A s \in Terminal : Tally(Job)[s] <= Cardinality(Having(job, Job, s))
  <2>1. Job \in SUBSET Job  OBVIOUS
  <2> QED  BY <2>1, TallyEnclosed DEF Enclosed
<1>2. runSt = "RUNNING" /\ UNCHANGED <<runSt, effects>> => VerdictOfAllFacts' /\ EffectsOfSettled'
  BY DEF VerdictOfAllFacts, EffectsOfSettled
<1>3. ASSUME NEW d \in Drainer, FinishRound(d) PROVE Goal
  <2>1. /\ Settle(Tally(Job), abortAsked, "pending")
        /\ abortAsked' = abortAsked /\ job' = job
    BY <1>3 DEF FinishRound
  <2> QED  BY <1>1, <2>1, SettleInv
<1>4. ASSUME Recount PROVE Goal
  <2>1. /\ \/ UNCHANGED <<runSt, effects>>
           \/ Settle(Tally(Job), abortAsked, "done")
        /\ abortAsked' = abortAsked /\ job' = job
    BY <1>4 DEF Recount
  <2> QED  BY <1>1, <1>2, <2>1, SettleInv
<1>5. ASSUME AbortPending PROVE Goal
  <2>1. CASE runSt # "RUNNING"
    BY <1>5, <2>1 DEF AbortPending
  <2>2. CASE runSt = "RUNNING"
    <3>1. Settle(count', abortAsked, "done") /\ abortAsked' = abortAsked
      BY <1>5, <2>2 DEF AbortPending
    <3>2. /\ count' \in Counters
          /\ \A s \in Terminal : count'[s] <= Cardinality(Having(job', Job, s))
      BY <1>5, AbortPendingCounts DEF CountersBetweenMarksAndFacts, Between, JobsIn, Having
    <3> QED  BY <3>1, <3>2, SettleInv
  <2> QED  BY <2>1, <2>2
<1>6. ASSUME NEW S \in Scopes, AbortRequest(S) PROVE Goal
  <2>1. /\ \/ UNCHANGED <<runSt, effects>>
           \/ Settle(count, TRUE, "done")
        /\ runSt = "RUNNING" /\ abortAsked' = TRUE /\ job' = job
    BY <1>6 DEF AbortRequest
  <2>2. /\ count \in Counters
        /\ \A s \in Terminal : count[s] <= Cardinality(Having(job, Job, s))
    BY DEF TypeOK, CountersBetweenMarksAndFacts, Between, JobsIn, Having
  <2> QED  BY <1>2, <2>1, <2>2, SettleInv
<1> QED  BY <1>3, <1>4, <1>5, <1>6 DEF SettlingStep

\* The run is settled by the facts, once, and its child comes after.
LEMMA SettledStep ==
  ASSUME TypeOK, CountersBetweenMarksAndFacts, VerdictOfAllFacts, EffectsOfSettled,
         OneChild, [Next]_vars
  PROVE  /\ VerdictOfAllFacts' /\ EffectsOfSettled' /\ OneChild'
         /\ runSt # "RUNNING" => runSt' = runSt
         /\ effects = "done" => effects' = "done"
<1> DEFINE Settled == /\ VerdictOfAllFacts' /\ EffectsOfSettled'
                      /\ runSt # "RUNNING" => runSt' = runSt
                      /\ effects = "done" => effects' = "done"
<1>1. runSt # "RUNNING" => job' = job
  BY EndedJobsStay DEF VerdictOfAllFacts
<1>2. ASSUME runSt # "RUNNING" PROVE Settled
  <2>1. UNCHANGED <<runSt, abortAsked>> /\ (effects' = effects \/ effects = "pending")
    BY <1>2, SettlingSteps, UnsettlingSteps
  <2> QED  BY <1>1, <1>2, <2>1, SettledStays DEF EffectsOfSettled
<1>3. ASSUME runSt = "RUNNING" PROVE Settled
  <2>1. effects = "none"
    BY <1>3 DEF EffectsOfSettled, TypeOK
  <2>2. ~SettlingStep => runSt' = runSt /\ effects' = effects
    BY <2>1, UnsettlingSteps
  <2>3. VerdictOfAllFacts' /\ EffectsOfSettled'
    BY <1>3, <2>2, SettlingSteps DEF VerdictOfAllFacts, EffectsOfSettled
  <2> QED  BY <1>3, <2>1, <2>3
<1>4. OneChild'
  <2>1. CASE children' = children
    <3>1. children = 1 => \A j \in Job : job[j] \in Terminal
      BY DEF OneChild, Terminal
    <3> QED  BY <2>1, <3>1, EndedJobsStay DEF OneChild
  <2>2. CASE children' # children
    <3>1. ChildMissing /\ children' = children + 1 /\ job' = job
      <4>1. \/ \E d \in Drainer : TriggerChain(d)
            \/ ReconcileChain
        BY <2>2, ChildrenOnlyByChain
      <4> QED  BY <2>2, <4>1 DEF TriggerChain, ReconcileChain, TriggerNext, runVars, taskVars
    <3>2. children = 0
      BY <3>1 DEF ChildMissing
    <3> QED  BY <3>1, <3>2, ChildAfterAllJobs DEF OneChild
  <2> QED  BY <2>1, <2>2
<1> QED  BY <1>2, <1>3, <1>4
-----------------------------------------------------------------------------
(* Marks and drains. *)

WakeInv == RoundsOfPlace /\ TailBehindMain /\ NoStrandedMark

LEMMA LeaderIsNoWorker == Leader \notin Worker
  BY AggregationAssumption DEF Worker, Main, Leader

LEMMA Move ==
  ASSUME TypeOK, NEW d \in Drainer, NEW place, Goto(d, place)
  PROVE  pc'[d] = place /\ \A e \in Drainer \ {d} : pc'[e] = pc[e]
  BY DEF Goto, TypeOK

LEMMA FailIsCounted ==
  ASSUME TypeOK, Fail
  PROVE  failures' # 0
  BY AggregationAssumption DEF Fail, TypeOK

\* Nobody moves, and no mark is new.
LEMMA StillInv ==
  ASSUME WakeInv, UNCHANGED <<pc, rounds, waking>>, mark' \subseteq mark,
         failures' = 0 => failures = 0
  PROVE  WakeInv'
  BY DEF WakeInv, RoundsOfPlace, TailBehindMain, NoStrandedMark

\* A step of the leader: the tasks stay where they are.
LEMMA LeaderInv ==
  ASSUME TypeOK, WakeInv, UNCHANGED waking, mark' \subseteq mark,
         failures' = 0 => failures = 0,
         \A d \in Worker : pc'[d] = pc[d] /\ rounds'[d] = rounds[d],
         pc'[Leader] = "counting" => rounds'[Leader] < MaxRounds
  PROVE  WakeInv'
<1>1. RoundsOfPlace'
  BY DEF WakeInv, RoundsOfPlace, Drainer
<1>2. TailBehindMain'
  BY DEF WakeInv, TailBehindMain, Worker
<1>3. NoStrandedMark'
  BY DEF WakeInv, NoStrandedMark
<1> QED  BY <1>1, <1>2, <1>3 DEF WakeInv

\* A step of a task that stays in its drain, or leaves it with all marks gone.
LEMMA WorkerInv ==
  ASSUME TypeOK, WakeInv, UNCHANGED waking, mark' \subseteq mark,
         failures' = 0 => failures = 0,
         NEW d \in Worker, NEW place, Goto(d, place),
         \A e \in Drainer \ {d} : rounds'[e] = rounds[e],
         place \in Draining \/ (place = "idle" /\ mark = {}),
         place = "counting" => rounds'[d] < MaxRounds,
         place \in {"applied", "chaining", "closing"} => rounds'[d] > 0,
         pc[d] = "queued" => d = Main \/ pc[Main] # "finishing"
  PROVE  WakeInv'
<1>1. d \in Drainer
  BY PlacesAreTyped
<1>2. pc'[d] = place /\ \A e \in Drainer \ {d} : pc'[e] = pc[e]
  BY <1>1, Move
<1>3. RoundsOfPlace'
  <2>1. place \notin {"recounting", "rescuing", "replaying"}
    BY DEF Draining
  <2> QED  BY <1>2, <2>1, PlacesAreTyped DEF WakeInv, RoundsOfPlace
<1>4. TailBehindMain'
  <2> SUFFICES ASSUME failures' = 0, pc'[Main] = "finishing"
               PROVE  \E t \in Tail : pc'[t] = "queued"
    BY DEF TailBehindMain
  <2>1. d # Main /\ pc[Main] = "finishing"
    BY <1>2, PlacesAreTyped DEF Draining
  <2>2. PICK t \in Tail : pc[t] = "queued"
    BY <2>1 DEF WakeInv, TailBehindMain
  <2>3. t # d
    BY <2>1, <2>2
  <2> QED  BY <1>2, <2>2, <2>3, PlacesAreTyped
<1>5. NoStrandedMark'
  <2>1. CASE place \in Draining
    BY <1>2, <2>1 DEF NoStrandedMark
  <2>2. CASE mark = {}
    BY <2>2 DEF NoStrandedMark
  <2> QED  BY <2>1, <2>2
<1> QED  BY <1>3, <1>4, <1>5 DEF WakeInv

LEMMA WakeStep ==
  ASSUME TypeOK, WakeInv, [Next]_vars
  PROVE  WakeInv'
<1> USE DEF runVars, taskVars
<1>1. ASSUME NEW j \in Job, JobStarts(j) PROVE WakeInv'
  BY <1>1, StillInv DEF JobStarts
<1>2. ASSUME NEW j \in Job, NEW s \in Terminal, JobEnds(j, s) PROVE WakeInv'
  <2>1. UNCHANGED <<pc, rounds, failures>> /\ waking' # {}
    BY <1>2 DEF JobEnds
  <2> QED  BY <2>1 DEF WakeInv, RoundsOfPlace, TailBehindMain, NoStrandedMark
<1>3. ASSUME NEW j \in Job, Wake(j) PROVE WakeInv'
  <2>1. UNCHANGED <<mark, rounds, failures>>
    BY <1>3 DEF Wake
  <2>2. CASE pc[Main] = "idle"
    <3>1. /\ pc'[Main] = "queued"
          /\ \A e \in Drainer \ {Main} : pc'[e] = pc[e]
      BY <1>3, <2>2, PlacesAreTyped DEF Wake, TypeOK
    <3>2. RoundsOfPlace'
      BY <2>1, <3>1, PlacesAreTyped DEF WakeInv, RoundsOfPlace
    <3>3. TailBehindMain' /\ NoStrandedMark'
      BY <3>1 DEF TailBehindMain, NoStrandedMark, Worker, Draining
    <3> QED  BY <3>2, <3>3 DEF WakeInv
  <2>3. CASE pc[Main] # "idle"
    <3>1. pc' = pc
      BY <1>3, <2>3 DEF Wake
    <3>2. pc[Main] \in Draining \cup {"finishing"}
      <4>1. pc[Main] \in Places /\ pc[Main] \notin {"recounting", "rescuing", "replaying"}
        BY PlacesAreTyped DEF TypeOK, WakeInv, RoundsOfPlace, Worker
      <4> QED  BY <2>3, <4>1 DEF Places, Draining
    <3>3. failures = 0 => \E d \in Worker : pc[d] \in Draining
      BY <3>2, PlacesAreTyped DEF WakeInv, TailBehindMain, Worker, Draining
    <3> QED  BY <2>1, <3>1, <3>3 DEF WakeInv, RoundsOfPlace, TailBehindMain, NoStrandedMark
  <2> QED  BY <2>2, <2>3
<1>4. ASSUME NEW j \in Job, LoseWake(j) PROVE WakeInv'
  <2>1. UNCHANGED <<pc, rounds>> /\ failures' # 0
    BY <1>4, FailIsCounted DEF LoseWake
  <2> QED  BY <2>1 DEF WakeInv, RoundsOfPlace, TailBehindMain, NoStrandedMark
<1>5. ASSUME NEW d \in Drainer, BeginRound(d) PROVE WakeInv'
  <2>1. /\ rounds[d] \in 0 .. MaxRounds /\ MaxRounds \in Nat \ {0}
        /\ UNCHANGED <<mark, waking, rounds, failures>> /\ pc[d] = "draining"
    BY <1>5, AggregationAssumption DEF BeginRound, TypeOK
  <2>2. \/ Goto(d, AfterDrain(d)) /\ (mark = {} \/ rounds[d] = MaxRounds)
        \/ Goto(d, "counting") /\ rounds[d] < MaxRounds
    BY <1>5, <2>1 DEF BeginRound
  <2>3. CASE d = Leader
    <3>1. pc'[d] = "counting" => rounds[d] < MaxRounds
      BY <2>2, <2>3, Move DEF AfterDrain
    <3>2. \A e \in Worker : pc'[e] = pc[e]
      BY <2>2, <2>3, Move, AggregationAssumption DEF Worker, Drainer, Main, Leader
    <3> QED  BY <2>1, <2>3, <3>1, <3>2, LeaderInv
  <2>4. CASE d # Leader
    <3>1. d \in Worker
      BY <2>4 DEF Drainer
    <3>2. CASE Goto(d, "counting") /\ rounds[d] < MaxRounds
      BY <2>1, <3>1, <3>2, WorkerInv DEF Draining
    <3>3. CASE Goto(d, AfterDrain(d)) /\ (mark = {} \/ rounds[d] = MaxRounds)
      <4>1. AfterDrain(d) = "tailing" \/ (AfterDrain(d) = "idle" /\ mark = {})
        BY <2>1, <2>4, <3>3 DEF AfterDrain
      <4> QED  BY <2>1, <3>1, <3>3, <4>1, WorkerInv DEF Draining
    <3> QED  BY <2>2, <3>2, <3>3
  <2> QED  BY <2>3, <2>4
<1>6. ASSUME NEW d \in Drainer, FinishRound(d) PROVE WakeInv'
  <2>1. /\ UNCHANGED <<waking, failures>> /\ mark' \subseteq mark
        /\ pc[d] = "counting" /\ rounds[d] \in Nat
        /\ rounds' = [rounds EXCEPT ![d] = @ + 1]
    BY <1>6, AggregationAssumption DEF FinishRound, TypeOK
  <2>2. rounds'[d] > 0 /\ \A e \in Drainer \ {d} : rounds'[e] = rounds[e]
    BY <2>1 DEF TypeOK
  <2>3. Goto(d, "applied") \/ Goto(d, "draining")
    BY <1>6 DEF FinishRound
  <2>4. CASE d = Leader
    <3>1. /\ \A e \in Worker : pc'[e] = pc[e] /\ rounds'[e] = rounds[e]
          /\ pc'[d] # "counting"
      BY <2>2, <2>3, <2>4, Move, LeaderIsNoWorker, PlacesAreTyped
    <3> QED  BY <2>1, <2>4, <3>1, LeaderInv
  <2>5. CASE d # Leader
    <3>1. d \in Worker
      BY <2>5 DEF Drainer
    <3> QED  BY <2>1, <2>2, <2>3, <3>1, WorkerInv DEF Draining
  <2> QED  BY <2>4, <2>5
<1>7. ASSUME NEW d \in Drainer, CheckEffects(d) \/ TriggerChain(d) \/ CloseEffects(d)
      PROVE  WakeInv'
  <2>1. /\ UNCHANGED <<mark, waking, rounds>> /\ pc[d] \in {"applied", "chaining", "closing"}
        /\ failures' = 0 => failures = 0
    BY <1>7, FailIsCounted
       DEF CheckEffects, TriggerChain, CloseEffects, EnqueueDedup
  <2>2. Goto(d, "chaining") \/ Goto(d, "closing") \/ Goto(d, AfterEffects(d))
    BY <1>7 DEF CheckEffects, TriggerChain, CloseEffects
  <2>3. AfterEffects(d) \in {"idle", "draining"}
    BY DEF AfterEffects
  <2>4. CASE d = Leader
    <3>1. (\A e \in Worker : pc'[e] = pc[e]) /\ pc'[d] # "counting"
      BY <2>2, <2>3, <2>4, Move, LeaderIsNoWorker, PlacesAreTyped
    <3> QED  BY <2>1, <2>4, <3>1, LeaderInv
  <2>5. CASE d # Leader
    <3>1. d \in Worker
      BY <2>5 DEF Drainer
    <3>2. rounds[d] > 0
      BY <2>1, <3>1 DEF WakeInv, RoundsOfPlace
    <3>3. AfterEffects(d) = "draining"
      BY <3>2 DEF AfterEffects
    <3> QED  BY <2>1, <2>2, <3>1, <3>2, <3>3, WorkerInv DEF Draining
  <2> QED  BY <2>4, <2>5
<1>8. ASSUME NEW d \in Drainer, StartTask(d) PROVE WakeInv'
  <2>1. /\ UNCHANGED <<mark, waking, failures>> /\ Goto(d, "draining")
        /\ d \in Worker /\ pc[d] = "queued" /\ (d \in Tail => pc[Main] # "finishing")
        /\ \A e \in Drainer \ {d} : rounds'[e] = rounds[e]
    BY <1>8 DEF StartTask, TypeOK
  <2> QED  BY <2>1, WorkerInv DEF Draining, Worker
<1>9. ASSUME NEW d \in Drainer, EnqueueTail(d) PROVE WakeInv'
  <2> DEFINE gone == [pc EXCEPT ![d] = IF d = Main THEN "finishing" ELSE "idle"]
  <2>1. UNCHANGED <<mark, waking, rounds>>
    BY <1>9 DEF EnqueueTail
  <2>2. /\ gone \in [Drainer -> Places] /\ gone[d] \in {"finishing", "idle"}
        /\ \A e \in Drainer \ {d} : gone[e] = pc[e]
    BY DEF TypeOK, Places
  <2>3. CASE pc' = gone /\ Fail
    <3>1. failures' # 0
      BY <2>3, FailIsCounted
    <3>2. RoundsOfPlace'
      BY <2>1, <2>2, <2>3, PlacesAreTyped DEF WakeInv, RoundsOfPlace
    <3> QED  BY <3>1, <3>2 DEF WakeInv, TailBehindMain, NoStrandedMark
  <2>4. ASSUME NEW t \in Tail, pc' = [gone EXCEPT ![t] = "queued"]
        PROVE  WakeInv'
    <3>1. t \in Drainer /\ t \in Worker
      BY PlacesAreTyped
    <3>2. /\ pc'[t] = "queued" /\ pc'[d] \in {"finishing", "idle", "queued"}
          /\ \A e \in Drainer \ {d, t} : pc'[e] = pc[e]
      BY <2>2, <2>4, <3>1
    <3>3. RoundsOfPlace'
      BY <2>1, <3>1, <3>2, PlacesAreTyped DEF WakeInv, RoundsOfPlace
    <3> QED  BY <3>1, <3>2, <3>3 DEF WakeInv, TailBehindMain, NoStrandedMark, Draining
  <2> QED  BY <1>9, <2>3, <2>4 DEF EnqueueTail
<1>10. ASSUME NEW d \in Drainer, Crash(d) PROVE WakeInv'
  <2>1. UNCHANGED rounds /\ failures' # 0 /\ (Goto(d, "idle") \/ Goto(d, "queued"))
    BY <1>10, FailIsCounted DEF Crash
  <2>2. pc'[d] \in {"idle", "queued"} /\ \A e \in Drainer \ {d} : pc'[e] = pc[e]
    BY <2>1, Move
  <2>3. RoundsOfPlace'
    BY <2>1, <2>2, PlacesAreTyped DEF WakeInv, RoundsOfPlace
  <2> QED  BY <2>1, <2>3 DEF WakeInv, TailBehindMain, NoStrandedMark
<1>11. ASSUME FinishTask PROVE WakeInv'
  <2>1. /\ UNCHANGED <<mark, waking, rounds, failures>> /\ pc[Main] = "finishing"
        /\ pc'[Main] = "idle" /\ \A e \in Drainer \ {Main} : pc'[e] = pc[e]
    BY <1>11, Move, PlacesAreTyped DEF FinishTask
  <2>2. RoundsOfPlace' /\ TailBehindMain'
    BY <2>1, PlacesAreTyped DEF WakeInv, RoundsOfPlace, TailBehindMain
  <2>3. NoStrandedMark'
    BY <2>1, PlacesAreTyped DEF WakeInv, NoStrandedMark, Draining
  <2> QED  BY <2>2, <2>3 DEF WakeInv
<1>12. ASSUME Sweep PROVE WakeInv'
  <2>1. PICK place \in {"rescuing", "recounting", "draining", "replaying", "applied", "idle"} :
          Goto(Leader, place)
    BY <1>12 DEF Sweep, BeginSweep, Recount, Rescue, Replay
  <2>2. /\ UNCHANGED <<mark, waking, failures>>
        /\ rounds' = rounds \/ rounds' = [rounds EXCEPT ![Leader] = 0]
    BY <1>12 DEF Sweep, BeginSweep, Recount, Rescue, Replay
  <2>3. /\ \A e \in Worker : pc'[e] = pc[e] /\ rounds'[e] = rounds[e]
        /\ pc'[Leader] # "counting"
    BY <2>1, <2>2, Move, LeaderIsNoWorker, PlacesAreTyped DEF TypeOK
  <2> QED  BY <2>2, <2>3, LeaderInv
<1>13. ASSUME ReconcileChain PROVE WakeInv'
  BY <1>13, StillInv DEF ReconcileChain
<1>14. ASSUME \/ \E S \in Scopes : AbortRequest(S)
              \/ AbortPending \/ AbortInterrupted
       PROVE  WakeInv'
  <2>1. UNCHANGED <<pc, rounds, waking, mark>>
    BY <1>14 DEF AbortRequest, AbortPending, AbortInterrupted
  <2>2. failures' = 0 => failures = 0
    BY <1>14, FailIsCounted
       DEF AbortRequest, AbortPending, AbortInterrupted, AbortEffects, EnqueueDedup
  <2> QED  BY <2>1, <2>2, StillInv
<1>15. UNCHANGED vars => WakeInv'
  BY StillInv DEF vars
<1> QED  BY <1>1, <1>2, <1>3, <1>4, <1>5, <1>6, <1>7, <1>8, <1>9, <1>10, <1>11,
            <1>12, <1>13, <1>14, <1>15
         DEF Next, Jobs, Tasks, DrainStep, Abort

-----------------------------------------------------------------------------
LEMMA AggStep == AggInv /\ [Next]_vars => AggInv'
<1> SUFFICES ASSUME AggInv, [Next]_vars PROVE AggInv'
  OBVIOUS
<1>1. TypeOK /\ CountersBetweenMarksAndFacts /\ VerdictOfAllFacts /\ EffectsOfSettled /\ OneChild
      /\ RoundsOfPlace /\ WakeInv
  BY DEF AggInv, WakeInv
<1>2. TypeOK' /\ CountersBetweenMarksAndFacts'
  BY <1>1, TypeStep, CountStep
<1>3. VerdictOfAllFacts' /\ EffectsOfSettled' /\ OneChild'
  BY <1>1, SettledStep
<1>4. WakeInv'
  BY <1>1, WakeStep
<1> QED  BY <1>2, <1>3, <1>4 DEF AggInv, WakeInv

\* The inductive invariant, of every run of jobs and every way to drain it.
THEOREM AggregationCorrect == Spec => []AggInv
<1>1. Init => AggInv
  BY InitInv
<1>2. AggInv /\ [Next]_vars => AggInv'
  BY AggStep
<1> QED  BY <1>1, <1>2, PTL DEF Spec

\* Every variable keeps to its type: no drain does more than its cap of rounds
\* (AGGREGATION_DRAIN_MAX_ROUNDS).
THEOREM TypeCorrect == Spec => []TypeOK
<1>1. AggInv => TypeOK
  BY DEF AggInv
<1> QED  BY <1>1, AggregationCorrect, PTL

\* Counters are never ahead of the facts, and behind them only by jobs that
\* have a mark (_aggregation_round_sync, _bulk_abort_pending_jobs, the repair).
THEOREM CountersFollowFacts == Spec => []CountersBetweenMarksAndFacts
<1>1. AggInv => CountersBetweenMarksAndFacts
  BY DEF AggInv
<1> QED  BY <1>1, AggregationCorrect, PTL

\* A run is settled when all its jobs are, by what all of them did
\* (apply_plan_run_aggregation_from_counters).
THEOREM SettledByAllFacts == Spec => []VerdictOfAllFacts
<1>1. AggInv => VerdictOfAllFacts
  BY DEF AggInv
<1> QED  BY <1>1, AggregationCorrect, PTL

\* Without losses every mark has a drain of a task ahead of it, although wake-ups
\* are dropped and drains stop at their cap (_enqueue_aggregation_tail).
THEOREM NoMarkIsStranded == Spec => []NoStrandedMark
<1>1. AggInv => NoStrandedMark
  BY DEF AggInv
<1> QED  BY <1>1, AggregationCorrect, PTL

\* A parent has one child, and only when all its jobs have ended, none of them
\* aborted (trigger_next_plan_sync, reconcile_chain_trigger_sync).
THEOREM ChainIsSingle == Spec => []OneChild
<1>1. AggInv => OneChild
  BY DEF AggInv
<1> QED  BY <1>1, AggregationCorrect, PTL

\* A settled run is not reopened, and effects that are done stay done
\* (the guard of the terminal statuses in every path that settles).
THEOREM SettlingIsFinal == Spec => SettledOnce
<1>1. ASSUME AggInv, [Next]_vars
      PROVE  /\ runSt # "RUNNING" => runSt' = runSt
             /\ effects = "done" => effects' = "done"
  BY <1>1, SettledStep DEF AggInv
<1>2. AggInv /\ [Next]_vars =>
        [/\ runSt # "RUNNING" => runSt' = runSt
         /\ effects = "done" => effects' = "done"]_vars
  BY <1>1
<1> QED  BY <1>2, AggregationCorrect, PTL DEF Spec, SettledOnce
=============================================================================
