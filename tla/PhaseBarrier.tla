---------------------------- MODULE PhaseBarrier ----------------------------
(***************************************************************************)
(* The barrier between init and patrol: the jobs of one PlanRun on one     *)
(* Agent host start their patrol together.  The host's coordinator keeps a *)
(* view of the PlanRun with the count of arrivals; it makes the view when  *)
(* a job is claimed, and drops it when no registered job of the PlanRun is *)
(* left.  Jobs end on the way there, never come, and come back after a     *)
(* restart of the Agent.                                                   *)
(***************************************************************************)
EXTENDS Naturals, FiniteSets

CONSTANTS
  Job,         \* the jobs of the PlanRun that were admitted on this host
  MaxRestarts  \* how often the Agent restarts

ASSUME ConstantsAssumption ==
  /\ IsFiniteSet(Job) /\ Cardinality(Job) >= 2
  /\ MaxRestarts \in Nat

VARIABLES
  pc,        \* where each job is; see Places
  view,      \* the PlanRunHostView, or NoView
  capped,    \* whether there is a barrier_max_wait
  limited,   \* whether every step and every patrol of the plan ends; see Fairness
  restarts

vars == <<pc, view, capped, limited, restarts>>

\* out: not on this Agent, and from the start if it comes.  paused: the same,
\* with a patrol checkpoint.  claimed, resumed: the worker has it, and its
\* engine has not begun a step.
Places == {"out", "paused", "claimed", "resumed", "init", "arriving",
           "waiting", "patrol", "teardown", "gone"}

Total == Cardinality(Job)

NoView == [armed |-> FALSE, arrived |-> 0, phase |-> "none"]
FreshView == [NoView EXCEPT !.phase = "INIT"]
Views == [armed : BOOLEAN, arrived : 0..Total,
          phase : {"none", "INIT", "BARRIER_WAIT", "PATROL"}]

Present == view # NoView
Full(v) == v.armed /\ v.arrived >= Total

Init ==
  /\ pc = [j \in Job |-> "out"]
  /\ view = NoView
  /\ capped \in BOOLEAN /\ limited \in BOOLEAN
  /\ restarts = 0

Go(j, place) == pc' = [pc EXCEPT ![j] = place]

\* The first step of an engine puts its job into _job_prh, its end takes it out.
Registered == {j \in Job : pc[j] \in {"init", "arriving", "waiting", "patrol", "teardown"}}

-----------------------------------------------------------------------------
\* The barrier.

\* set_barrier_total, once for the phase.
Armed(v) ==
  IF v.armed THEN v
  ELSE [v EXCEPT !.armed = TRUE, !.arrived = 0, !.phase = "BARRIER_WAIT"]

Advanced(v) == [v EXCEPT !.phase = "PATROL"]

\* Variant: the barrier opens for the last but one.
CountedEarly(v) ==
  LET w == [v EXCEPT !.arrived = @ + 1]
  IN IF w.arrived + 1 >= Total THEN [Advanced(w) EXCEPT !.arrived = Total] ELSE w
\* arrive_at_barrier; the last one advances the phase.
Counted(v) ==
  LET w == [v EXCEPT !.arrived = @ + 1]
  IN IF Full(w) THEN Advanced(w) ELSE w

\* Without a view there is nothing to arrive at.
Arrival(v) == IF v = NoView THEN NoView ELSE Counted(Armed(v))

\* register_plan_run_host
Ensured(v) == IF v = NoView THEN FreshView ELSE v

-----------------------------------------------------------------------------
\* A job comes: by a claim, or by a RESUME of the recovery.
Come(j) ==
  /\ \/ pc[j] = "out" /\ Go(j, "claimed")
     \/ pc[j] = "paused" /\ Go(j, "resumed")
  /\ view' = Ensured(view)
  /\ UNCHANGED <<capped, limited, restarts>>

\* The worker cannot be submitted, the pipeline is invalid, the watcher does
\* not start, or the job is aborted before its first step.
FailsBeforeEngine(j) ==
  /\ pc[j] \in {"claimed", "resumed"}
  /\ view' = Arrival(view)
  /\ Go(j, "gone")
  /\ UNCHANGED <<capped, limited, restarts>>

\* The engine finds that it does not hold the device's lease, or cannot find
\* out: it returns at once, past everything that would count the job.
LeaseRefused(j) ==
  /\ pc[j] \in {"claimed", "resumed"}
  /\ Go(j, "gone")
  /\ UNCHANGED <<view, capped, limited, restarts>>

StartInit(j) ==
  /\ pc[j] = "claimed"
  /\ Go(j, "init")
  /\ UNCHANGED <<view, capped, limited, restarts>>

\* A patrol checkpoint is behind the barrier.
ResumePatrol(j) ==
  /\ pc[j] = "resumed"
  /\ view' = IF Present THEN Advanced(view) ELSE view
  /\ Go(j, "patrol")
  /\ UNCHANGED <<capped, limited, restarts>>

\* Init fails or is aborted: the job will not patrol, and is counted.
InitFails(j) ==
  /\ pc[j] = "init"
  /\ view' = Arrival(view)
  /\ Go(j, "teardown")
  /\ UNCHANGED <<capped, limited, restarts>>

\* WAITING_BARRIER is published before the arrival.
InitDone(j) ==
  /\ pc[j] = "init"
  /\ Go(j, "arriving")
  /\ UNCHANGED <<view, capped, limited, restarts>>

\* The last one goes on, unless it has been aborted.
Arrive(j) ==
  /\ pc[j] = "arriving"
  /\ view' = Arrival(view)
  /\ IF view # NoView /\ Full(view')
     THEN Go(j, "patrol") \/ Go(j, "teardown")
     ELSE Go(j, "waiting")
  /\ UNCHANGED <<capped, limited, restarts>>

\* wait_barrier returns: the barrier is open, or there is none.
Released(j) ==
  /\ pc[j] = "waiting"
  /\ Full(view) \/ ~Present
  /\ Go(j, "patrol") \/ Go(j, "teardown")
  /\ UNCHANGED <<view, capped, limited, restarts>>

\* Variant: a job that is called off at the barrier is counted once more.
AbortedAndCounted(j) ==
  /\ pc[j] = "waiting"
  /\ Go(j, "teardown")
  /\ view' = Arrival(view)
  /\ UNCHANGED <<capped, limited, restarts>>
\* An abort, or a lost lease; the job has been counted.
Aborted(j) ==
  /\ pc[j] = "waiting"
  /\ Go(j, "teardown")
  /\ UNCHANGED <<view, capped, limited, restarts>>

\* Variant: a peer at the barrier counts as one that makes progress.
ProgressingAnyState == {"init", "teardown", "arriving", "waiting"}
\* Peers in these states prolong the wait; one at the barrier does not.
Progressing == {"init", "teardown"}

AllStalled(j) == \A k \in Job \ {j} : pc[k] \notin Progressing

\* The sliding timeout.  A patrolling peer prolongs the wait during its steps.
TimeOut(j) ==
  /\ pc[j] = "waiting"
  /\ AllStalled(j)
  /\ Go(j, "teardown")
  /\ UNCHANGED <<view, capped, limited, restarts>>

\* The absolute limit, which the environment of the Agent may switch off.
MaxWait(j) ==
  /\ pc[j] = "waiting" /\ capped
  /\ Go(j, "teardown")
  /\ UNCHANGED <<view, capped, limited, restarts>>

PatrolEnds(j) ==
  /\ pc[j] = "patrol"
  /\ Go(j, "teardown")
  /\ UNCHANGED <<view, capped, limited, restarts>>

\* Variant: the first job that ends takes the view with it.
LastRegistered(j) == TRUE
LastOfHost(j) == Registered = {j}

\* deregister_job
Leave(j) ==
  /\ pc[j] = "teardown"
  /\ view' = IF LastOfHost(j) THEN NoView ELSE view
  /\ Go(j, "gone")
  /\ UNCHANGED <<capped, limited, restarts>>

\* Another PlanRun comes to a coordinator with too many views.
Reclaim ==
  /\ Present /\ Registered = {}
  /\ view' = NoView
  /\ UNCHANGED <<pc, capped, limited, restarts>>

\* The Agent restarts: views are lost, and unfinished jobs may come again.
AfterRestart(place) ==
  CASE place \in {"out", "paused", "gone"} -> {place}
    [] place \in {"claimed", "init", "arriving", "waiting"} -> {"out"}
    [] place = "resumed" -> {"paused"}
    [] place \in {"patrol", "teardown"} -> {"out", "paused"}

Restart ==
  /\ restarts < MaxRestarts
  /\ restarts' = restarts + 1
  /\ view' = NoView
  /\ pc' \in [Job -> Places]
  /\ \A j \in Job : pc'[j] \in AfterRestart(pc[j])
  /\ UNCHANGED <<capped, limited>>

-----------------------------------------------------------------------------
WorkerStep(j) ==
  \/ FailsBeforeEngine(j) \/ LeaseRefused(j) \/ StartInit(j) \/ ResumePatrol(j)
  \/ InitFails(j) \/ InitDone(j) \/ Arrive(j) \/ Released(j)
  \/ PatrolEnds(j) \/ Leave(j)

Next ==
  \/ \E j \in Job : Come(j) \/ WorkerStep(j) \/ Aborted(j) \/ TimeOut(j) \/ MaxWait(j)
  \/ Reclaim \/ Restart

Spec == Init /\ [][Next]_vars

\* Calls of the coordinator return, and the clocks of a wait run out: the
\* sliding one is only owed when nobody patrols.  A patrol without a
\* timeout_seconds need not end, nor a step without a wall clock that goes on
\* reporting progress: what a job does is owed an end only where all have one.
Fairness ==
  \A j \in Job :
    /\ WF_vars(Arrive(j)) /\ WF_vars(Released(j))
    /\ WF_vars(MaxWait(j))
    /\ WF_vars(TimeOut(j) /\ \A k \in Job : pc[k] # "patrol")
    /\ WF_vars(limited /\ (InitFails(j) \/ InitDone(j)))
    /\ WF_vars(limited /\ (PatrolEnds(j) \/ Leave(j)))

FairSpec == Spec /\ Fairness

-----------------------------------------------------------------------------
\* Every count is of distinct jobs of the wave.
TypeOK ==
  /\ pc \in [Job -> Places]
  /\ view \in Views
  /\ capped \in BOOLEAN /\ limited \in BOOLEAN
  /\ restarts \in 0..MaxRestarts

\* A barrier that opens does so with everybody: each job of the wave has done
\* its init or will not patrol any more.  (_execute_lifecycle aligns all
\* devices of a PlanRunHost before patrol.)
OpenMeansAllCame ==
  Full(view) =>
    \A j \in Job : pc[j] \in {"waiting", "patrol", "teardown", "gone"}

\* The barrier a job waits at is neither dropped nor armed again under it, by
\* whoever ends, comes or is reclaimed meanwhile: arrivals add up.
WaiterKeepsItsBarrier ==
  [][\A j \in Job :
       pc[j] = "waiting" /\ pc'[j] = "waiting" /\ Present =>
         /\ view' # NoView
         /\ view'.arrived >=
              view.arrived + Cardinality({k \in Job : pc[k] = "arriving" /\ pc'[k] # "arriving"})]_vars

\* Jobs at the barrier do not keep each other waiting, even without an
\* absolute limit and with peers that never come.  Without that limit only a
\* peer that works may, and only where nothing ends its work.
NobodyWaitsForEver ==
  \A j \in Job :
    pc[j] = "waiting" ~>
      \/ pc[j] # "waiting"
      \/ ~capped /\ ~limited /\ \E k \in Job : pc[k] \in {"init", "patrol", "teardown"}
=============================================================================
