------------------------- MODULE PhaseBarrier_proofs -------------------------
(***************************************************************************)
(* The barrier opens for all jobs of the host or for none, and nobody      *)
(* takes it away from those who wait, for any number of jobs and restarts. *)
(***************************************************************************)
EXTENDS PhaseBarrier, FiniteSetTheorems, TLAPS

\* Those who are past their init, or will never do it.
Came == {j \in Job : pc[j] \in {"waiting", "patrol", "teardown", "gone"}}

\* No job is counted twice: resumed jobs and refused ones are not counted at
\* all, so that there may be fewer arrivals than jobs that came.
NoArrivalTwice == view.arrived <= Cardinality(Came)

\* Arming starts a count that nobody has begun.
UnarmedIsEmpty == ~view.armed => view.arrived = 0

BarrierInv == TypeOK /\ NoArrivalTwice /\ UnarmedIsEmpty

-----------------------------------------------------------------------------
LEMMA JobFacts ==
  /\ IsFiniteSet(Job) /\ Total \in Nat /\ Total >= 2
  /\ \A S \in SUBSET Job :
       /\ IsFiniteSet(S) /\ Cardinality(S) \in Nat /\ Cardinality(S) <= Total
       /\ Cardinality(S) = Total => S = Job
<1>1. IsFiniteSet(Job) /\ Total \in Nat /\ Total >= 2
  BY ConstantsAssumption, FS_CardinalityType DEF Total
<1>2. ASSUME NEW S \in SUBSET Job
      PROVE  /\ IsFiniteSet(S) /\ Cardinality(S) \in Nat /\ Cardinality(S) <= Total
             /\ Cardinality(S) = Total => S = Job
  BY <1>1, <1>2, FS_Subset, FS_CardinalityType DEF Total
<1> QED  BY <1>1, <1>2

\* A job joins those who came, or stays among them.
LEMMA CameGrows ==
  ASSUME TypeOK, NEW j \in Job, NEW place \in {"waiting", "patrol", "teardown", "gone"},
         Go(j, place)
  PROVE  /\ Came' = Came \cup {j}
         /\ j \in Came => Cardinality(Came') = Cardinality(Came)
         /\ j \notin Came => Cardinality(Came') = Cardinality(Came) + 1
         /\ Came' \in SUBSET Job
<1>1. Came' = Came \cup {j}
  BY DEF Came, Go, TypeOK
<1>2. IsFiniteSet(Came)
  BY JobFacts DEF Came
<1>3. Came' \in SUBSET Job
  BY <1>1 DEF Came
<1> QED  BY <1>1, <1>2, <1>3, FS_AddElement

\* A job that has not come takes another place outside.
LEMMA CameStays ==
  ASSUME TypeOK, NEW j \in Job, j \notin Came,
         NEW place \in {"claimed", "resumed", "init", "arriving"}, Go(j, place)
  PROVE  Came' = Came
  BY DEF Came, Go, TypeOK

\* What an arrival does to a view.
LEMMA ArrivalFacts ==
  ASSUME NEW v \in Views, ~v.armed => v.arrived = 0, v.arrived < Total
  PROVE  /\ v = NoView => Arrival(v) = NoView
         /\ v # NoView => /\ Arrival(v) \in Views /\ Arrival(v) # NoView
                          /\ Arrival(v).armed /\ Arrival(v).arrived = v.arrived + 1
<1>1. CASE v = NoView
  BY <1>1 DEF Arrival
<1>2. CASE v # NoView
  <2> DEFINE w == [Armed(v) EXCEPT !.arrived = @ + 1]
  <2>1. Armed(v) \in Views /\ Armed(v).armed /\ Armed(v).arrived = v.arrived
    BY JobFacts DEF Armed, Views
  <2>2. w \in Views /\ w.armed /\ w.arrived = v.arrived + 1
    BY <2>1, JobFacts DEF Views
  <2>3. Arrival(v) \in {w, [w EXCEPT !.phase = "PATROL"]}
    BY <1>2 DEF Arrival, Counted, Advanced
  <2>4. Arrival(v) \in Views /\ Arrival(v).armed /\ Arrival(v).arrived = v.arrived + 1
    BY <2>2, <2>3 DEF Views
  <2> QED  BY <1>2, <2>4 DEF NoView
<1> QED  BY <1>1, <1>2

\* One job arrives, and comes; nobody else moves.
LEMMA ArrivalKeepsInv ==
  ASSUME BarrierInv, NEW j \in Job, j \notin Came,
         NEW place \in {"waiting", "patrol", "teardown", "gone"}, Go(j, place),
         view' = Arrival(view), UNCHANGED <<capped, limited, restarts>>
  PROVE  BarrierInv'
<1>1. /\ view \in Views /\ UnarmedIsEmpty /\ view.arrived <= Cardinality(Came)
      /\ Came \in SUBSET Job /\ Cardinality(Came) \in Nat
      /\ Came' \in SUBSET Job /\ Cardinality(Came') = Cardinality(Came) + 1
  BY CameGrows, JobFacts DEF BarrierInv, TypeOK, NoArrivalTwice, Came
<1>2. Cardinality(Came') <= Total
  BY <1>1, JobFacts
<1>3. view.arrived \in Nat /\ view.arrived < Total
  BY <1>1, <1>2, JobFacts DEF Views
<1>4. /\ view' \in Views /\ (~view'.armed => view'.arrived = 0)
      /\ view'.arrived <= Cardinality(Came')
  BY <1>1, <1>3, ArrivalFacts DEF UnarmedIsEmpty
<1>5. TypeOK'
  BY <1>4 DEF BarrierInv, TypeOK, Go, Places
<1> QED  BY <1>4, <1>5 DEF BarrierInv, NoArrivalTwice, UnarmedIsEmpty

\* The view is made, dropped, or told that it is over; jobs only come.
LEMMA OtherKeepsInv ==
  ASSUME BarrierInv, pc' \in [Job -> Places],
         view' \in {view, NoView, Ensured(view), Advanced(view)},
         Came \subseteq Came', UNCHANGED <<capped, limited, restarts>>
  PROVE  BarrierInv'
<1>1. Came' \in SUBSET Job /\ Cardinality(Came) <= Cardinality(Came')
      /\ Cardinality(Came) \in Nat /\ Cardinality(Came') \in Nat
  <2>1. Came \in SUBSET Job /\ Came' \in SUBSET Job
    BY DEF Came
  <2> QED  BY <2>1, JobFacts, FS_Subset
<1>2. /\ view' \in Views /\ view'.arrived \in {view.arrived, 0}
      /\ ~view'.armed => view'.arrived = 0
  <2>1. view \in Views /\ (~view.armed => view.arrived = 0)
    BY DEF BarrierInv, TypeOK, UnarmedIsEmpty
  <2>2. CASE view' = NoView
    BY <2>2, JobFacts DEF NoView, Views
  <2>3. CASE view' = view
    BY <2>1, <2>3
  <2>4. CASE view' = Ensured(view)
    <3>1. NoView \in Views /\ NoView.arrived = 0
      BY JobFacts DEF NoView, Views
    <3>2. FreshView \in Views /\ FreshView.arrived = 0
      BY <3>1 DEF FreshView, Views
    <3> QED  BY <2>1, <2>4, <3>2 DEF Ensured
  <2>5. CASE view' = Advanced(view)
    BY <2>1, <2>5 DEF Advanced, Views
  <2> QED  BY <2>2, <2>3, <2>4, <2>5
<1>3. view'.arrived <= Cardinality(Came')
  BY <1>1, <1>2 DEF BarrierInv, TypeOK, NoArrivalTwice, Views
<1> QED  BY <1>2, <1>3 DEF BarrierInv, TypeOK, NoArrivalTwice, UnarmedIsEmpty

-----------------------------------------------------------------------------
LEMMA InitInv == Init => BarrierInv
<1> SUFFICES ASSUME Init PROVE BarrierInv
  OBVIOUS
<1>1. TypeOK
  BY JobFacts, ConstantsAssumption DEF Init, TypeOK, Places, Views, NoView
<1>2. Cardinality(Came) \in Nat
  BY JobFacts DEF Came
<1> QED
  BY <1>1, <1>2 DEF Init, BarrierInv, NoArrivalTwice, UnarmedIsEmpty, NoView

\* One job takes a place, and the view is not counted up.
LEMMA MoveKeepsInv ==
  ASSUME BarrierInv, NEW j \in Job, NEW place \in Places, Go(j, place),
         j \in Came => place \in {"waiting", "patrol", "teardown", "gone"},
         view' \in {view, NoView, Ensured(view), Advanced(view)},
         UNCHANGED <<capped, limited, restarts>>
  PROVE  BarrierInv'
<1>1. pc' \in [Job -> Places] /\ Came \subseteq Came'
  BY DEF BarrierInv, TypeOK, Go, Came
<1> QED  BY <1>1, OtherKeepsInv

LEMMA WorkerKeepsInv ==
  ASSUME BarrierInv, NEW j \in Job,
         Come(j) \/ WorkerStep(j) \/ Aborted(j) \/ TimeOut(j) \/ MaxWait(j)
  PROVE  BarrierInv'
<1>1. CASE Come(j)
  <2>1. PICK place \in {"claimed", "resumed"} : Go(j, place)
    BY <1>1 DEF Come
  <2>2. j \notin Came /\ place \in Places
    BY <1>1 DEF Come, Came, Places
  <2> QED  BY <1>1, <2>1, <2>2, MoveKeepsInv DEF Come
<1>2. CASE FailsBeforeEngine(j)
  BY <1>2, ArrivalKeepsInv DEF FailsBeforeEngine, Came
<1>3. CASE InitFails(j)
  BY <1>3, ArrivalKeepsInv DEF InitFails, Came
<1>4. CASE Arrive(j)
  <2>1. j \notin Came /\ view' = Arrival(view) /\ UNCHANGED <<capped, limited, restarts>>
    BY <1>4 DEF Arrive, Came
  <2>2. \E place \in {"patrol", "teardown", "waiting"} : Go(j, place)
    BY <1>4 DEF Arrive
  <2> QED  BY <2>1, <2>2, ArrivalKeepsInv
<1>5. CASE LeaseRefused(j) \/ StartInit(j) \/ InitDone(j)
  <2>1. PICK place \in {"gone", "init", "arriving"} : Go(j, place)
    BY <1>5 DEF LeaseRefused, StartInit, InitDone
  <2>2. j \notin Came /\ place \in Places /\ UNCHANGED <<view, capped, limited, restarts>>
    BY <1>5 DEF LeaseRefused, StartInit, InitDone, Came, Places
  <2> QED  BY <2>1, <2>2, MoveKeepsInv
<1>6. CASE ResumePatrol(j)
  BY <1>6, MoveKeepsInv DEF ResumePatrol, Places
<1>7. CASE Released(j) \/ PatrolEnds(j) \/ Aborted(j) \/ TimeOut(j) \/ MaxWait(j)
  <2>1. PICK place \in {"patrol", "teardown"} : Go(j, place)
    BY <1>7 DEF Released, PatrolEnds, Aborted, TimeOut, MaxWait
  <2>2. place \in Places /\ UNCHANGED <<view, capped, limited, restarts>>
    BY <1>7 DEF Released, PatrolEnds, Aborted, TimeOut, MaxWait, Places
  <2> QED  BY <2>1, <2>2, MoveKeepsInv
<1>8. CASE Leave(j)
  BY <1>8, MoveKeepsInv DEF Leave, Places
<1> QED  BY <1>1, <1>2, <1>3, <1>4, <1>5, <1>6, <1>7, <1>8 DEF WorkerStep

LEMMA RestartKeepsInv ==
  ASSUME BarrierInv, Restart
  PROVE  BarrierInv'
<1>1. /\ view' = NoView /\ pc' \in [Job -> Places] /\ UNCHANGED <<capped, limited>>
      /\ restarts' \in 0..MaxRestarts
  BY ConstantsAssumption DEF Restart, BarrierInv, TypeOK
<1>2. Came' \in SUBSET Job
  BY DEF Came
<1>3. view' \in Views /\ view'.arrived = 0
  BY <1>1, JobFacts DEF NoView, Views
<1> QED
  BY <1>1, <1>2, <1>3, JobFacts
     DEF BarrierInv, TypeOK, NoArrivalTwice, UnarmedIsEmpty

LEMMA NextKeepsInv ==
  ASSUME BarrierInv, [Next]_vars
  PROVE  BarrierInv'
<1>1. CASE Reclaim
  BY <1>1, OtherKeepsInv DEF Reclaim, BarrierInv, TypeOK, Came
<1>2. CASE UNCHANGED vars
  BY <1>2, OtherKeepsInv DEF vars, BarrierInv, TypeOK, Came
<1> QED  BY <1>1, <1>2, WorkerKeepsInv, RestartKeepsInv DEF Next

-----------------------------------------------------------------------------
LEMMA InvImpliesOpen == BarrierInv => OpenMeansAllCame
<1> SUFFICES ASSUME BarrierInv, Full(view)
             PROVE  Came = Job
  BY DEF OpenMeansAllCame, Came
<1>1. Came \in SUBSET Job
  BY DEF Came
<1>2. Cardinality(Came) >= Total
  BY <1>1, JobFacts DEF BarrierInv, NoArrivalTwice, TypeOK, Views, Full
<1> QED  BY <1>1, <1>2, JobFacts

\* The jobs that are counted at the barrier in a step.
Arriving == {k \in Job : pc[k] = "arriving" /\ pc'[k] # "arriving"}

\* A step that takes one job from its place.
LEMMA ArrivingOne ==
  ASSUME BarrierInv, NEW k \in Job, NEW place \in Places, Go(k, place),
         place # "arriving"
  PROVE  Arriving = IF pc[k] = "arriving" THEN {k} ELSE {}
  BY DEF Arriving, Go, BarrierInv, TypeOK

LEMMA BarrierIsKept ==
  ASSUME BarrierInv, [Next]_vars, NEW j \in Job,
         pc[j] = "waiting", pc'[j] = "waiting", Present
  PROVE  view' # NoView /\ view'.arrived >= view.arrived + Cardinality(Arriving)
<1>1. /\ view \in Views /\ view # NoView /\ view.arrived \in Nat
      /\ ~view.armed => view.arrived = 0
  BY JobFacts DEF BarrierInv, TypeOK, UnarmedIsEmpty, Present, Views
<1>2. Cardinality({}) = 0 /\ \A k : Cardinality({k}) = 1
  BY FS_EmptySet, FS_Singleton
<1>3. ASSUME view' = view \/ view' = Advanced(view) \/ view' = Ensured(view), Arriving = {}
      PROVE  view' # NoView /\ view'.arrived >= view.arrived + Cardinality(Arriving)
  BY <1>1, <1>2, <1>3 DEF Advanced, Ensured, NoView, Views
<1>4. ASSUME NEW k \in Job, k \notin Came, view' = Arrival(view),
             Arriving \in {{}, {k}},
             \E place \in {"waiting", "patrol", "teardown", "gone"} : Go(k, place)
      PROVE  view' # NoView /\ view'.arrived >= view.arrived + Cardinality(Arriving)
  <2>1. Came \in SUBSET Job /\ Cardinality(Came) + 1 <= Total /\ Cardinality(Came) \in Nat
    <3>1. /\ Cardinality(Came') = Cardinality(Came) + 1 /\ Came' \in SUBSET Job
      BY <1>4, CameGrows DEF BarrierInv
    <3>2. Came \in SUBSET Job
      BY DEF Came
    <3> QED  BY <3>1, <3>2, JobFacts
  <2>2. view.arrived < Total
    BY <1>1, <2>1, JobFacts DEF BarrierInv, NoArrivalTwice
  <2>3. view' # NoView /\ view'.arrived = view.arrived + 1
    BY <1>1, <1>4, <2>2, ArrivalFacts
  <2>4. Cardinality(Arriving) \in {0, 1}
    BY <1>2, <1>4
  <2> QED  BY <1>1, <2>3, <2>4
<1>5. ASSUME NEW k \in Job,
             Come(k) \/ WorkerStep(k) \/ Aborted(k) \/ TimeOut(k) \/ MaxWait(k)
      PROVE  view' # NoView /\ view'.arrived >= view.arrived + Cardinality(Arriving)
  <2>1. CASE FailsBeforeEngine(k) \/ InitFails(k)
    <3>1. PICK place \in {"gone", "teardown"} : Go(k, place)
      BY <2>1 DEF FailsBeforeEngine, InitFails
    <3>2. k \notin Came /\ pc[k] # "arriving" /\ view' = Arrival(view)
      BY <2>1 DEF FailsBeforeEngine, InitFails, Came
    <3>3. Arriving = {}
      BY <3>1, <3>2, ArrivingOne DEF Places
    <3> QED  BY <1>4, <3>1, <3>2, <3>3
  <2>2. CASE Arrive(k)
    <3>1. PICK place \in {"patrol", "teardown", "waiting"} : Go(k, place)
      BY <2>2 DEF Arrive
    <3>2. k \notin Came /\ view' = Arrival(view)
      BY <2>2 DEF Arrive, Came
    <3>3. Arriving \in {{}, {k}}
      BY <3>1, ArrivingOne DEF Places
    <3> QED  BY <1>4, <3>1, <3>2, <3>3
  <2>3. CASE Leave(k)
    <3>1. j \in Registered /\ j # k
      BY <2>3 DEF Registered, Leave
    <3>2. view' = view /\ Go(k, "gone") /\ pc[k] # "arriving"
      BY <2>3, <3>1 DEF Leave, LastOfHost
    <3>3. Arriving = {}
      BY <3>2, ArrivingOne DEF Places
    <3> QED  BY <1>3, <3>2, <3>3
  <2>4. CASE InitDone(k)
    <3>1. view' = view /\ Arriving = {}
      BY <2>4 DEF InitDone, Go, Arriving, BarrierInv, TypeOK
    <3> QED  BY <1>3, <3>1
  <2>5. CASE \/ Come(k) \/ LeaseRefused(k) \/ StartInit(k) \/ ResumePatrol(k)
             \/ Released(k) \/ PatrolEnds(k) \/ Aborted(k) \/ TimeOut(k) \/ MaxWait(k)
    <3>1. PICK place \in Places \ {"arriving"} : Go(k, place)
      BY <2>5 DEF Come, LeaseRefused, StartInit, ResumePatrol, Released,
         PatrolEnds, Aborted, TimeOut, MaxWait, Places
    <3>2. pc[k] # "arriving" /\ (view' = view \/ view' = Advanced(view) \/ view' = Ensured(view))
      BY <2>5 DEF Come, LeaseRefused, StartInit, ResumePatrol, Released,
         PatrolEnds, Aborted, TimeOut, MaxWait
    <3>3. Arriving = {}
      BY <3>1, <3>2, ArrivingOne
    <3> QED  BY <1>3, <3>2, <3>3
  <2> QED  BY <1>5, <2>1, <2>2, <2>3, <2>4, <2>5 DEF WorkerStep
<1>6. ASSUME Reclaim PROVE FALSE
  BY <1>6 DEF Reclaim, Registered
<1>7. ASSUME Restart PROVE FALSE
  BY <1>7 DEF Restart, AfterRestart
<1>8. CASE UNCHANGED vars
  <2>1. view' = view /\ Arriving = {}
    BY <1>8 DEF vars, Arriving
  <2> QED  BY <1>3, <2>1
<1> QED  BY <1>5, <1>6, <1>7, <1>8 DEF Next

-----------------------------------------------------------------------------
\* The inductive invariant of the coordinator's count.
THEOREM BarrierCorrect == Spec => []BarrierInv
<1>1. BarrierInv /\ [Next]_vars => BarrierInv'
  BY NextKeepsInv
<1> QED  BY <1>1, InitInv, PTL DEF Spec

\* Every count is within the jobs of the wave.
THEOREM TypeCorrect == Spec => []TypeOK
<1>1. BarrierInv => TypeOK
  BY DEF BarrierInv
<1> QED  BY <1>1, BarrierCorrect, PTL

\* arrive_at_barrier opens the barrier when every job of the host has done its
\* init, or will not patrol any more.
THEOREM NobodyLeftBehind == Spec => []OpenMeansAllCame
<1> QED  BY InvImpliesOpen, BarrierCorrect, PTL

\* Neither deregister_job nor another arming takes the barrier from a waiter.
THEOREM BarrierStays == Spec => WaiterKeepsItsBarrier
<1>1. BarrierInv /\ [Next]_vars =>
        [\A j \in Job :
           pc[j] = "waiting" /\ pc'[j] = "waiting" /\ Present =>
             /\ view' # NoView
             /\ view'.arrived >=
                  view.arrived + Cardinality({k \in Job : pc[k] = "arriving" /\ pc'[k] # "arriving"})]_vars
  BY BarrierIsKept DEF Arriving
<1> QED  BY <1>1, BarrierCorrect, PTL DEF Spec, WaiterKeepsItsBarrier
=============================================================================
