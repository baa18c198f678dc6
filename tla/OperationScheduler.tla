------------------------- MODULE OperationScheduler -------------------------
(***************************************************************************)
(* The permits of an Agent host: before a step of a job runs a script on a *)
(* device, its worker thread takes a permit of the host-wide scheduler.    *)
(* A critical section under the scheduler's lock is one action, so that a  *)
(* request has three: it enters the queue, it notices that its wait timed  *)
(* out, and it resolves what happened to it while it waited.  In between   *)
(* come releases, cancellations, changes of the cap and the shutdown.      *)
(***************************************************************************)
EXTENDS Naturals, Sequences, FiniteSets

CONSTANTS
  Worker,      \* job worker threads of the Agent
  Device,
  devOf,       \* the device a worker's job runs on
  Caps,        \* the values of STP_MAX_CONCURRENT_OPERATIONS
  MaxAborts    \* bound: aborts under way at the same time

ASSUME ConstantsAssumption ==
  /\ devOf \in [Worker -> Device]
  /\ Caps \subseteq Nat \ {0} /\ 1 \in Caps
  /\ IsFiniteSet(Device)
  /\ MaxAborts \in Nat

VARIABLES
  cap,          \* _max_concurrent
  held,         \* _held: slots accounted for
  heldDevices,  \* _held_devices
  handoff,      \* _pending_handoff: promoted, permit not yet returned
  cancelled,    \* _cancelled: devices whose waiter is to be told
  waiters,      \* _waiters: workers in line (at most one per device)
  down,         \* _shutdown
  pc,           \* where each worker is
  signaled,     \* workers whose current wait event is set
  stage,        \* of a worker's job: normal, aborted (or its lease lost), or
                \* in its teardown
  cancelling    \* workers for which an abort has yet to call cancel_device

schedVars == <<cap, held, heldDevices, handoff, cancelled, waiters, down>>
jobVars == <<stage, cancelling>>
vars == <<schedVars, pc, signaled, jobVars>>

\* idle: between steps; wanting: in the retry loop, about to call acquire;
\* waiting: in event.wait; late: the wait returned unsignaled; woken: about
\* to resolve; holding: runs its step with a permit.
Places == {"idle", "wanting", "waiting", "late", "woken", "holding"}
Stages == {"normal", "aborted", "teardown"}

Init ==
  /\ cap \in Caps
  /\ held = 0
  /\ heldDevices = {} /\ handoff = {} /\ cancelled = {}
  /\ waiters = <<>>
  /\ down = FALSE
  /\ pc = [w \in Worker |-> "idle"]
  /\ signaled = {}
  /\ stage = [w \in Worker |-> "normal"]
  /\ cancelling = {}

At(w, place) == pc[w] = place
Goto(w, place) == pc' = [pc EXCEPT ![w] = place]

InLine(d) == \E i \in 1..Len(waiters) : devOf[waiters[i]] = d

InLineNow == {waiters[i] : i \in 1..Len(waiters)}

\* The line without the waiter of device d (OrderedDict.pop).
Without(d) ==
  LET k == CHOOSE i \in 1..Len(waiters) : devOf[waiters[i]] = d
  IN IF InLine(d)
     THEN [i \in 1..(Len(waiters) - 1) |->
             IF i < k THEN waiters[i] ELSE waiters[i + 1]]
     ELSE waiters

-----------------------------------------------------------------------------
Smaller(m, n) == IF m <= n THEN m ELSE n

\* How many waiters _wake_one_locked promotes when h slots of c are taken.
\* Variant: one waiter is promoted, whatever room there is.
PromotableOne(h, c) == IF down \/ h >= c THEN 0 ELSE Smaller(Len(waiters), 1)
Promotable(h, c) ==
  IF down \/ h >= c THEN 0 ELSE Smaller(Len(waiters), c - h)

\* The slots and the line after _wake_one_locked, if before it h slots are
\* taken, by the devices hd, with those of ho on their way.
Promote(h, hd, ho, c) ==
  LET n == Promotable(h, c)
      chosen == {waiters[i] : i \in 1..n}
      devices == {devOf[w] : w \in chosen}
  IN /\ waiters' = SubSeq(waiters, n + 1, Len(waiters))
     /\ held' = h + n
     /\ heldDevices' = hd \cup devices
     /\ handoff' = ho \cup devices
     /\ signaled' = signaled \cup chosen

LessOne(h) == IF h = 0 THEN 0 ELSE h - 1

-----------------------------------------------------------------------------
\* The step of a pipeline around its permit.

Enter(w, phase) == stage' = [stage EXCEPT ![w] = phase]

\* A step starts: an ordinary one, or one of the teardown.
BeginStep(w) ==
  /\ At(w, "idle")
  /\ \/ stage[w] = "normal" /\ UNCHANGED stage
     \/ Enter(w, "teardown")
  /\ Goto(w, "wanting")
  /\ UNCHANGED <<schedVars, signaled, cancelling>>

\* The job is over and the device's next one takes its place.
NextJob(w) ==
  /\ At(w, "idle") /\ stage[w] # "normal"
  /\ Enter(w, "normal")
  /\ UNCHANGED <<schedVars, pc, signaled, cancelling>>

\* The wall clock of a teardown step runs out before its permit comes.
GiveUp(w) ==
  /\ At(w, "wanting") /\ stage[w] = "teardown"
  /\ Goto(w, "idle")
  /\ UNCHANGED <<schedVars, signaled, jobVars>>

\* After a timeout, and after a cancellation: try again or leave the step.
AfterTimeout(w) ==
  IF stage[w] = "aborted" THEN "idle" ELSE "wanting"
AfterCancel(w) == IF stage[w] = "teardown" THEN "wanting" ELSE "idle"

\* _canceled, which the teardown of the job does not look at.
MarkCanceled(w) ==
  IF stage[w] = "teardown" THEN UNCHANGED stage ELSE Enter(w, "aborted")

-----------------------------------------------------------------------------
\* acquire

\* Variant: acquire does not look at the shutdown.
RefusedIfHeld(w) == InLine(devOf[w]) \/ devOf[w] \in heldDevices

Refused(w) == down \/ InLine(devOf[w]) \/ devOf[w] \in heldDevices

\* Variant: an off-by-one at the cap.
SlotFreeAtCap(w) == held <= cap /\ waiters = <<>>
SlotFree(w) == held < cap /\ waiters = <<>>

Refuse(w) ==
  /\ At(w, "wanting") /\ Refused(w)
  /\ Goto(w, "idle")
  /\ IF down THEN MarkCanceled(w) ELSE UNCHANGED stage
  /\ UNCHANGED <<schedVars, signaled, cancelling>>

TakeSlot(w) ==
  /\ At(w, "wanting") /\ ~Refused(w) /\ SlotFree(w)
  /\ held' = held + 1
  /\ heldDevices' = heldDevices \cup {devOf[w]}
  /\ Goto(w, "holding")
  /\ UNCHANGED <<cap, handoff, cancelled, waiters, down, signaled, jobVars>>

\* Variant: the newest waiter goes first.
EnlistFirst(w) == <<w>> \o waiters
Enlist(w) == Append(waiters, w)

Enqueue(w) ==
  /\ At(w, "wanting") /\ ~Refused(w) /\ ~SlotFree(w)
  /\ waiters' = Enlist(w)
  /\ Goto(w, "waiting")
  /\ UNCHANGED <<cap, held, heldDevices, handoff, cancelled, down, signaled>>
  /\ UNCHANGED jobVars

\* event.wait returns: set, or five seconds later and still not set.
Wake(w) ==
  /\ At(w, "waiting") /\ w \in signaled
  /\ Goto(w, "woken")
  /\ signaled' = signaled \ {w}
  /\ UNCHANGED <<schedVars, jobVars>>

TimeOut(w) ==
  /\ At(w, "waiting") /\ w \notin signaled
  /\ Goto(w, "late")
  /\ UNCHANGED <<schedVars, signaled, jobVars>>

\* The wait timed out, and something else may have come first.
\* Variant: a cancel that came first goes unnoticed.
OvertakenIfPromoted(w) == devOf[w] \in handoff \/ down

Overtaken(w) == devOf[w] \in handoff \cup cancelled \/ down

CheckLate(w) ==
  /\ At(w, "late")
  /\ IF Overtaken(w)
     THEN Goto(w, "woken") /\ UNCHANGED waiters
     ELSE /\ Goto(w, AfterTimeout(w))
          /\ waiters' = Without(devOf[w])
  /\ signaled' = signaled \ {w}
  /\ UNCHANGED <<cap, held, heldDevices, handoff, cancelled, down, jobVars>>

\* _release_pending_handoff_locked
\* Variant: a slot is given back that was never taken.
GivenBackAnyway(d) == LessOne(held)
GivenBack(d) == IF d \in handoff THEN LessOne(held) ELSE held

\* Woken by the shutdown.
ResolveShutdown(w) ==
  /\ At(w, "woken") /\ down
  /\ LET d == devOf[w] IN
       /\ held' = GivenBack(d)
       /\ heldDevices' = IF d \in handoff THEN heldDevices \ {d} ELSE heldDevices
       /\ handoff' = handoff \ {d}
  /\ Goto(w, "idle")
  /\ MarkCanceled(w)
  /\ UNCHANGED <<cap, cancelled, waiters, down, signaled, cancelling>>

\* Woken by a cancellation, in line or already promoted.
ResolveCancel(w) ==
  /\ At(w, "woken") /\ ~down /\ devOf[w] \in cancelled
  /\ cancelled' = cancelled \ {devOf[w]}
  /\ IF devOf[w] \in handoff
     THEN Promote(GivenBack(devOf[w]), heldDevices \ {devOf[w]},
                  handoff \ {devOf[w]}, cap)
     ELSE UNCHANGED <<held, heldDevices, handoff, waiters, signaled>>
  /\ Goto(w, AfterCancel(w))
  /\ MarkCanceled(w)
  /\ UNCHANGED <<cap, down, cancelling>>

Completes(w) == ~down /\ devOf[w] \notin cancelled

\* Woken by a promotion: the permit is handed over.
ResolveGrant(w) ==
  /\ At(w, "woken") /\ Completes(w)
  /\ handoff' = handoff \ {devOf[w]}
  /\ Goto(w, "holding")
  /\ UNCHANGED <<cap, held, heldDevices, cancelled, waiters, down, signaled>>
  /\ UNCHANGED jobVars

-----------------------------------------------------------------------------
\* The step ends, successful or not, and gives its permit back.
Release(w) ==
  /\ At(w, "holding")
  /\ Promote(LessOne(held), heldDevices \ {devOf[w]}, handoff, cap)
  /\ Goto(w, "idle")
  /\ UNCHANGED <<cap, cancelled, down, jobVars>>

\* set_max_concurrent
\* Variant: a cap of zero is taken as it is.
AsGiven(n) == n
AtLeastOne(n) == IF n = 0 THEN 1 ELSE n

SetCap(n) ==
  /\ cap' = AtLeastOne(n)
  /\ Promote(held, heldDevices, handoff, AtLeastOne(n))
  /\ UNCHANGED <<cancelled, down, pc, jobVars>>

\* The abort command, and a lost lease: first the flag ...
RequestAbort(w) ==
  /\ w \notin cancelling /\ Cardinality(cancelling) < MaxAborts
  /\ cancelling' = cancelling \cup {w}
  /\ \/ stage[w] = "normal" /\ Enter(w, "aborted")
     \/ stage[w] # "normal" /\ UNCHANGED stage
  /\ UNCHANGED <<schedVars, pc, signaled>>

CancelHits(d) == InLine(d) \/ d \in handoff

\* ... then cancel_device.  cancel_waiting_job has seen the job published as
\* WAITING_EXECUTION_SLOT before, without the scheduler's lock: by now it may
\* hold its permit, be in another step, or be over.  The event is set after
\* the lock is given up; a wait that times out first resolves the same way.
CancelDevice(w) ==
  /\ w \in cancelling
  /\ cancelling' = cancelling \ {w}
  /\ LET d == devOf[w] IN
        /\ waiters' = Without(d)
        /\ signaled' = signaled \cup {v \in InLineNow : devOf[v] = d}
        /\ cancelled' = IF CancelHits(d) THEN cancelled \cup {d} ELSE cancelled
  /\ UNCHANGED <<cap, held, heldDevices, handoff, down, pc, stage>>

\* SIGTERM, or the control plane fences a stale Agent instance.
Shutdown ==
  /\ ~down
  /\ down' = TRUE
  /\ signaled' = signaled \cup InLineNow
  /\ waiters' = <<>>
  /\ UNCHANGED <<cap, held, heldDevices, handoff, cancelled, pc, jobVars>>

-----------------------------------------------------------------------------
Acquire(w) == Refuse(w) \/ TakeSlot(w) \/ Enqueue(w)

Resolve(w) == ResolveShutdown(w) \/ ResolveCancel(w) \/ ResolveGrant(w)

Next ==
  \/ \E w \in Worker :
       \/ BeginStep(w) \/ NextJob(w) \/ GiveUp(w)
       \/ Acquire(w) \/ Wake(w) \/ TimeOut(w) \/ CheckLate(w) \/ Resolve(w)
       \/ Release(w)
       \/ RequestAbort(w) \/ CancelDevice(w)
  \/ \E n \in Caps \cup {0} : SetCap(n)
  \/ Shutdown

Spec == Init /\ [][Next]_vars

\* The threads run on, and a step ends (it has a wall-clock limit).  That a
\* wait times out is NOT assumed: a waiter is woken, it need not save itself.
Fairness ==
  \A w \in Worker :
    /\ WF_vars(Acquire(w)) /\ WF_vars(Wake(w)) /\ WF_vars(CheckLate(w))
    /\ WF_vars(Resolve(w)) /\ WF_vars(Release(w))

FairSpec == Spec /\ Fairness

\* The same with waits that do time out after five seconds, and a mutex that
\* lets in whoever asks for a free slot over and over.
TimedSpec ==
  FairSpec /\ \A w \in Worker : WF_vars(TimeOut(w)) /\ SF_vars(TakeSlot(w))

-----------------------------------------------------------------------------
Holders == {w \in Worker : At(w, "holding")}

TypeOK ==
  /\ cap \in Caps /\ held \in Nat
  /\ heldDevices \subseteq Device
  /\ handoff \subseteq Device /\ cancelled \subseteq Device
  /\ waiters \in Seq(Worker)
  /\ down \in BOOLEAN
  /\ pc \in [Worker -> Places]
  /\ signaled \subseteq Worker /\ cancelling \subseteq Worker
  /\ stage \in [Worker -> Stages]

\* Each device has one worker.  The claim loop sees to it between jobs: a
\* device keeps its slot in active_device_ids until the worker is gone.  A
\* RESUME of the recovery sync may start a second worker of the same job
\* while the old one winds down, and then it does not hold.
OneWorkerPerDevice == \A v, w \in Worker : devOf[v] = devOf[w] => v = w

\* No request of a device enters beside one that was cancelled and has yet to
\* find out: acquire looks at the line and at _held_devices, not at
\* _cancelled.
CancelsRead ==
  \A w \in Worker : TakeSlot(w) \/ Enqueue(w) => devOf[w] \notin cancelled
NoRequestBesideCancel == [][CancelsRead]_vars

\* A slot is accounted for exactly while a worker runs with a permit or one
\* is on its way to it, whatever timeouts, cancels and shutdown do to the
\* request in between (_held, _held_devices and _pending_handoff agree).
PermitAccounting ==
  /\ held = Cardinality(heldDevices)
  /\ heldDevices = {devOf[w] : w \in Holders} \cup handoff
  /\ \A w \in Holders : devOf[w] \notin handoff
  /\ \A v, w \in Holders : devOf[v] = devOf[w] => v = w

\* Nobody waits in line beside a free slot: every release, cancellation and
\* raise of the cap passes its slots on (_wake_one_locked).
NoIdlePermit == waiters # <<>> => held >= cap

\* A device has one place in line, even if it has several workers (_waiters
\* is keyed by device: per-device fairness, operation_scheduler.py:113).
OneWaiterPerDevice ==
  \A i, j \in 1..Len(waiters) : devOf[waiters[i]] = devOf[waiters[j]] => i = j

Ahead(v, w) ==
  \E i, j \in 1..Len(waiters) : i < j /\ waiters[i] = v /\ waiters[j] = w

\* First come, first served: whoever stays in line keeps its place before
\* those behind it, nobody joins before it, and a slot goes to a device
\* behind it, or to one that is not in line, only when it has one too.
InOrder ==
  \A v, w \in Worker :
    LET served == devOf[w] \in heldDevices' \ heldDevices IN
    /\ Ahead(v, w) /\ {v, w} \subseteq InLineNow' => Ahead(v, w)'
    /\ v \in InLineNow \cap InLineNow' /\ w \in InLineNow' \ InLineNow
         => Ahead(v, w)'
    /\ Ahead(v, w) /\ served => devOf[v] \in heldDevices'
    /\ v \in InLineNow /\ served => InLine(devOf[w])
NobodyOvertaken == [][InOrder]_vars

\* A mark left for a waiter (_pending_handoff, _cancelled) is read by the
\* request it was left for and cannot hit a later one of the device: that
\* request has yet to resolve, and will take the mark into account.
Reads(w) == pc[w] \in {"late", "woken"} \/ (At(w, "waiting") /\ w \in signaled)
EveryMarkHasReader ==
  /\ \A d \in handoff : \E w \in Worker : devOf[w] = d /\ Reads(w)
  /\ ~down => \A d \in cancelled : \E w \in Worker : devOf[w] = d /\ Reads(w)

\* The scheduler keeps the promise of a pool of permits: nobody is let in
\* past the cap, and shrinking the cap throws nobody out.
Pool == INSTANCE PermitPool WITH inside <- heldDevices, limit <- cap
KeepsPermitPool == Pool!Spec

\* A waiter is woken, by a permit, a cancel or the shutdown, even if its wait
\* never timed out: no wake-up is lost, and the line moves (acquire).
WaiterIsWoken == \A w \in Worker : At(w, "waiting") ~> ~At(w, "waiting")

\* After the shutdown all permits come back and nobody waits ever again:
\* cleanup paths always drain (operation_scheduler.py:15).
ShutdownDrains ==
  down ~> [](held = 0 /\ \A w \in Worker : pc[w] \in {"idle", "wanting"})

\* A worker that wants a permit gets one, or its step is called off
\* ("prevents one device from starving others", operation_scheduler.py:9).
NoStarvation ==
  \A w \in Worker : At(w, "wanting") ~> pc[w] \in {"holding", "idle"}
=============================================================================
