--------------------------- MODULE TerminalOutbox ---------------------------
(***************************************************************************)
(* How the result of a job gets from the Agent that ran it to the control  *)
(* plane.  A worker thread stores its terminal fact in SQLite and posts    *)
(* it; the drainer thread posts again what nobody confirmed; and after a   *)
(* restart, a reconnect or a minute, a recovery sync compares the job the  *)
(* Agent remembers with the one the control plane knows, and the control   *)
(* plane may resume it under a new fencing token.  Any of these threads is *)
(* overtaken by the others, the Agent crashes, and a post whose answer is  *)
(* lost may still be handled, late.                                        *)
(* One job is enough: no step but the page size of the outbox relates two. *)
(***************************************************************************)
EXTENDS Naturals, FiniteSets

CONSTANTS
  Fact,         \* what an execution can report
  NoFact,       \* terminal_payload_digest IS NULL
  MaxTries,     \* _MAX_TERMINAL_ATTEMPTS
  MaxRestarts,  \* bound: crashes of the Agent
  MaxInFlight,  \* bound: posts under way without a sender
  MaxWorkers    \* bound: no job is resumed on top of so many threads

ASSUME ConstantsAssumption ==
  /\ NoFact \notin Fact
  /\ MaxTries \in Nat \ {0}
  /\ MaxRestarts \in Nat /\ MaxInFlight \in Nat /\ MaxWorkers \in Nat

VARIABLES
  st,       \* the job on the control plane; see Statuses
  kept,     \* the fact it has for the job
  tok,      \* fencing token of the job's lease
  holder,   \* the lease's agent_instance_id
  reg,      \* SQLite: fencing token in active_job_registry, 0 for no record
  row,      \* SQLite: the job's record in job_terminal_outbox
  inst,     \* the Agent's instance: how often it has restarted
  workers,  \* threads that run the job, or wait in the executor's queue
  cur,      \* active_job_tokens: the worker that owns the job
  marked,   \* running_worker_tokens: the last worker that started
  sync,     \* how far the recovery sync is
  wire      \* posts whose sender has given up on the answer

planeVars == <<st, kept, tok, holder>>
diskVars == <<reg, row>>
vars == <<planeVars, diskVars, inst, workers, cur, marked, sync, wire>>

\* EXPIRED is RUNNING with a lease past its expires_at, OVERDUE is UNKNOWN
\* past the grace period, ENDED is any terminal status.
Statuses == {"RUNNING", "EXPIRED", "UNKNOWN", "OVERDUE", "ENDED"}

Token == 1..(MaxRestarts + 1)

\* A local worker token names the lease's token and whether it was resumed.
Id == [tok : Token, resumed : BOOLEAN]
NoWorker == [tok |-> 0, resumed |-> FALSE]
IdOf(w) == [tok |-> w.tok, resumed |-> w.resumed]

\* A worker runs, finds out whether it still owns the job, stores its fact,
\* posts it with a stored copy or without one, and leaves.
Worker == [tok : Token, resumed : BOOLEAN, fact : Fact \cup {NoFact},
           at : {"queued", "run", "check", "store", "send", "bare", "exit"}]
Starting(t, r) == [tok |-> t, resumed |-> r, fact |-> NoFact, at |-> "queued"]
Step(w, place) == workers' = (workers \ {w}) \cup {[w EXCEPT !.at = place]}

Post == [tok : Token, fact : Fact]
PostOf(x) == [tok |-> x.tok, fact |-> x.fact]

NoRow == [is |-> "none", tok |-> 0, fact |-> NoFact, tries |-> 0]
Pending == row.is = "pending"

Idle == [at |-> "idle"]
Orders == {"nothing", "NOOP", "RESUME", "CLEANUP", "ABORT_LOCAL"}
Uploads == {"nothing", "NOOP", "UPLOAD_TERMINAL"}
Sync ==
  {Idle}
  \cup [at : {"answered"}, order : Orders, tok : {0} \cup Token, upload : Uploads]
  \cup [at : {"drained"}, order : Orders, tok : {0} \cup Token,
        upload : Uploads, first : BOOLEAN]

Init ==
  /\ st = "RUNNING" /\ kept = NoFact /\ tok = 1 /\ holder = 0
  /\ reg = 1 /\ row = NoRow
  /\ inst = 0
  /\ workers = {Starting(1, FALSE)}
  /\ cur = [tok |-> 1, resumed |-> FALSE] /\ marked = NoWorker
  /\ sync = Idle /\ wire = {}

-----------------------------------------------------------------------------
\* The control plane: POST /complete.

Accepts(m) == st \in {"RUNNING", "UNKNOWN"} /\ m.tok = tok

\* 200, or a 409: STALE_COMPLETION_TOKEN, TERMINAL_PAYLOAD_CONFLICT, or
\* INVALID_OR_EXPIRED_FENCING_TOKEN with a status that is not terminal.
Reply(m) ==
  CASE st = "ENDED" /\ m.tok # tok                      -> "stale"
    [] st = "ENDED" /\ m.tok = tok /\ kept = m.fact     -> "ok"
    [] st = "ENDED" /\ m.tok = tok /\ kept # m.fact     -> "conflict"
    [] OTHER -> IF Accepts(m) THEN "ok" ELSE "refused"

Handle(m) ==
  /\ IF Accepts(m) THEN st' = "ENDED" /\ kept' = m.fact
                   ELSE UNCHANGED <<st, kept>>
  /\ UNCHANGED <<tok, holder>>

\* A post that its sender counts as failed: it may be on its way.
Unanswered(m) ==
  /\ wire' \in {x \in {wire, wire \cup {m}} : Cardinality(x) <= MaxInFlight}
  /\ UNCHANGED planeVars

Arrive(m) ==
  /\ m \in wire
  /\ wire' = wire \ {m}
  /\ Handle(m)
  /\ UNCHANGED <<diskVars, inst, workers, cur, marked, sync>>

\* The lease expires unless it is renewed, the reconciler and the watchdog
\* move the job on, and the job can be ended otherwise (see JobLease).
Decline ==
  /\ \/ st = "RUNNING" /\ st' = "EXPIRED"
     \/ st = "EXPIRED" /\ st' = "UNKNOWN"
     \/ st = "UNKNOWN" /\ st' = "OVERDUE"
     \/ st # "ENDED" /\ st' = "ENDED"
  /\ UNCHANGED <<kept, tok, holder, diskVars, inst, workers, cur, marked,
                 sync, wire>>

-----------------------------------------------------------------------------
\* The worker of the job.

\* run_task_wrapper: a duplicate of the worker that started last goes away.
WorkerStart(w) ==
  /\ w \in workers /\ w.at = "queued"
  /\ IF marked = IdOf(w)
     THEN /\ workers' = workers \ {w}
          /\ UNCHANGED <<cur, marked, reg>>
     ELSE /\ Step(w, "run")
          /\ cur' = IdOf(w) /\ marked' = IdOf(w)
          /\ reg' = w.tok
  /\ UNCHANGED <<planeVars, row, inst, sync, wire>>

\* The execution ends, by itself or because it is aborted.
WorkerEnds(w) ==
  /\ w \in workers /\ w.at = "run"
  /\ Step(w, "check")
  /\ UNCHANGED <<planeVars, diskVars, inst, cur, marked, sync, wire>>

\* is_current_worker, which is read before the fact is stored.
WorkerCheck(w) ==
  /\ w \in workers /\ w.at = "check"
  /\ Step(w, IF cur = IdOf(w) THEN "store" ELSE "exit")
  /\ UNCHANGED <<planeVars, diskVars, inst, cur, marked, sync, wire>>

\* enqueue_terminal keeps the first fact, and fails on another one; what
\* the fact is shows only now.
WorkerStore(w) ==
  /\ w \in workers /\ w.at = "store"
  /\ \E f \in Fact :
       LET new == [w EXCEPT !.fact = f] IN
       \/ /\ row = NoRow
          /\ row' = [is |-> "pending", tok |-> w.tok, fact |-> f, tries |-> 0]
          /\ workers' = (workers \ {w}) \cup {[new EXCEPT !.at = "send"]}
       \/ /\ row # NoRow /\ PostOf(row) = PostOf(new)
          /\ workers' = (workers \ {w}) \cup {[new EXCEPT !.at = "send"]}
          /\ UNCHANGED row
       \/ /\ workers' = (workers \ {w}) \cup {[new EXCEPT !.at = "bare"]}
          /\ UNCHANGED row   \* another fact is there, or SQLite fails
  /\ UNCHANGED <<planeVars, reg, inst, cur, marked, sync, wire>>

\* complete_job posts, and takes anything but a 2xx as a failure.
WorkerSend(w) ==
  /\ w \in workers /\ w.at \in {"send", "bare"}
  /\ \/ /\ Handle(PostOf(w))
        /\ row' = IF w.at = "send" /\ Reply(PostOf(w)) = "ok"
                  THEN [row EXCEPT !.is = "acked"] ELSE row
        /\ UNCHANGED wire
     \/ Unanswered(PostOf(w)) /\ UNCHANGED row
  /\ workers' = (workers \ {w}) \cup {[w EXCEPT !.fact = NoFact, !.at = "exit"]}
  /\ UNCHANGED <<reg, inst, cur, marked, sync>>

\* release and _cleanup_after_job_exit.
WorkerExit(w) ==
  /\ w \in workers /\ w.at = "exit"
  /\ workers' = workers \ {w}
  /\ marked' = IF marked = IdOf(w) THEN NoWorker ELSE marked
  /\ IF cur = IdOf(w)
     THEN /\ cur' = NoWorker
          /\ reg' = IF row # NoRow THEN 0 ELSE reg
     ELSE UNCHANGED <<cur, reg>>
  /\ UNCHANGED <<planeVars, row, inst, sync, wire>>

\* handle_lease_lost: a renewal is refused.  The record in SQLite stays.
LeaseLost ==
  /\ cur # NoWorker /\ reg # 0
  /\ ~ (st = "RUNNING" /\ reg = tok)
  /\ cur' = NoWorker
  /\ UNCHANGED <<planeVars, diskVars, inst, workers, marked, sync, wire>>

-----------------------------------------------------------------------------
\* The drainer.

OneMoreTry == IF row.tries < MaxTries THEN row.tries + 1 ELSE MaxTries

\* Variant: a refusal is not counted, so that no letter is ever dead.
RetainedForGood == row

\* _retain_or_dead_letter; the failures of the network have counted too.
Retained ==
  [row EXCEPT !.tries = OneMoreTry,
              !.is = IF OneMoreTry >= MaxTries THEN "dead" ELSE "pending"]

\* Variant: a 409 is a confirmation, whatever the job's status.
SettledByAnyConflict(answer) == [row EXCEPT !.is = "acked"]

\* What the drainer makes of the answer to a post of the row.
Settled(answer) ==
  IF answer \in {"ok", "stale"} THEN [row EXCEPT !.is = "acked"] ELSE Retained

DrainAnswered ==
  /\ Pending
  /\ Handle(PostOf(row))
  /\ row' = Settled(Reply(PostOf(row)))
  /\ UNCHANGED wire

DrainFails ==
  /\ Pending
  /\ Unanswered(PostOf(row))
  /\ row' = [row EXCEPT !.tries = OneMoreTry]

DrainerAnswered ==
  /\ DrainAnswered
  /\ UNCHANGED <<reg, inst, workers, cur, marked, sync>>

DrainerFails ==
  /\ DrainFails
  /\ UNCHANGED <<reg, inst, workers, cur, marked, sync>>

-----------------------------------------------------------------------------
\* The recovery sync.

\* sync_agent_recovery.  The outbox action is derived before the job's.
UploadAction ==
  CASE ~ Pending      -> "nothing"
    [] st = "ENDED"   -> "NOOP"
    [] OTHER          -> "UPLOAD_TERMINAL"

SyncAnswer(order, t) ==
  sync' = [at |-> "answered", order |-> order, tok |-> t, upload |-> UploadAction]

\* Variant: the instance that has the lease is given a new token as well.
TakeOverAgain ==
  /\ tok' = tok + 1
  /\ holder' = inst

\* rotate_recovery_lease_token, unless this instance has the lease already.
TakeOver ==
  /\ tok' = IF holder = inst THEN tok ELSE tok + 1
  /\ holder' = inst

Owned == reg = tok /\ st # "ENDED"

OutboxOnly ==
  /\ reg = 0 /\ Pending
  /\ SyncAnswer("nothing", 0)
  /\ UNCHANGED planeVars

Disowned ==
  /\ reg # 0 /\ ~ Owned
  /\ SyncAnswer("ABORT_LOCAL", 0)
  /\ UNCHANGED planeVars

\* The boot id has changed: the whole host has restarted, not the Agent alone.
HostRebooted ==
  /\ Owned /\ holder # inst
  /\ st' = "ENDED"
  /\ SyncAnswer("CLEANUP", 0)
  /\ UNCHANGED <<kept, tok, holder>>

AbortRequested ==
  /\ Owned
  /\ TakeOver
  /\ SyncAnswer("ABORT_LOCAL", 0)
  /\ UNCHANGED <<st, kept>>

Resurrected ==
  /\ Owned /\ st = "UNKNOWN" /\ Cardinality(workers) < MaxWorkers
  /\ TakeOver
  /\ st' = "RUNNING"
  /\ SyncAnswer("RESUME", tok')
  /\ UNCHANGED kept

\* The lease is released now, or was before.
GraceExpired ==
  /\ Owned /\ st = "OVERDUE"
  /\ \E order \in {"CLEANUP", "ABORT_LOCAL"} : SyncAnswer(order, 0)
  /\ UNCHANGED planeVars

AlreadyOwned ==
  /\ Owned /\ st \in {"RUNNING", "EXPIRED"} /\ holder = inst
  /\ SyncAnswer("NOOP", 0)
  /\ UNCHANGED planeVars

SameBootTakeover ==
  /\ Owned /\ st \in {"RUNNING", "EXPIRED"} /\ holder # inst
  /\ TakeOver
  /\ SyncAnswer("RESUME", tok')
  /\ UNCHANGED <<st, kept>>

\* run_recovery_sync_if_needed sends what SQLite holds, and is answered.
SyncAsk ==
  /\ sync = Idle
  /\ \/ OutboxOnly \/ Disowned \/ HostRebooted \/ AbortRequested
     \/ Resurrected \/ GraceExpired \/ AlreadyOwned \/ SameBootTakeover
  /\ UNCHANGED <<diskVars, inst, workers, cur, marked, wire>>

\* The answer is lost; what the control plane did stays done.
SyncFails ==
  /\ sync.at = "answered"
  /\ sync' = Idle
  /\ UNCHANGED <<planeVars, diskVars, inst, workers, cur, marked, wire>>

\* Variant: the orders are carried out as they come.
NothingFirst == FALSE

\* terminal_priority_ids of execute_recovery_actions_impl.
TerminalFirst == sync.upload = "UPLOAD_TERMINAL" \/ Pending

\* drain_sync comes first, if there is anything to deliver; it skips a row
\* that a failed try has deferred.
SyncDrain ==
  /\ sync.at = "answered"
  /\ sync' = [at |-> "drained", order |-> sync.order, tok |-> sync.tok,
              upload |-> sync.upload, first |-> TerminalFirst]
  /\ \/ DrainAnswered
     \/ DrainFails
     \/ /\ Pending => row.tries > 0
        /\ UNCHANGED <<planeVars, row, wire>>
  /\ UNCHANGED <<reg, inst, workers, cur, marked>>

\* The record of a job whose fact is delivered, or dead, is not needed.
Delivered == sync.upload = "NOOP" \/ (sync.first /\ ~ Pending)

SyncAct ==
  /\ sync.at = "drained"
  /\ sync' = Idle
  /\ LET left == IF Delivered THEN 0 ELSE reg IN
     \/ /\ sync.order \in {"nothing", "NOOP"} \/ (sync.order = "RESUME" /\ sync.first)
        /\ reg' = left
        /\ UNCHANGED <<workers, cur>>
     \/ /\ sync.order = "RESUME" /\ ~ sync.first
        /\ reg' = sync.tok
        /\ cur' = [tok |-> sync.tok, resumed |-> TRUE]
        /\ workers' = workers \cup {Starting(sync.tok, TRUE)}
     \/ /\ sync.order = "CLEANUP"
        /\ reg' = 0
        /\ UNCHANGED <<workers, cur>>
     \/ /\ sync.order = "ABORT_LOCAL"
        \* Left to a worker whose engine is attached.
        /\ \/ reg' = 0
           \/ (\E w \in workers : w.at = "run") /\ reg' = left
        /\ UNCHANGED <<workers, cur>>
  /\ UNCHANGED <<planeVars, row, inst, marked, wire>>

-----------------------------------------------------------------------------
\* The process dies and is started again: SQLite is all that is left.
Restart ==
  /\ inst < MaxRestarts
  /\ inst' = inst + 1
  /\ workers' = {} /\ cur' = NoWorker /\ marked' = NoWorker /\ sync' = Idle
  /\ UNCHANGED <<planeVars, diskVars, wire>>

WorkerStep(w) ==
  \/ WorkerStart(w) \/ WorkerEnds(w) \/ WorkerCheck(w)
  \/ WorkerStore(w) \/ WorkerSend(w) \/ WorkerExit(w)

Next ==
  \/ \E m \in wire : Arrive(m)
  \/ Decline
  \/ \E w \in workers : WorkerStep(w)
  \/ LeaseLost
  \/ DrainerAnswered \/ DrainerFails
  \/ SyncAsk \/ SyncFails \/ SyncDrain \/ SyncAct
  \/ Restart

Spec == Init /\ [][Next]_vars

\* The drainer's thread passes every 15 s, and what it posts is answered some
\* time: the network is not down for ever.
FairSpec == Spec /\ WF_vars(DrainerAnswered)

-----------------------------------------------------------------------------
Row == [is : {"pending", "acked", "dead"}, tok : Token, fact : Fact,
        tries : 0..MaxTries]

\* Every variable keeps to its type; in particular a row that took part in a
\* conflict is still one complete fact.
TypeOK ==
  /\ st \in Statuses /\ kept \in Fact \cup {NoFact}
  /\ tok \in Token /\ holder \in 0..MaxRestarts
  /\ reg \in {0} \cup Token /\ row \in Row \cup {NoRow}
  /\ inst \in 0..MaxRestarts
  /\ workers \subseteq Worker
  /\ cur \in Id \cup {NoWorker} /\ marked \in Id \cup {NoWorker}
  /\ sync \in Sync /\ wire \subseteq Post

\* The Agent stops sending a fact only when the job is terminal on the
\* control plane, however posts, replays, resumptions and crashes interleave:
\* a 409 for a job that is RUNNING or UNKNOWN confirms nothing.
AckedMeansEnded == row.is = "acked" => st = "ENDED"

\* An Agent that has restarted does not run a job again while the result of
\* its predecessor still waits in SQLite, although the control plane tells it
\* to: a worker never works under a newer token than the fact in the outbox.
FinishedIsNotRelaunched ==
  Pending => \A w \in workers : w.tok <= row.tok

\* ADR-0019: only a fact that the control plane has stored may be confirmed.
AckedIsKept == row.is = "acked" => kept = row.fact

\* A fact does not wait in the outbox for ever: it is confirmed, or it
\* becomes a dead letter and makes room for others.
PendingResolves == Pending ~> ~ Pending
=============================================================================
