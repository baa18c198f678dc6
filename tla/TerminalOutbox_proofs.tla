------------------------ MODULE TerminalOutbox_proofs ------------------------
(***************************************************************************)
(* What an Agent may conclude from an acknowledged fact, and that it does  *)
(* not run a job again whose fact it still holds, for any number of        *)
(* crashes, tries, posts under way and workers.                            *)
(***************************************************************************)
EXTENDS TerminalOutbox, TLAPS

\* The token goes up at most once for every instance of the Agent.
TokenOfInstance == holder <= inst /\ tok <= holder + 1

\* All that the running instance executes, or is told to, is under the token
\* it was given: the control plane rotates the token for a new instance only.
UnderOwnToken ==
  /\ workers # {} => holder = inst
  /\ \A w \in workers : w.tok = tok
  /\ sync.at # "idle" /\ sync.order = "RESUME" => holder = inst /\ sync.tok = tok

\* A fact that came up after the sync had looked for one is of this instance.
LateFactIsNew ==
  sync.at = "drained" /\ sync.order = "RESUME" /\ ~sync.first /\ Pending
    => row.tok = tok

\* Whoever is about to post with a stored copy has one.
SenderHasCopy ==
  \A w \in workers :
    /\ w.at = "send" => row # NoRow
    /\ w.at \in {"send", "bare"} => w.fact \in Fact

OutboxInv ==
  /\ TypeOK
  /\ TokenOfInstance
  /\ UnderOwnToken
  /\ LateFactIsNew
  /\ SenderHasCopy
  /\ AckedMeansEnded
  /\ FinishedIsNotRelaunched

-----------------------------------------------------------------------------
LEMMA InitInv == Init => OutboxInv
<1> SUFFICES ASSUME Init PROVE OutboxInv
  OBVIOUS
<1>1. TypeOK
  BY ConstantsAssumption DEF Init, TypeOK, Statuses, Token, Worker, Starting,
     Id, NoWorker, Sync, Idle
<1>2. TokenOfInstance /\ UnderOwnToken /\ LateFactIsNew
  BY DEF Init, TokenOfInstance, UnderOwnToken, LateFactIsNew, Starting, Idle
<1>3. SenderHasCopy /\ AckedMeansEnded /\ FinishedIsNotRelaunched
  BY DEF Init, SenderHasCopy, AckedMeansEnded, FinishedIsNotRelaunched,
     Pending, NoRow, Starting
<1> QED  BY <1>1, <1>2, <1>3 DEF OutboxInv

-----------------------------------------------------------------------------
\* What the control plane does with a post: it may end the job.
LEMMA HandleFacts ==
  ASSUME TypeOK, NEW m \in Post, Handle(m)
  PROVE  /\ st' \in {st, "ENDED"} /\ st' \in Statuses
         /\ st = "ENDED" => st' = "ENDED"
         /\ kept' \in Fact \cup {NoFact}
         /\ UNCHANGED <<tok, holder>>
         /\ Reply(m) \in {"ok", "stale"} => st' = "ENDED"
  BY DEF TypeOK, Handle, Accepts, Reply, Statuses, Post

\* A failed try changes the outbox's count only.
LEMMA RetainedFacts ==
  ASSUME TypeOK, Pending
  PROVE  /\ Retained \in Row /\ Retained.tok = row.tok
         /\ Retained.is \in {"pending", "dead"}
         /\ [row EXCEPT !.tries = OneMoreTry] \in Row
         /\ [row EXCEPT !.is = "acked"] \in Row
<1>1. row \in Row
  BY DEF TypeOK, Pending, NoRow
<1>2. OneMoreTry \in 0..MaxTries
  BY <1>1, ConstantsAssumption DEF OneMoreTry, Row
<1> QED  BY <1>1, <1>2 DEF Retained, Row, Pending

\* The drainer, by itself or within a sync, keeps the outbox's record whole,
\* and acknowledges it for an ended job only.
LEMMA DrainFacts ==
  ASSUME TypeOK, AckedMeansEnded, DrainAnswered \/ DrainFails
  PROVE  /\ row' \in Row /\ row'.tok = row.tok
         /\ Pending
         /\ st' \in Statuses /\ kept' \in Fact \cup {NoFact}
         /\ wire' \subseteq Post
         /\ UNCHANGED <<tok, holder>>
         /\ row'.is = "acked" => st' = "ENDED"
<1>1. Pending /\ row \in Row /\ PostOf(row) \in Post
  BY DEF DrainAnswered, DrainFails, TypeOK, Pending, NoRow, PostOf, Post, Row
<1>2. CASE DrainAnswered
  <2>1. Handle(PostOf(row)) /\ row' = Settled(Reply(PostOf(row))) /\ wire' = wire
    BY <1>2 DEF DrainAnswered
  <2> QED  BY <1>1, <2>1, HandleFacts, RetainedFacts DEF Settled, TypeOK, Row
<1>3. CASE DrainFails
  <2>1. /\ row' = [row EXCEPT !.tries = OneMoreTry]
        /\ Unanswered(PostOf(row))
    BY <1>3 DEF DrainFails
  <2>2. wire' \subseteq Post /\ UNCHANGED planeVars
    BY <1>1, <2>1 DEF Unanswered, TypeOK
  <2> QED
    BY <1>1, <2>1, <2>2, RetainedFacts DEF TypeOK, planeVars, Row, Pending
<1> QED  BY <1>2, <1>3

-----------------------------------------------------------------------------
\* A worker of the running instance that takes another one's place in the set
\* under the same token, while nothing else that is stated of tokens changes.
LEMMA ReplaceWorkerFacts ==
  ASSUME OutboxInv, NEW w \in workers, NEW new \in Worker, new.tok = w.tok,
         workers' \in {(workers \ {w}) \cup {new}, workers \ {w}},
         UNCHANGED <<tok, holder, sync, inst>>,
         row'.tok = row.tok, row'.is = "pending" => Pending
  PROVE  /\ workers' \subseteq Worker
         /\ TokenOfInstance'
         /\ UnderOwnToken'
         /\ LateFactIsNew'
         /\ FinishedIsNotRelaunched'
<1>1. workers \subseteq Worker /\ \A v \in workers' : \E u \in workers : v.tok = u.tok
  BY DEF OutboxInv, TypeOK
<1>2. workers' \subseteq Worker
  BY <1>1
<1>3. TokenOfInstance'
  BY DEF OutboxInv, TokenOfInstance
<1>4. UnderOwnToken'
  BY <1>1 DEF OutboxInv, UnderOwnToken
<1>5. LateFactIsNew'
  BY DEF OutboxInv, LateFactIsNew, Pending
<1>6. FinishedIsNotRelaunched'
  BY <1>1 DEF OutboxInv, FinishedIsNotRelaunched, Pending
<1> QED  BY <1>2, <1>3, <1>4, <1>5, <1>6

LEMMA WorkerStartKeepsInv ==
  ASSUME OutboxInv, NEW w \in workers, WorkerStart(w)
  PROVE  OutboxInv'
<1> DEFINE new == [w EXCEPT !.at = "run"]
<1>1. w \in Worker /\ new \in Worker /\ new.tok = w.tok /\ w.tok \in Token
      /\ IdOf(w) \in Id
  BY DEF OutboxInv, TypeOK, Worker, IdOf, Id
<1>2. /\ workers' \in {(workers \ {w}) \cup {new}, workers \ {w}}
      /\ UNCHANGED <<planeVars, row, inst, sync, wire>>
      /\ cur' \in {cur, IdOf(w)} /\ marked' \in {marked, IdOf(w)}
      /\ reg' \in {reg, w.tok}
  BY DEF WorkerStart, Step
<1>3. /\ workers' \subseteq Worker
      /\ TokenOfInstance' /\ UnderOwnToken' /\ LateFactIsNew'
      /\ FinishedIsNotRelaunched'
  <2> HIDE DEF new
  <2> QED  BY <1>1, <1>2, ReplaceWorkerFacts DEF planeVars, Pending
<1>4. TypeOK'
  BY <1>1, <1>2, <1>3 DEF OutboxInv, TypeOK, planeVars
<1>5. SenderHasCopy'
  BY <1>1, <1>2 DEF OutboxInv, SenderHasCopy, Worker
<1>6. AckedMeansEnded'
  BY <1>2 DEF OutboxInv, AckedMeansEnded, planeVars
<1> QED  BY <1>3, <1>4, <1>5, <1>6 DEF OutboxInv

\* The end of an execution, and the look at active_job_tokens.
LEMMA WorkerMovesKeepsInv ==
  ASSUME OutboxInv, NEW w \in workers, WorkerEnds(w) \/ WorkerCheck(w)
  PROVE  OutboxInv'
<1>1. PICK place \in {"check", "store", "exit"} :
        /\ workers' = (workers \ {w}) \cup {[w EXCEPT !.at = place]}
        /\ UNCHANGED <<planeVars, diskVars, inst, cur, marked, sync, wire>>
  BY DEF WorkerEnds, WorkerCheck, Step
<1> DEFINE new == [w EXCEPT !.at = place]
<1>2. w \in Worker /\ new \in Worker /\ new.tok = w.tok
  BY DEF OutboxInv, TypeOK, Worker
<1>3. /\ workers' \subseteq Worker
      /\ TokenOfInstance' /\ UnderOwnToken' /\ LateFactIsNew'
      /\ FinishedIsNotRelaunched'
  <2> workers' = (workers \ {w}) \cup {new}
    BY <1>1
  <2> HIDE DEF new
  <2> QED  BY <1>1, <1>2, ReplaceWorkerFacts DEF planeVars, diskVars, Pending
<1>4. TypeOK'
  BY <1>1, <1>3 DEF OutboxInv, TypeOK, planeVars, diskVars
<1>5. SenderHasCopy'
  BY <1>1, <1>2 DEF OutboxInv, SenderHasCopy, Worker, diskVars
<1>6. AckedMeansEnded'
  BY <1>1 DEF OutboxInv, AckedMeansEnded, planeVars, diskVars
<1> QED  BY <1>3, <1>4, <1>5, <1>6 DEF OutboxInv

LEMMA WorkerExitKeepsInv ==
  ASSUME OutboxInv, NEW w \in workers, WorkerExit(w)
  PROVE  OutboxInv'
<1>1. /\ workers' = workers \ {w}
      /\ UNCHANGED <<planeVars, row, inst, sync, wire>>
      /\ cur' \in {cur, NoWorker} /\ marked' \in {marked, NoWorker}
      /\ reg' \in {reg, 0}
  BY DEF WorkerExit
<1>2. /\ workers' \subseteq Worker
      /\ TokenOfInstance' /\ UnderOwnToken' /\ LateFactIsNew'
      /\ FinishedIsNotRelaunched'
  BY <1>1, ReplaceWorkerFacts DEF planeVars, Pending, OutboxInv, TypeOK
<1>3. TypeOK'
  BY <1>1, <1>2 DEF OutboxInv, TypeOK, planeVars
<1>4. SenderHasCopy' /\ AckedMeansEnded'
  BY <1>1 DEF OutboxInv, SenderHasCopy, AckedMeansEnded, planeVars
<1> QED  BY <1>2, <1>3, <1>4 DEF OutboxInv

\* The fact that is stored is one of the token that is in force for the Agent.
LEMMA WorkerStoreKeepsInv ==
  ASSUME OutboxInv, NEW w \in workers, WorkerStore(w)
  PROVE  OutboxInv'
<1>1. PICK f \in Fact, place \in {"send", "bare"} :
        /\ workers' = (workers \ {w}) \cup {[w EXCEPT !.fact = f, !.at = place]}
        /\ \/ UNCHANGED row /\ (place = "send" => row # NoRow)
           \/ /\ row = NoRow
              /\ row' = [is |-> "pending", tok |-> w.tok, fact |-> f, tries |-> 0]
        /\ UNCHANGED <<planeVars, reg, inst, cur, marked, sync, wire>>
  <2>1. PICK f \in Fact :
        LET new == [w EXCEPT !.fact = f] IN
         \/ /\ row = NoRow
            /\ row' = [is |-> "pending", tok |-> w.tok, fact |-> f, tries |-> 0]
            /\ workers' = (workers \ {w}) \cup {[new EXCEPT !.at = "send"]}
         \/ /\ row # NoRow
            /\ workers' = (workers \ {w}) \cup {[new EXCEPT !.at = "send"]}
            /\ UNCHANGED row
         \/ /\ workers' = (workers \ {w}) \cup {[new EXCEPT !.at = "bare"]}
            /\ UNCHANGED row
    BY DEF WorkerStore
  <2>2. UNCHANGED <<planeVars, reg, inst, cur, marked, sync, wire>>
    BY DEF WorkerStore
  <2>3. \A place : [[w EXCEPT !.fact = f] EXCEPT !.at = place]
                     = [w EXCEPT !.fact = f, !.at = place]
    OBVIOUS
  <2> QED  BY <2>1, <2>2, <2>3
<1> DEFINE new == [w EXCEPT !.fact = f, !.at = place]
<1>2. w \in Worker /\ new \in Worker /\ new.tok = w.tok /\ w.tok = tok
      /\ new.at = place /\ new.fact = f
  BY DEF OutboxInv, TypeOK, Worker, UnderOwnToken
<1>3. workers' = (workers \ {w}) \cup {new}
  BY <1>1
<1> HIDE DEF new
<1>4. /\ row' \in Row \cup {NoRow} /\ (new.at = "send" => row' # NoRow)
      /\ row # NoRow => row' # NoRow
  BY <1>1, <1>2, ConstantsAssumption
     DEF OutboxInv, TypeOK, Row, NoRow, Worker
<1>5. TypeOK'
  BY <1>1, <1>2, <1>3, <1>4 DEF OutboxInv, TypeOK, planeVars
<1>6. TokenOfInstance' /\ AckedMeansEnded'
  BY <1>1 DEF OutboxInv, TokenOfInstance, AckedMeansEnded, planeVars
<1>7. UnderOwnToken'
  BY <1>1, <1>2, <1>3 DEF OutboxInv, UnderOwnToken, planeVars
<1>8. LateFactIsNew'
  BY <1>1, <1>2 DEF OutboxInv, LateFactIsNew, Pending, planeVars, NoRow
<1>9. SenderHasCopy'
  BY <1>1, <1>2, <1>3, <1>4 DEF OutboxInv, SenderHasCopy
<1>10. FinishedIsNotRelaunched'
  <2>1. tok \in Nat /\ \A v \in workers' : v.tok = tok
    BY <1>2, <1>3 DEF OutboxInv, UnderOwnToken, TypeOK, Token
  <2>2. CASE UNCHANGED row
    BY <2>1, <2>2, <1>2, <1>3 DEF OutboxInv, FinishedIsNotRelaunched, Pending,
       UnderOwnToken
  <2>3. CASE row' = [is |-> "pending", tok |-> w.tok, fact |-> f, tries |-> 0]
    BY <2>1, <2>3, <1>2 DEF FinishedIsNotRelaunched
  <2> QED  BY <2>2, <2>3, <1>1
<1> QED  BY <1>5, <1>6, <1>7, <1>8, <1>9, <1>10 DEF OutboxInv

LEMMA WorkerSendKeepsInv ==
  ASSUME OutboxInv, NEW w \in workers, WorkerSend(w)
  PROVE  OutboxInv'
<1> DEFINE new == [w EXCEPT !.fact = NoFact, !.at = "exit"]
<1>1. w \in Worker /\ new \in Worker /\ new.tok = w.tok /\ new.at = "exit"
      /\ PostOf(w) \in Post
  BY DEF OutboxInv, TypeOK, Worker, SenderHasCopy, WorkerSend, PostOf, Post
<1>2. /\ workers' = (workers \ {w}) \cup {new}
      /\ UNCHANGED <<tok, holder, reg, inst, cur, marked, sync>>
      /\ st' \in Statuses /\ (st = "ENDED" => st' = "ENDED")
      /\ kept' \in Fact \cup {NoFact}
      /\ wire' \subseteq Post
      /\ \/ UNCHANGED row
         \/ row # NoRow /\ row' = [row EXCEPT !.is = "acked"] /\ st' = "ENDED"
  <2>1. /\ workers' = (workers \ {w}) \cup {new}
        /\ UNCHANGED <<reg, inst, cur, marked, sync>>
    BY DEF WorkerSend
  <2>2. CASE Unanswered(PostOf(w)) /\ UNCHANGED row
    BY <2>1, <2>2, <1>1 DEF Unanswered, planeVars, OutboxInv, TypeOK
  <2>3. CASE /\ Handle(PostOf(w))
             /\ row' = IF w.at = "send" /\ Reply(PostOf(w)) = "ok"
                       THEN [row EXCEPT !.is = "acked"] ELSE row
             /\ UNCHANGED wire
    BY <2>1, <2>3, <1>1, HandleFacts DEF OutboxInv, TypeOK, SenderHasCopy
  <2> QED  BY <2>2, <2>3 DEF WorkerSend
<1> HIDE DEF new
<1>3. /\ row' \in Row \cup {NoRow} /\ (row # NoRow => row' # NoRow)
      /\ row'.tok = row.tok /\ (row'.is = "pending" => Pending)
      /\ row'.is = "acked" => row.is = "acked" \/ st' = "ENDED"
  BY <1>2 DEF OutboxInv, TypeOK, Row, NoRow, Pending
<1>4. /\ workers' \subseteq Worker
      /\ TokenOfInstance' /\ UnderOwnToken' /\ LateFactIsNew'
      /\ FinishedIsNotRelaunched'
  BY <1>1, <1>2, <1>3, ReplaceWorkerFacts
<1>5. TypeOK'
  BY <1>2, <1>3, <1>4 DEF OutboxInv, TypeOK
<1>6. SenderHasCopy'
  BY <1>1, <1>2, <1>3 DEF OutboxInv, SenderHasCopy
<1>7. AckedMeansEnded'
  BY <1>2, <1>3 DEF OutboxInv, AckedMeansEnded
<1> QED  BY <1>4, <1>5, <1>6, <1>7 DEF OutboxInv

-----------------------------------------------------------------------------
LEMMA ArriveKeepsInv ==
  ASSUME OutboxInv, NEW m \in wire, Arrive(m)
  PROVE  OutboxInv'
<1>1. /\ m \in Post /\ Handle(m) /\ wire' = wire \ {m}
      /\ UNCHANGED <<diskVars, inst, workers, cur, marked, sync>>
  BY DEF Arrive, OutboxInv, TypeOK
<1>2. /\ st' \in Statuses /\ (st = "ENDED" => st' = "ENDED")
      /\ kept' \in Fact \cup {NoFact}
      /\ UNCHANGED <<tok, holder>>
  BY <1>1, HandleFacts DEF OutboxInv
<1>3. TypeOK'
  BY <1>1, <1>2 DEF OutboxInv, TypeOK, diskVars
<1>4. TokenOfInstance' /\ UnderOwnToken'
  BY <1>1, <1>2 DEF OutboxInv, TokenOfInstance, UnderOwnToken
<1>5. LateFactIsNew' /\ SenderHasCopy' /\ AckedMeansEnded' /\ FinishedIsNotRelaunched'
  BY <1>1, <1>2 DEF OutboxInv, LateFactIsNew, SenderHasCopy, AckedMeansEnded,
     FinishedIsNotRelaunched, Pending, diskVars
<1> QED  BY <1>3, <1>4, <1>5 DEF OutboxInv

\* Time, other ends of the job, and a lost lease of the worker.
LEMMA OutsideKeepsInv ==
  ASSUME OutboxInv, Decline \/ LeaseLost
  PROVE  OutboxInv'
<1>1. /\ st' \in Statuses /\ (st = "ENDED" => st' = "ENDED")
      /\ cur' \in {cur, NoWorker}
      /\ UNCHANGED <<kept, tok, holder, diskVars, inst, workers, marked, sync, wire>>
  BY DEF Decline, LeaseLost, OutboxInv, TypeOK, Statuses, planeVars
<1>2. TypeOK'
  BY <1>1 DEF OutboxInv, TypeOK, diskVars
<1>3. TokenOfInstance' /\ UnderOwnToken'
  BY <1>1 DEF OutboxInv, TokenOfInstance, UnderOwnToken
<1>4. LateFactIsNew' /\ SenderHasCopy' /\ AckedMeansEnded' /\ FinishedIsNotRelaunched'
  BY <1>1 DEF OutboxInv, LateFactIsNew, SenderHasCopy, AckedMeansEnded,
     FinishedIsNotRelaunched, Pending, diskVars
<1> QED  BY <1>2, <1>3, <1>4 DEF OutboxInv

LEMMA DrainerKeepsInv ==
  ASSUME OutboxInv, DrainerAnswered \/ DrainerFails
  PROVE  OutboxInv'
<1>1. /\ DrainAnswered \/ DrainFails
      /\ UNCHANGED <<reg, inst, workers, cur, marked, sync>>
  BY DEF DrainerAnswered, DrainerFails
<1>2. /\ row' \in Row /\ row'.tok = row.tok /\ Pending
      /\ st' \in Statuses /\ kept' \in Fact \cup {NoFact}
      /\ wire' \subseteq Post
      /\ UNCHANGED <<tok, holder>>
      /\ row'.is = "acked" => st' = "ENDED"
  BY <1>1, DrainFacts DEF OutboxInv
<1>3. TypeOK' /\ TokenOfInstance' /\ UnderOwnToken'
  BY <1>1, <1>2 DEF OutboxInv, TypeOK, TokenOfInstance, UnderOwnToken
<1>4. row' # NoRow
  BY <1>2 DEF Row, NoRow
<1>5. LateFactIsNew' /\ SenderHasCopy' /\ AckedMeansEnded' /\ FinishedIsNotRelaunched'
  BY <1>1, <1>2, <1>4 DEF OutboxInv, LateFactIsNew, SenderHasCopy, AckedMeansEnded,
     FinishedIsNotRelaunched, Pending
<1> QED  BY <1>3, <1>5 DEF OutboxInv

-----------------------------------------------------------------------------
\* A token is rotated for the instance that asks, once.
LEMMA TakeOverFacts ==
  ASSUME OutboxInv, TakeOver
  PROVE  /\ holder' = inst /\ tok' \in Token /\ tok' <= inst + 1
         /\ holder = inst => tok' = tok
         /\ holder # inst => workers = {}
<1>1. tok \in Nat /\ holder \in Nat /\ inst \in Nat /\ MaxRestarts \in Nat
      /\ inst <= MaxRestarts /\ holder <= inst /\ tok <= holder + 1
  BY ConstantsAssumption DEF OutboxInv, TypeOK, TokenOfInstance, Token
<1>2. holder # inst => tok + 1 <= inst + 1
  BY <1>1
<1>3. holder # inst => workers = {}
  BY DEF OutboxInv, UnderOwnToken
<1> QED  BY <1>1, <1>2, <1>3 DEF TakeOver, Token, OutboxInv, TypeOK

LEMMA SyncAskKeepsInv ==
  ASSUME OutboxInv, SyncAsk
  PROVE  OutboxInv'
<1>1. UNCHANGED <<diskVars, inst, workers, cur, marked, wire>> /\ sync = Idle
  BY DEF SyncAsk
<1>2. PICK order \in Orders, t \in {0} \cup Token :
        /\ SyncAnswer(order, t)
        /\ st' \in Statuses /\ (st = "ENDED" => st' = "ENDED")
        /\ kept' = kept
        /\ \/ UNCHANGED <<tok, holder>>
           \/ TakeOver
        /\ order = "RESUME" => TakeOver /\ t = tok'
  <2>1. CASE OutboxOnly \/ Disowned \/ AlreadyOwned \/ HostRebooted \/ GraceExpired
    BY <2>1 DEF OutboxOnly, Disowned, AlreadyOwned, HostRebooted, GraceExpired,
       planeVars, Orders, Statuses, OutboxInv, TypeOK, Owned
  <2>2. CASE AbortRequested
    BY <2>2 DEF AbortRequested, Orders, OutboxInv, TypeOK
  <2>3. CASE Resurrected \/ SameBootTakeover
    <3>1. TakeOver /\ SyncAnswer("RESUME", tok') /\ kept' = kept
          /\ st' \in Statuses /\ st # "ENDED"
      BY <2>3 DEF Resurrected, SameBootTakeover, Owned, Statuses, OutboxInv, TypeOK
    <3>2. tok' \in Token
      BY <3>1, TakeOverFacts
    <3> QED  BY <3>1, <3>2 DEF Orders
  <2> QED  BY <2>1, <2>2, <2>3 DEF SyncAsk
<1>3. sync' \in [at : {"answered"}, order : Orders, tok : {0} \cup Token, upload : Uploads]
      /\ sync'.at = "answered" /\ sync'.order = order /\ sync'.tok = t
  BY <1>2 DEF SyncAnswer, UploadAction, Uploads
<1>4. /\ tok' \in Token /\ holder' \in 0..MaxRestarts
      /\ holder' <= inst /\ tok' <= holder' + 1
      /\ workers # {} => holder' = inst /\ tok' = tok
      /\ order = "RESUME" => holder' = inst /\ t = tok'
  BY <1>2, TakeOverFacts DEF OutboxInv, TypeOK, TokenOfInstance, UnderOwnToken
<1>5. TypeOK'
  BY <1>1, <1>2, <1>3, <1>4 DEF OutboxInv, TypeOK, diskVars, Sync
<1>6. TokenOfInstance' /\ UnderOwnToken'
  BY <1>1, <1>3, <1>4 DEF OutboxInv, TokenOfInstance, UnderOwnToken
<1>7. LateFactIsNew'
  BY <1>3 DEF LateFactIsNew
<1>8. SenderHasCopy' /\ AckedMeansEnded' /\ FinishedIsNotRelaunched'
  BY <1>1, <1>2 DEF OutboxInv, SenderHasCopy, AckedMeansEnded,
     FinishedIsNotRelaunched, Pending, diskVars
<1> QED  BY <1>5, <1>6, <1>7, <1>8 DEF OutboxInv

LEMMA SyncFailsKeepsInv ==
  ASSUME OutboxInv, SyncFails
  PROVE  OutboxInv'
<1>1. /\ sync' = Idle
      /\ UNCHANGED <<planeVars, diskVars, inst, workers, cur, marked, wire>>
  BY DEF SyncFails
<1>2. TypeOK' /\ TokenOfInstance' /\ UnderOwnToken' /\ LateFactIsNew'
  BY <1>1 DEF OutboxInv, TypeOK, TokenOfInstance, UnderOwnToken, LateFactIsNew,
     planeVars, diskVars, Sync, Idle
<1>3. SenderHasCopy' /\ AckedMeansEnded' /\ FinishedIsNotRelaunched'
  BY <1>1 DEF OutboxInv, SenderHasCopy, AckedMeansEnded,
     FinishedIsNotRelaunched, Pending, planeVars, diskVars
<1> QED  BY <1>2, <1>3 DEF OutboxInv

\* A pending fact is seen here: the sync does not relaunch beside it.
LEMMA SyncDrainKeepsInv ==
  ASSUME OutboxInv, SyncDrain
  PROVE  OutboxInv'
<1>1. /\ sync.at = "answered"
      /\ sync' = [at |-> "drained", order |-> sync.order, tok |-> sync.tok,
                  upload |-> sync.upload, first |-> TerminalFirst]
      /\ UNCHANGED <<reg, inst, workers, cur, marked>>
  BY DEF SyncDrain
<1>2. /\ row' \in Row \cup {NoRow} /\ row'.tok = row.tok
      /\ row'.is = "pending" => Pending
      /\ row # NoRow => row' # NoRow
      /\ st' \in Statuses /\ kept' \in Fact \cup {NoFact} /\ wire' \subseteq Post
      /\ UNCHANGED <<tok, holder>>
      /\ row'.is = "acked" => st' = "ENDED"
  <2>1. CASE DrainAnswered \/ DrainFails
    BY <2>1, DrainFacts DEF OutboxInv, Row, NoRow
  <2>2. CASE UNCHANGED <<planeVars, row, wire>>
    BY <2>2 DEF OutboxInv, TypeOK, AckedMeansEnded, planeVars, Pending
  <2> QED  BY <2>1, <2>2 DEF SyncDrain
<1>3. sync \in [at : {"answered"}, order : Orders, tok : {0} \cup Token, upload : Uploads]
  BY <1>1 DEF OutboxInv, TypeOK, Sync, Idle
<1>4. sync' \in Sync
  BY <1>1, <1>3 DEF Sync, TerminalFirst
<1>5. TypeOK'
  BY <1>1, <1>2, <1>4 DEF OutboxInv, TypeOK
<1>6. TokenOfInstance' /\ UnderOwnToken'
  BY <1>1, <1>2 DEF OutboxInv, TokenOfInstance, UnderOwnToken
<1>7. LateFactIsNew'
  BY <1>1, <1>2 DEF LateFactIsNew, TerminalFirst, Pending
<1>8. SenderHasCopy' /\ AckedMeansEnded' /\ FinishedIsNotRelaunched'
  BY <1>1, <1>2 DEF OutboxInv, SenderHasCopy, AckedMeansEnded,
     FinishedIsNotRelaunched, Pending
<1> QED  BY <1>5, <1>6, <1>7, <1>8 DEF OutboxInv

\* A relaunched worker has the token of the instance; a fact that still waits
\* was stored under it.
LEMMA SyncActKeepsInv ==
  ASSUME OutboxInv, SyncAct
  PROVE  OutboxInv'
<1>1. /\ sync.at = "drained" /\ sync' = Idle
      /\ UNCHANGED <<planeVars, row, inst, marked, wire>>
  BY DEF SyncAct
<1>2. sync \in [at : {"drained"}, order : Orders, tok : {0} \cup Token,
                upload : Uploads, first : BOOLEAN]
  BY <1>1 DEF OutboxInv, TypeOK, Sync, Idle
<1>3. CASE sync.order = "RESUME" /\ ~sync.first
  <2> DEFINE new == Starting(sync.tok, TRUE)
  <2>1. sync.tok = tok /\ holder = inst /\ tok \in Token
    BY <1>1, <1>3 DEF OutboxInv, UnderOwnToken, TypeOK
  <2>2. /\ reg' = sync.tok /\ cur' = [tok |-> sync.tok, resumed |-> TRUE]
        /\ workers' = workers \cup {new}
    BY <1>3 DEF SyncAct
  <2>3. new \in Worker /\ new.tok = tok /\ new.at = "queued" /\ cur' \in Id
    BY <2>1, <2>2 DEF Starting, Worker, Id
  <2> HIDE DEF new
  <2>4. TypeOK'
    BY <1>1, <2>1, <2>2, <2>3 DEF OutboxInv, TypeOK, planeVars, Sync
  <2>5. TokenOfInstance' /\ UnderOwnToken' /\ LateFactIsNew'
    BY <1>1, <2>1, <2>2, <2>3 DEF OutboxInv, TokenOfInstance, UnderOwnToken,
       LateFactIsNew, planeVars, Idle
  <2>6. SenderHasCopy' /\ AckedMeansEnded'
    BY <1>1, <2>2, <2>3 DEF OutboxInv, SenderHasCopy, AckedMeansEnded, planeVars
  <2>7. FinishedIsNotRelaunched'
    <3>1. Pending => row.tok = tok
      BY <1>1, <1>3 DEF OutboxInv, LateFactIsNew
    <3>2. tok \in Nat /\ \A w \in workers' : w.tok = tok
      BY <2>1, <2>2, <2>3 DEF OutboxInv, UnderOwnToken, Token
    <3> QED  BY <1>1, <3>1, <3>2 DEF FinishedIsNotRelaunched, Pending
  <2> QED  BY <2>4, <2>5, <2>6, <2>7 DEF OutboxInv
<1>4. CASE ~(sync.order = "RESUME" /\ ~sync.first)
  <2>1. reg' \in {reg, 0} /\ UNCHANGED <<workers, cur>>
    BY <1>4 DEF SyncAct, Delivered
  <2>2. TypeOK'
    BY <1>1, <2>1 DEF OutboxInv, TypeOK, planeVars, Sync
  <2>3. TokenOfInstance' /\ UnderOwnToken' /\ LateFactIsNew'
    BY <1>1, <2>1 DEF OutboxInv, TokenOfInstance, UnderOwnToken, LateFactIsNew,
       planeVars, Idle
  <2>4. SenderHasCopy' /\ AckedMeansEnded' /\ FinishedIsNotRelaunched'
    BY <1>1, <2>1 DEF OutboxInv, SenderHasCopy, AckedMeansEnded,
       FinishedIsNotRelaunched, Pending, planeVars
  <2> QED  BY <2>2, <2>3, <2>4 DEF OutboxInv
<1> QED  BY <1>3, <1>4

LEMMA RestartKeepsInv ==
  ASSUME OutboxInv, Restart
  PROVE  OutboxInv'
<1>1. /\ inst' = inst + 1 /\ inst' \in 0..MaxRestarts
      /\ workers' = {} /\ cur' = NoWorker /\ marked' = NoWorker /\ sync' = Idle
      /\ UNCHANGED <<planeVars, diskVars, wire>>
  BY ConstantsAssumption DEF Restart, OutboxInv, TypeOK
<1>2. TypeOK'
  BY <1>1 DEF OutboxInv, TypeOK, planeVars, diskVars, Sync
<1>3. TokenOfInstance' /\ UnderOwnToken' /\ LateFactIsNew'
  BY <1>1 DEF OutboxInv, TypeOK, TokenOfInstance, UnderOwnToken, LateFactIsNew,
     planeVars, Idle
<1>4. SenderHasCopy' /\ AckedMeansEnded' /\ FinishedIsNotRelaunched'
  BY <1>1 DEF OutboxInv, SenderHasCopy, AckedMeansEnded,
     FinishedIsNotRelaunched, planeVars, diskVars
<1> QED  BY <1>2, <1>3, <1>4 DEF OutboxInv

LEMMA StutterKeepsInv ==
  ASSUME OutboxInv, UNCHANGED vars
  PROVE  OutboxInv'
  BY DEF OutboxInv, vars, planeVars, diskVars, TypeOK, TokenOfInstance,
     UnderOwnToken, LateFactIsNew, SenderHasCopy, AckedMeansEnded,
     FinishedIsNotRelaunched, Pending

LEMMA NextKeepsInv ==
  ASSUME OutboxInv, [Next]_vars
  PROVE  OutboxInv'
<1>1. ASSUME NEW w \in workers, WorkerStep(w)
      PROVE  OutboxInv'
  BY <1>1, WorkerStartKeepsInv, WorkerMovesKeepsInv, WorkerExitKeepsInv,
     WorkerStoreKeepsInv, WorkerSendKeepsInv DEF WorkerStep
<1> QED
  BY <1>1, ArriveKeepsInv, OutsideKeepsInv, DrainerKeepsInv, SyncAskKeepsInv,
     SyncFailsKeepsInv, SyncDrainKeepsInv, SyncActKeepsInv, RestartKeepsInv,
     StutterKeepsInv DEF Next

-----------------------------------------------------------------------------
\* The inductive invariant of worker, outbox, drainer and recovery sync.
THEOREM OutboxCorrect == Spec => []OutboxInv
<1>1. OutboxInv /\ [Next]_vars => OutboxInv'
  BY NextKeepsInv
<1> QED  BY <1>1, InitInv, PTL DEF Spec

\* Every variable keeps to its type; the token stays within the restarts.
THEOREM TypeCorrect == Spec => []TypeOK
<1>1. OutboxInv => TypeOK
  BY DEF OutboxInv
<1> QED  BY <1>1, OutboxCorrect, PTL

\* OutboxDrainThread stops sending a fact only when the job has ended.
THEOREM ConfirmationIsFinal == Spec => []AckedMeansEnded
<1>1. OutboxInv => AckedMeansEnded
  BY DEF OutboxInv
<1> QED  BY <1>1, OutboxCorrect, PTL

\* execute_recovery_actions_impl does not relaunch a job whose fact waits.
THEOREM NoSecondExecution == Spec => []FinishedIsNotRelaunched
<1>1. OutboxInv => FinishedIsNotRelaunched
  BY DEF OutboxInv
<1> QED  BY <1>1, OutboxCorrect, PTL
=============================================================================
