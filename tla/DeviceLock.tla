----------------------------- MODULE DeviceLock -----------------------------
(***************************************************************************)
(* What the lease tables promise to the rest of the platform: each device  *)
(* is a lock with a fencing epoch, held by one job or kept back by a       *)
(* return debt, and a job's result is committed by its holder in the very  *)
(* step that gives the lock up.  JobLease implements it.                   *)
(***************************************************************************)
EXTENDS Naturals

CONSTANTS Device, Owner, Debt, Result, NoResult

VARIABLES
  holders,  \* who holds the device: nobody, one owner, or Debt
  epoch,    \* the fencing epoch, one higher with every grant
  result    \* the committed result of an owner

lockVars == <<holders, epoch, result>>

Init ==
  /\ holders = [d \in Device |-> {}]
  /\ epoch = [d \in Device |-> 0]
  /\ result = [o \in Owner |-> NoResult]

Grant(d, S) ==
  /\ epoch' = [epoch EXCEPT ![d] = @ + 1]
  /\ holders' = [holders EXCEPT ![d] = S]

Drop(d) ==
  /\ epoch' = epoch
  /\ holders[d] # {}
  /\ holders' = [holders EXCEPT ![d] = {}]

Acquire(d, o) == Grant(d, {o}) /\ holders[d] = {} /\ UNCHANGED result

\* The same owner under a new epoch: whoever acted for it before is fenced.
Refence(d) == Grant(d, holders[d]) /\ holders[d] # {} /\ UNCHANGED result

KeepBack(d) == Grant(d, {Debt}) /\ holders[d] # {Debt} /\ UNCHANGED result

Free(d) == UNCHANGED result /\ Drop(d)

Commit(d, o, x) ==
  /\ result' = [result EXCEPT ![o] = x]
  /\ holders[d] = {o} /\ result[o] = NoResult
  /\ Drop(d) \/ Grant(d, {Debt})

Next ==
  \E d \in Device :
    \/ Refence(d) \/ KeepBack(d) \/ Free(d)
    \/ \E o \in Owner : Acquire(d, o) \/ \E x \in Result : Commit(d, o, x)

Spec == Init /\ [][Next]_lockVars
=============================================================================
