---------------------- MODULE OperationScheduler_proofs ----------------------
(***************************************************************************)
(* The permits of a host are accounted for, for any number of workers and  *)
(* devices and any caps, as long as no request enters beside a cancelled   *)
(* one of its device that has yet to find out.  With one worker per device *)
(* none does.                                                              *)
(***************************************************************************)
EXTENDS OperationLine_proofs

\* Requests for a permit that have entered and not ended.
Engaged == {w \in Worker : pc[w] \in {"waiting", "late", "woken", "holding"}}

\* A device has one such request, whatever number of workers.
OneRequest == \A v, w \in Engaged : devOf[v] = devOf[w] => v = w

\* Who waits has its place in line, or something was left for it.
WaitHasPlace ==
  \A w \in Worker : pc[w] \in {"waiting", "late"} =>
    w \in InLineNow \/ devOf[w] \in handoff \cup cancelled \/ down

\* Whoever is in line waits, or is about to find that it waited too long; it
\* has not been signaled, and nothing is taken or left for its device.
LineWaits ==
  \A w \in InLineNow :
    /\ pc[w] \in {"waiting", "late"}
    /\ w \notin signaled
    /\ devOf[w] \notin heldDevices /\ devOf[w] \notin cancelled

\* Whoever was signaled, or woken, finds out why.
SignalHasReason ==
  /\ \A w \in signaled :
       /\ pc[w] \in {"waiting", "late"}
       /\ devOf[w] \in handoff \cup cancelled \/ down
  /\ \A w \in Worker :
       At(w, "woken") => devOf[w] \in handoff \cup cancelled \/ down

PermitInv ==
  /\ LineInv
  /\ PermitAccounting
  /\ EveryMarkHasReader
  /\ OneRequest
  /\ WaitHasPlace
  /\ LineWaits
  /\ SignalHasReason

-----------------------------------------------------------------------------
\* Facts of a state in the form the steps need them.
LEMMA PermitFacts ==
  ASSUME PermitInv
  PROVE  /\ TypeOK /\ LineInv
         /\ pc \in [Worker -> Places]
         /\ InLineNow \subseteq Worker
         /\ heldDevices \subseteq Device /\ IsFiniteSet(heldDevices)
         /\ handoff \subseteq heldDevices
         /\ held = Cardinality(heldDevices) /\ held \in Nat
         /\ \A d \in heldDevices : held > 0
         /\ \A w \in Worker : devOf[w] \in Device
         /\ \A d : InLine(d) <=> \E v \in InLineNow : devOf[v] = d
<1>1. TypeOK /\ LineInv /\ pc \in [Worker -> Places] /\ held \in Nat
  BY DEF PermitInv, LineInv, TypeOK
<1>2. held = Cardinality(heldDevices) /\ handoff \subseteq heldDevices
  BY DEF PermitInv, PermitAccounting
<1>3. heldDevices \subseteq Device /\ IsFiniteSet(heldDevices)
  BY <1>1, LineFacts
<1>4. \A d \in heldDevices : held > 0
  BY <1>1, <1>2, <1>3, FS_EmptySet
<1> QED  BY <1>1, <1>2, <1>3, <1>4, LineFacts

\* One slot less, and one device less that takes it.
LEMMA OneSlotBack ==
  ASSUME PermitInv, NEW d \in heldDevices
  PROVE  /\ LessOne(held) \in Nat
         /\ Cardinality(heldDevices \ {d}) = LessOne(held)
<1>1. IsFiniteSet(heldDevices) /\ held = Cardinality(heldDevices)
  BY PermitFacts
<1>2. Cardinality(heldDevices \ {d}) = held - 1
  BY <1>1, FS_RemoveElement
<1>3. held > 0 /\ held \in Nat
  BY PermitFacts
<1> QED  BY <1>2, <1>3 DEF LessOne

\* A device that acquire does not refuse, and that no unread cancellation is
\* left for, has no request yet.
LEMMA NewRequestIsAlone ==
  ASSUME PermitInv, NEW w \in Worker, ~Refused(w), devOf[w] \notin cancelled
  PROVE  \A v \in Engaged : devOf[v] # devOf[w]
<1> SUFFICES ASSUME NEW v \in Engaged, devOf[v] = devOf[w] PROVE FALSE
  OBVIOUS
<1>1. ~down /\ ~InLine(devOf[v]) /\ devOf[v] \notin heldDevices /\ v \in Worker
  BY DEF Refused, Engaged
<1>2. devOf[v] \notin handoff \cup cancelled
  BY <1>1, PermitFacts
<1>3. CASE pc[v] = "holding"
  BY <1>1, <1>3 DEF PermitInv, PermitAccounting, Holders, At
<1>4. CASE pc[v] = "woken"
  BY <1>1, <1>2, <1>4 DEF PermitInv, SignalHasReason, At
<1>5. CASE pc[v] \in {"waiting", "late"}
  <2>1. v \in InLineNow
    BY <1>1, <1>2, <1>5 DEF PermitInv, WaitHasPlace
  <2> QED  BY <1>1, <2>1, PermitFacts
<1> QED  BY <1>3, <1>4, <1>5 DEF Engaged

LEMMA NewRequestKeepsOne ==
  ASSUME PermitInv, NEW w \in Worker, ~Refused(w), devOf[w] \notin cancelled,
         Engaged' \subseteq Engaged \cup {w}
  PROVE  OneRequest'
<1>1. \A v \in Engaged : devOf[v] # devOf[w]
  BY NewRequestIsAlone
<1>2. \A u, v \in Engaged : devOf[u] = devOf[v] => u = v
  BY DEF PermitInv, OneRequest
<1> QED  BY <1>1, <1>2 DEF OneRequest

LEMMA FewerRequestsKeepOne ==
  ASSUME PermitInv, Engaged' \subseteq Engaged
  PROVE  OneRequest'
BY DEF PermitInv, OneRequest

\* A step of the request of a device is not about anybody else's.
LEMMA OthersElsewhere ==
  ASSUME PermitInv, NEW w \in Engaged
  PROVE  \A v \in Engaged : v # w => devOf[v] # devOf[w]
BY DEF PermitInv, OneRequest

-----------------------------------------------------------------------------
\* Steps that change a worker's place outside the scheduler, or its stage.
LEMMA OutsideStepKeepsInv ==
  ASSUME PermitInv, LineInv',
         UNCHANGED <<schedVars, signaled>>,
         \A v \in Worker :
           \/ pc'[v] = pc[v]
           \/ pc[v] \in {"idle", "wanting"} /\ pc'[v] \in {"idle", "wanting"}
  PROVE  PermitInv'
<1>1. UNCHANGED <<cap, held, heldDevices, handoff, cancelled, waiters, down, signaled>>
  BY DEF schedVars
<1>2. /\ \A v \in Worker : \A p \in {"waiting", "late", "woken", "holding"} :
           pc'[v] = p <=> pc[v] = p
      /\ InLineNow' = InLineNow
  BY <1>1 DEF InLineNow
<1>3. Holders' = Holders /\ Engaged' = Engaged
  BY <1>2 DEF Holders, Engaged, At
<1>4. PermitAccounting'
  BY <1>1, <1>3 DEF PermitInv, PermitAccounting
<1>5. EveryMarkHasReader'
  <2>1. \A w \in Worker : Reads(w) => Reads(w)'
    BY <1>1, <1>2 DEF Reads, At
  <2> QED  BY <1>1, <2>1 DEF PermitInv, EveryMarkHasReader
<1>6. OneRequest'
  BY <1>3, FewerRequestsKeepOne
<1>7. WaitHasPlace'
  BY <1>1, <1>2 DEF PermitInv, WaitHasPlace
<1>8. LineWaits'
  BY <1>1, <1>2, PermitFacts DEF PermitInv, LineWaits
<1>9. SignalHasReason'
  <2>1. \A w \in signaled : w \in Worker
    BY PermitFacts DEF TypeOK
  <2> QED  BY <1>1, <1>2, <2>1 DEF PermitInv, SignalHasReason, At
<1> QED  BY <1>4, <1>5, <1>6, <1>7, <1>8, <1>9 DEF PermitInv

LEMMA InitPermits == Init => PermitInv
<1> SUFFICES ASSUME Init PROVE PermitInv
  OBVIOUS
<1>1. LineInv
  BY InitLine
<1>2. PermitAccounting
  BY FS_EmptySet DEF Init, PermitAccounting, Holders, At
<1>3. EveryMarkHasReader
  BY DEF Init, EveryMarkHasReader
<1>4. OneRequest /\ WaitHasPlace
  BY DEF Init, OneRequest, WaitHasPlace, Engaged
<1>5. LineWaits /\ SignalHasReason
  BY DEF Init, LineWaits, SignalHasReason, InLineNow, At
<1> QED  BY <1>1, <1>2, <1>3, <1>4, <1>5 DEF PermitInv

-----------------------------------------------------------------------------
\* The request of worker v is where it will look for what was left for it,
\* before the promoted are signaled.
StillReads(v) == pc'[v] \in {"late", "woken"} \/ (pc'[v] = "waiting" /\ v \in signaled)

\* Steps that promote waiters keep the invariant, if it holds of the slots
\* hd and hand-overs ho they start from.
LEMMA PromoteKeepsInv ==
  ASSUME PermitInv, LineInv',
         NEW hd \in SUBSET heldDevices, NEW ho \in SUBSET handoff,
         NEW h \in Nat, Cardinality(hd) = h,
         Promote(h, hd, ho, cap'), down' = down, cancelled' \subseteq cancelled,
         Engaged' \subseteq Engaged,
         \A v \in InLineNow : pc'[v] = pc[v],
         \A v \in Worker : pc'[v] \in {"waiting", "late"} =>
           v \in InLineNow \/ devOf[v] \in ho \cup cancelled' \/ down,
         \A v \in signaled :
           pc'[v] = pc[v] /\ (devOf[v] \in ho \cup cancelled' \/ down),
         \A v \in Worker :
           pc'[v] = "woken" => devOf[v] \in ho \cup cancelled' \/ down,
         hd = {devOf[v] : v \in Holders'} \cup ho,
         \A v \in Holders' : devOf[v] \notin ho,
         \A d \in ho : \E v \in Worker : devOf[v] = d /\ StillReads(v),
         ~down => \A d \in cancelled' : \E v \in Worker : devOf[v] = d /\ StillReads(v)
  PROVE  PermitInv'
<1>1. cap' \in Nat
  BY ConstantsAssumption DEF LineInv, TypeOK
<1>2. PICK n \in 0..Len(waiters) : FrontPromoted(n, h, cap', hd, ho)
  BY <1>1, PermitFacts, PromoteTakesFront
<1> DEFINE new == DevicesOf(Front(n))
<1>3. /\ held' = h + n /\ heldDevices' = hd \cup new /\ handoff' = ho \cup new
      /\ signaled' = signaled \cup Front(n)
  BY <1>2 DEF FrontPromoted
<1>4. /\ Front(n) \subseteq InLineNow /\ InLineNow' = InLineNow \ Front(n)
  BY <1>2, PermitFacts, FrontLeaves DEF FrontPromoted
<1>5. \A v \in InLineNow :
        /\ v \in Worker /\ pc'[v] = pc[v]
        /\ pc[v] \in {"waiting", "late"} /\ v \notin signaled
        /\ devOf[v] \notin heldDevices /\ devOf[v] \notin cancelled
  BY PermitFacts DEF PermitInv, LineWaits
<1>6. \A d : d \in new <=> \E v \in Front(n) : d = devOf[v]
  BY DEF DevicesOf
<1>7. \A d \in new : d \notin heldDevices
  BY <1>4, <1>5, <1>6
<1> HIDE DEF new
<1>8. PermitAccounting'
  <2>1. held' = Cardinality(heldDevices')
    <3>1. IsFiniteSet(new) /\ Cardinality(new) = n /\ n \in Nat
      BY PermitFacts, FrontDevices DEF new
    <3>2. IsFiniteSet(hd)
      BY PermitFacts, FS_Subset
    <3>3. hd \cap new = {}
      BY <1>7
    <3>4. Cardinality(hd \cap new) = 0
      BY <3>3, FS_EmptySet
    <3>5. Cardinality(hd \cup new)
            = Cardinality(hd) + Cardinality(new) - Cardinality(hd \cap new)
      BY <3>1, <3>2, FS_Union
    <3> QED  BY <1>3, <3>1, <3>4, <3>5
  <2>2. heldDevices' = {devOf[v] : v \in Holders'} \cup handoff'
    BY <1>3
  <2>3. \A v \in Holders' : devOf[v] \notin handoff'
    BY <1>3, <1>7
  <2>4. \A v, w \in Holders' : devOf[v] = devOf[w] => v = w
    <3>1. Holders' \subseteq Engaged
      BY DEF Holders, Engaged, At
    <3> QED  BY <3>1 DEF PermitInv, OneRequest
  <2> QED  BY <2>1, <2>2, <2>3, <2>4 DEF PermitAccounting
<1>9. EveryMarkHasReader'
  <2>1. \A v \in Front(n) : v \in Worker /\ Reads(v)'
    BY <1>3, <1>4, <1>5 DEF Reads, At
  <2>2. \A v \in Worker : StillReads(v) => Reads(v)'
    BY <1>3 DEF StillReads, Reads, At
  <2>3. \A d \in handoff' : \E v \in Worker : devOf[v] = d /\ Reads(v)'
    BY <1>3, <1>6, <2>1, <2>2
  <2>4. ~down' => \A d \in cancelled' : \E v \in Worker : devOf[v] = d /\ Reads(v)'
    BY <2>2
  <2> QED  BY <2>3, <2>4 DEF EveryMarkHasReader
<1>10. OneRequest'
  BY FewerRequestsKeepOne
<1>11. WaitHasPlace'
  <2>1. \A v \in Front(n) : devOf[v] \in handoff'
    BY <1>3, <1>6
  <2> QED  BY <1>3, <1>4, <2>1 DEF WaitHasPlace
<1>12. LineWaits'
  <2>1. ASSUME NEW w \in InLineNow'
        PROVE  devOf[w] \notin new
    <3>1. w \in InLineNow /\ w \notin Front(n)
      BY <1>4
    <3> QED  BY <1>4, <1>6, <3>1, PermitFacts, LineFacts
  <2> QED  BY <1>3, <1>4, <1>5, <2>1 DEF LineWaits
<1>13. SignalHasReason'
  <2>1. ASSUME NEW w \in signaled'
        PROVE  /\ pc'[w] \in {"waiting", "late"}
               /\ devOf[w] \in handoff' \cup cancelled' \/ down'
    <3>1. CASE w \in signaled
      BY <1>3, <3>1 DEF PermitInv, SignalHasReason
    <3>2. CASE w \in Front(n)
      BY <1>3, <1>4, <1>5, <1>6, <3>2
    <3> QED  BY <1>3, <3>1, <3>2
  <2>2. \A w \in Worker :
          At(w, "woken")' => devOf[w] \in handoff' \cup cancelled' \/ down'
    BY <1>3 DEF At
  <2> QED  BY <2>1, <2>2 DEF SignalHasReason
<1> QED  BY <1>8, <1>9, <1>10, <1>11, <1>12, <1>13 DEF PermitInv

-----------------------------------------------------------------------------
\* One lemma for each step that is more than an outside step.

LEMMA TakeSlotKeepsInv ==
  ASSUME PermitInv, LineInv', NEW w \in Worker, TakeSlot(w),
         devOf[w] \notin cancelled
  PROVE  PermitInv'
<1> DEFINE d == devOf[w]
<1>1. /\ pc[w] = "wanting" /\ ~Refused(w) /\ d \notin heldDevices
      /\ waiters = <<>>
      /\ held' = held + 1 /\ heldDevices' = heldDevices \cup {d}
      /\ UNCHANGED <<handoff, cancelled, waiters, down, signaled>>
  BY DEF TakeSlot, Refused, SlotFree, At
<1>2. pc'[w] = "holding" /\ \A v \in Worker : v # w => pc'[v] = pc[v]
  BY PermitFacts, GotoKeepsPlaces, ThePlaces DEF TakeSlot
<1>3. PermitAccounting'
  <2>1. held' = Cardinality(heldDevices')
    <3>1. IsFiniteSet(heldDevices) /\ held = Cardinality(heldDevices)
      BY PermitFacts
    <3>2. Cardinality(heldDevices \cup {d}) = held + 1
      BY <1>1, <3>1, FS_AddElement
    <3> QED  BY <1>1, <3>2
  <2>2. Holders' = Holders \cup {w}
    BY <1>2 DEF Holders, At
  <2>3. d \notin handoff
    BY <1>1, PermitFacts
  <2>4. \A v \in Holders : devOf[v] # d
    BY <1>1 DEF PermitInv, PermitAccounting
  <2>5. heldDevices' = {devOf[v] : v \in Holders'} \cup handoff'
    BY <1>1, <2>2 DEF PermitInv, PermitAccounting
  <2>6. \A u, v \in Holders' : devOf[u] = devOf[v] => u = v
    BY <2>2, <2>4 DEF PermitInv, PermitAccounting
  <2>7. \A v \in Holders' : devOf[v] \notin handoff'
    BY <1>1, <2>2, <2>3 DEF PermitInv, PermitAccounting
  <2> QED  BY <2>1, <2>5, <2>6, <2>7 DEF PermitAccounting
<1>4. EveryMarkHasReader'
  <2>1. \A v \in Worker : Reads(v) => Reads(v)'
    BY <1>1, <1>2 DEF Reads, At
  <2> QED  BY <1>1, <2>1 DEF PermitInv, EveryMarkHasReader
<1>5. OneRequest'
  <2>1. Engaged' \subseteq Engaged \cup {w}
    BY <1>2 DEF Engaged
  <2> QED  BY <1>1, <2>1, NewRequestKeepsOne
<1>6. InLineNow = {} /\ InLineNow' = {}
  BY <1>1 DEF InLineNow
<1>7. WaitHasPlace'
  BY <1>1, <1>2, <1>6 DEF PermitInv, WaitHasPlace
<1>8. LineWaits'
  BY <1>6 DEF LineWaits
<1>9. SignalHasReason'
  <2>1. w \notin signaled /\ signaled \subseteq Worker
    BY <1>1, PermitFacts DEF PermitInv, SignalHasReason, TypeOK
  <2> QED  BY <1>1, <1>2, <2>1 DEF PermitInv, SignalHasReason, At
<1> QED  BY <1>3, <1>4, <1>5, <1>7, <1>8, <1>9 DEF PermitInv

LEMMA EnqueueKeepsInv ==
  ASSUME PermitInv, LineInv', NEW w \in Worker, Enqueue(w),
         devOf[w] \notin cancelled
  PROVE  PermitInv'
<1> DEFINE d == devOf[w]
<1>1. /\ pc[w] = "wanting" /\ ~Refused(w) /\ ~InLine(d) /\ d \notin heldDevices
      /\ waiters' = Append(waiters, w)
      /\ UNCHANGED <<held, heldDevices, handoff, cancelled, down, signaled>>
  BY DEF Enqueue, Enlist, Refused, At
<1>2. pc'[w] = "waiting" /\ \A v \in Worker : v # w => pc'[v] = pc[v]
  BY PermitFacts, GotoKeepsPlaces, ThePlaces DEF Enqueue
<1>3. InLineNow' = InLineNow \cup {w}
  BY <1>1, PermitFacts, JoiningKeepsLine DEF LineInv
<1>4. w \notin signaled /\ signaled \subseteq Worker /\ w \notin InLineNow
  BY <1>1, PermitFacts DEF PermitInv, SignalHasReason, TypeOK
<1>5. PermitAccounting'
  <2>1. Holders' = Holders
    BY <1>1, <1>2 DEF Holders, At
  <2> QED  BY <1>1, <2>1 DEF PermitInv, PermitAccounting
<1>6. EveryMarkHasReader'
  <2>1. \A v \in Worker : Reads(v) => Reads(v)'
    BY <1>1, <1>2 DEF Reads, At
  <2> QED  BY <1>1, <2>1 DEF PermitInv, EveryMarkHasReader
<1>7. OneRequest'
  <2>1. Engaged' \subseteq Engaged \cup {w}
    BY <1>2 DEF Engaged
  <2> QED  BY <1>1, <2>1, NewRequestKeepsOne
<1>8. WaitHasPlace'
  BY <1>1, <1>2, <1>3 DEF PermitInv, WaitHasPlace
<1>9. LineWaits'
  <2>1. \A v \in InLineNow : v \in Worker /\ v # w
    BY <1>4, PermitFacts
  <2> QED  BY <1>1, <1>2, <1>3, <1>4, <2>1 DEF PermitInv, LineWaits
<1>10. SignalHasReason'
  BY <1>1, <1>2, <1>4 DEF PermitInv, SignalHasReason, At
<1> QED  BY <1>5, <1>6, <1>7, <1>8, <1>9, <1>10 DEF PermitInv

LEMMA WakeKeepsInv ==
  ASSUME PermitInv, LineInv', NEW w \in Worker, Wake(w) \/ TimeOut(w)
  PROVE  PermitInv'
<1>1. /\ pc[w] = "waiting"
      /\ \/ w \in signaled /\ signaled' = signaled \ {w} /\ pc'[w] = "woken"
         \/ w \notin signaled /\ signaled' = signaled /\ pc'[w] = "late"
      /\ \A v \in Worker : v # w => pc'[v] = pc[v]
      /\ UNCHANGED <<held, heldDevices, handoff, cancelled, waiters, down>>
  BY PermitFacts, GotoKeepsPlaces, ThePlaces DEF Wake, TimeOut, At, schedVars
<1>2. InLineNow' = InLineNow
  BY <1>1 DEF InLineNow
<1>3. PermitAccounting'
  <2>1. Holders' = Holders
    BY <1>1 DEF Holders, At
  <2> QED  BY <1>1, <2>1 DEF PermitInv, PermitAccounting
<1>4. EveryMarkHasReader'
  <2>1. \A v \in Worker : Reads(v) => Reads(v)'
    BY <1>1 DEF Reads, At
  <2> QED  BY <1>1, <2>1 DEF PermitInv, EveryMarkHasReader
<1>5. OneRequest'
  <2>1. Engaged' \subseteq Engaged
    BY <1>1 DEF Engaged
  <2> QED  BY <2>1, FewerRequestsKeepOne
<1>6. WaitHasPlace'
  BY <1>1, <1>2 DEF PermitInv, WaitHasPlace
<1>7. LineWaits'
  <2>1. \A v \in InLineNow : v \in Worker /\ v \notin signaled
    BY PermitFacts DEF PermitInv, LineWaits
  <2> QED  BY <1>1, <1>2, <2>1 DEF PermitInv, LineWaits
<1>8. SignalHasReason'
  <2>1. signaled \subseteq Worker
    BY PermitFacts DEF TypeOK
  <2> QED  BY <1>1, <2>1 DEF PermitInv, SignalHasReason, At
<1> QED  BY <1>3, <1>4, <1>5, <1>6, <1>7, <1>8 DEF PermitInv

LEMMA CheckLateKeepsInv ==
  ASSUME PermitInv, LineInv', NEW w \in Worker, CheckLate(w)
  PROVE  PermitInv'
<1> DEFINE d == devOf[w]
<1>1. /\ pc[w] = "late" /\ signaled' = signaled \ {w}
      /\ \A v \in Worker : v # w => pc'[v] = pc[v]
      /\ UNCHANGED <<held, heldDevices, handoff, cancelled, down>>
  BY PermitFacts, GotoKeepsPlaces, ThePlaces, AfterwardsAPlace DEF CheckLate, At
<1>2. \/ /\ d \in handoff \cup cancelled \/ down
         /\ pc'[w] = "woken" /\ waiters' = waiters
      \/ /\ d \notin handoff \cup cancelled /\ ~down
         /\ pc'[w] \in {"idle", "wanting"} /\ waiters' = Without(d)
  BY PermitFacts, GotoKeepsPlaces, ThePlaces, AfterwardsAPlace
     DEF CheckLate, Overtaken
<1>3. w \in Engaged /\ \A v \in Engaged : v # w => devOf[v] # d
  <2>1. w \in Engaged
    BY <1>1 DEF Engaged
  <2> QED  BY <2>1, OthersElsewhere
<1>4. /\ InLineNow' \subseteq InLineNow /\ w \notin InLineNow'
      /\ \A v \in InLineNow : v # w => v \in InLineNow'
  <2>1. CASE waiters' = waiters /\ (d \in handoff \cup cancelled \/ down)
    <3>1. w \notin InLineNow
      BY <2>1, PermitFacts DEF PermitInv, LineInv, LineWaits, InLineNow
    <3> QED  BY <2>1, <3>1 DEF InLineNow
  <2>2. CASE waiters' = Without(d)
    <3>1. InLineNow' = {v \in InLineNow : devOf[v] # d}
      BY <2>2, PermitFacts, WithoutKeepsOrder
    <3>2. \A v \in InLineNow : v \in Engaged
      BY PermitFacts DEF PermitInv, LineWaits, Engaged
    <3> QED  BY <1>3, <3>1, <3>2
  <2> QED  BY <1>2, <2>1, <2>2
<1>5. PermitAccounting'
  <2>1. Holders' = Holders
    BY <1>1, <1>2 DEF Holders, At
  <2> QED  BY <1>1, <2>1 DEF PermitInv, PermitAccounting
<1>6. EveryMarkHasReader'
  <2>1. \A v \in Worker : v # w /\ Reads(v) => Reads(v)'
    BY <1>1 DEF Reads, At
  <2>2. d \in handoff \cup cancelled \/ down => Reads(w)'
    BY <1>2 DEF Reads, At
  <2>3. \A v \in Worker :
          Reads(v) /\ devOf[v] \in handoff \cup cancelled => Reads(v)'
    BY <2>1, <2>2
  <2> QED  BY <1>1, <2>3 DEF PermitInv, EveryMarkHasReader
<1>7. OneRequest'
  <2>1. Engaged' \subseteq Engaged
    BY <1>1, <1>3 DEF Engaged
  <2> QED  BY <2>1, FewerRequestsKeepOne
<1>8. WaitHasPlace'
  BY <1>1, <1>2, <1>4 DEF PermitInv, WaitHasPlace
<1>9. LineWaits'
  <2>1. \A v \in InLineNow' : v \in InLineNow /\ v # w /\ v \in Worker
    BY <1>4, PermitFacts
  <2> QED  BY <1>1, <2>1 DEF PermitInv, LineWaits
<1>10. SignalHasReason'
  <2>1. signaled \subseteq Worker
    BY PermitFacts DEF TypeOK
  <2> QED  BY <1>1, <1>2, <2>1 DEF PermitInv, SignalHasReason, At
<1> QED  BY <1>5, <1>6, <1>7, <1>8, <1>9, <1>10 DEF PermitInv

LEMMA ResolveShutdownKeepsInv ==
  ASSUME PermitInv, LineInv', NEW w \in Worker, ResolveShutdown(w)
  PROVE  PermitInv'
<1> DEFINE d == devOf[w]
<1>1. /\ pc[w] = "woken" /\ down
      /\ held' = GivenBack(d) /\ handoff' = handoff \ {d}
      /\ heldDevices' = IF d \in handoff THEN heldDevices \ {d} ELSE heldDevices
      /\ UNCHANGED <<cancelled, waiters, down, signaled>>
  BY DEF ResolveShutdown, At
<1>2. pc'[w] = "idle" /\ \A v \in Worker : v # w => pc'[v] = pc[v]
  BY PermitFacts, GotoKeepsPlaces, ThePlaces DEF ResolveShutdown
<1>3. waiters = <<>> /\ waiters' = <<>> /\ InLineNow' = {}
  BY <1>1 DEF PermitInv, LineInv, InLineNow
<1>4. PermitAccounting'
  <2>1. held' = Cardinality(heldDevices')
    BY <1>1, PermitFacts, OneSlotBack DEF GivenBack
  <2>2. Holders' = Holders
    BY <1>1, <1>2 DEF Holders, At
  <2>3. heldDevices' = {devOf[v] : v \in Holders'} \cup handoff'
    BY <1>1, <2>2 DEF PermitInv, PermitAccounting
  <2> QED  BY <1>1, <2>1, <2>2, <2>3 DEF PermitInv, PermitAccounting
<1>5. EveryMarkHasReader'
  <2>1. \A v \in Worker : devOf[v] # d /\ Reads(v) => Reads(v)'
    BY <1>1, <1>2 DEF Reads, At
  <2> QED  BY <1>1, <2>1 DEF PermitInv, EveryMarkHasReader
<1>6. OneRequest'
  <2>1. Engaged' \subseteq Engaged
    BY <1>2 DEF Engaged
  <2> QED  BY <2>1, FewerRequestsKeepOne
<1>7. WaitHasPlace'
  BY <1>1 DEF WaitHasPlace
<1>8. LineWaits'
  BY <1>3 DEF LineWaits
<1>9. SignalHasReason'
  <2>1. w \notin signaled /\ signaled \subseteq Worker
    BY <1>1, PermitFacts DEF PermitInv, SignalHasReason, TypeOK
  <2> QED  BY <1>1, <1>2, <2>1 DEF PermitInv, SignalHasReason, At
<1> QED  BY <1>4, <1>5, <1>6, <1>7, <1>8, <1>9 DEF PermitInv

LEMMA ResolveGrantKeepsInv ==
  ASSUME PermitInv, LineInv', NEW w \in Worker, ResolveGrant(w)
  PROVE  PermitInv'
<1> DEFINE d == devOf[w]
<1>1. /\ pc[w] = "woken" /\ ~down /\ d \notin cancelled
      /\ handoff' = handoff \ {d}
      /\ UNCHANGED <<held, heldDevices, cancelled, waiters, down, signaled>>
  BY DEF ResolveGrant, Completes, At
<1>2. pc'[w] = "holding" /\ \A v \in Worker : v # w => pc'[v] = pc[v]
  BY PermitFacts, GotoKeepsPlaces, ThePlaces DEF ResolveGrant
<1>3. d \in handoff
  BY <1>1 DEF PermitInv, SignalHasReason, At
<1>4. w \in Engaged /\ \A v \in Engaged : v # w => devOf[v] # d
  <2>1. w \in Engaged
    BY <1>1 DEF Engaged
  <2> QED  BY <2>1, OthersElsewhere
<1>5. OneRequest'
  <2>1. Engaged' \subseteq Engaged
    BY <1>2, <1>4 DEF Engaged
  <2> QED  BY <2>1, FewerRequestsKeepOne
<1>6. PermitAccounting'
  <2>1. Holders' = Holders \cup {w}
    BY <1>2 DEF Holders, At
  <2>2. heldDevices' = {devOf[v] : v \in Holders'} \cup handoff'
    BY <1>1, <1>3, <2>1 DEF PermitInv, PermitAccounting
  <2>3. \A v \in Holders' : devOf[v] \notin handoff'
    BY <1>1, <2>1 DEF PermitInv, PermitAccounting
  <2>4. Holders' \subseteq Engaged'
    BY DEF Holders, Engaged, At
  <2>5. \A u, v \in Holders' : devOf[u] = devOf[v] => u = v
    BY <1>5, <2>4 DEF OneRequest
  <2> QED  BY <1>1, <2>2, <2>3, <2>5 DEF PermitInv, PermitAccounting
<1>7. EveryMarkHasReader'
  <2>1. \A v \in Worker : devOf[v] # d /\ Reads(v) => Reads(v)'
    BY <1>1, <1>2 DEF Reads, At
  <2> QED  BY <1>1, <2>1 DEF PermitInv, EveryMarkHasReader
<1>8. InLineNow' = InLineNow
  BY <1>1 DEF InLineNow
<1>9. WaitHasPlace'
  <2> SUFFICES ASSUME NEW v \in Worker, pc'[v] \in {"waiting", "late"}
               PROVE  v \in InLineNow' \/ devOf[v] \in handoff' \cup cancelled'
    BY DEF WaitHasPlace
  <2>1. v # w /\ pc[v] \in {"waiting", "late"} /\ v \in Engaged
    BY <1>2 DEF Engaged
  <2>2. v \in InLineNow \/ devOf[v] \in handoff \cup cancelled
    BY <1>1, <2>1 DEF PermitInv, WaitHasPlace
  <2> QED  BY <1>1, <1>4, <1>8, <2>1, <2>2
<1>10. LineWaits'
  <2>1. \A v \in InLineNow : v \in Worker /\ v # w
    BY <1>1, PermitFacts DEF PermitInv, LineWaits
  <2> QED  BY <1>1, <1>2, <1>8, <2>1 DEF PermitInv, LineWaits
<1>11. SignalHasReason'
  <2>1. \A v \in signaled : v \in Worker /\ v # w /\ v \in Engaged
    BY <1>1, PermitFacts DEF PermitInv, SignalHasReason, TypeOK, Engaged
  <2>2. \A v \in Worker : v # w /\ pc[v] = "woken" => v \in Engaged
    BY DEF Engaged
  <2> QED  BY <1>1, <1>2, <1>4, <2>1, <2>2 DEF PermitInv, SignalHasReason, At
<1> QED  BY <1>5, <1>6, <1>7, <1>9, <1>10, <1>11 DEF PermitInv

LEMMA ResolveCancelKeepsInv ==
  ASSUME PermitInv, LineInv', NEW w \in Worker, ResolveCancel(w)
  PROVE  PermitInv'
<1> DEFINE d == devOf[w]
<1>1. /\ pc[w] = "woken" /\ ~down /\ d \in cancelled
      /\ cancelled' = cancelled \ {d} /\ down' = down /\ cap' = cap
  BY DEF ResolveCancel, At
<1>2. pc'[w] \in {"idle", "wanting"} /\ \A v \in Worker : v # w => pc'[v] = pc[v]
  BY PermitFacts, GotoKeepsPlaces, ThePlaces, AfterwardsAPlace DEF ResolveCancel
<1>3. w \in Engaged /\ \A v \in Engaged : v # w => devOf[v] # d
  <2>1. w \in Engaged
    BY <1>1 DEF Engaged
  <2> QED  BY <2>1, OthersElsewhere
<1>4. Holders' = Holders /\ Engaged' \subseteq Engaged
  BY <1>1, <1>2 DEF Holders, Engaged, At
<1>5. /\ w \notin signaled /\ w \notin InLineNow
      /\ signaled \subseteq Worker /\ InLineNow \subseteq Worker
  BY <1>1, PermitFacts DEF PermitInv, LineWaits, SignalHasReason, TypeOK
<1>6. \A v \in Worker : pc'[v] \in {"waiting", "late", "woken"} =>
        v # w /\ pc[v] = pc'[v] /\ devOf[v] # d
  BY <1>2, <1>3 DEF Engaged
<1>7. \A v \in signaled : v \in Worker /\ v # w /\ pc'[v] = pc[v] /\ devOf[v] # d
  <2>1. \A v \in signaled : pc[v] \in {"waiting", "late"}
    BY DEF PermitInv, SignalHasReason
  <2> QED  BY <1>2, <1>3, <1>5, <2>1 DEF Engaged
<1>8. \A v \in Worker : devOf[v] # d /\ Reads(v) => StillReads(v)
  BY <1>2 DEF Reads, StillReads, At
<1>9. CASE d \in handoff
  <2> DEFINE hd == heldDevices \ {d}
             ho == handoff \ {d}
  <2>1. Promote(LessOne(held), hd, ho, cap')
    BY <1>9 DEF ResolveCancel, GivenBack
  <2>2. /\ hd \in SUBSET heldDevices /\ ho \in SUBSET handoff
        /\ LessOne(held) \in Nat /\ Cardinality(hd) = LessOne(held)
    BY <1>9, PermitFacts, OneSlotBack
  <2>3. /\ hd = {devOf[v] : v \in Holders'} \cup ho
        /\ \A v \in Holders' : devOf[v] \notin ho
    BY <1>4, <1>9 DEF PermitInv, PermitAccounting
  <2>4. \A v \in InLineNow : pc'[v] = pc[v]
    BY <1>2, <1>5
  <2>5. \A v \in Worker : pc'[v] \in {"waiting", "late"} =>
          v \in InLineNow \/ devOf[v] \in ho \cup cancelled' \/ down
    BY <1>1, <1>6 DEF PermitInv, WaitHasPlace
  <2>6. \A v \in signaled :
          pc'[v] = pc[v] /\ (devOf[v] \in ho \cup cancelled' \/ down)
    BY <1>1, <1>7 DEF PermitInv, SignalHasReason
  <2>7. \A v \in Worker :
          pc'[v] = "woken" => devOf[v] \in ho \cup cancelled' \/ down
    BY <1>1, <1>6 DEF PermitInv, SignalHasReason, At
  <2>8. \A e \in ho \cup cancelled' : \E v \in Worker : devOf[v] = e /\ StillReads(v)
    BY <1>1, <1>8 DEF PermitInv, EveryMarkHasReader
  <2>9. cancelled' \subseteq cancelled
    BY <1>1
  <2> HIDE DEF hd, ho
  <2> QED  BY <1>1, <1>4, <2>1, <2>2, <2>3, <2>4, <2>5, <2>6, <2>7, <2>8, <2>9,
              PromoteKeepsInv
<1>10. CASE d \notin handoff
  <2>1. UNCHANGED <<held, heldDevices, handoff, waiters, signaled>>
    BY <1>10 DEF ResolveCancel
  <2>2. PermitAccounting'
    BY <1>4, <2>1 DEF PermitInv, PermitAccounting
  <2>3. EveryMarkHasReader'
    <3>1. \A v \in Worker : devOf[v] # d /\ Reads(v) => Reads(v)'
      BY <1>8, <2>1 DEF Reads, StillReads, At
    <3> QED  BY <1>1, <1>10, <2>1, <3>1 DEF PermitInv, EveryMarkHasReader
  <2>4. InLineNow' = InLineNow
    BY <2>1 DEF InLineNow
  <2>5. WaitHasPlace'
    BY <1>1, <1>6, <2>1, <2>4 DEF PermitInv, WaitHasPlace
  <2>6. LineWaits'
    <3>1. \A v \in InLineNow : pc'[v] = pc[v]
      BY <1>2, <1>5
    <3> QED  BY <1>1, <2>1, <2>4, <3>1 DEF PermitInv, LineWaits
  <2>7. SignalHasReason'
    BY <1>1, <1>6, <1>7, <2>1 DEF PermitInv, SignalHasReason, At
  <2>8. OneRequest'
    BY <1>4, FewerRequestsKeepOne
  <2> QED  BY <2>2, <2>3, <2>5, <2>6, <2>7, <2>8 DEF PermitInv
<1> QED  BY <1>9, <1>10

LEMMA ReleaseKeepsInv ==
  ASSUME PermitInv, LineInv', NEW w \in Worker, Release(w)
  PROVE  PermitInv'
<1> DEFINE d == devOf[w]
           hd == heldDevices \ {d}
<1>1. /\ pc[w] = "holding" /\ Promote(LessOne(held), hd, handoff, cap')
      /\ UNCHANGED <<cap, cancelled, down>>
  BY DEF Release, At
<1>2. pc'[w] = "idle" /\ \A v \in Worker : v # w => pc'[v] = pc[v]
  BY PermitFacts, GotoKeepsPlaces, ThePlaces DEF Release
<1>3. w \in Holders /\ d \in heldDevices /\ d \notin handoff
  BY <1>1 DEF Holders, At, PermitInv, PermitAccounting
<1>4. Holders' = Holders \ {w} /\ Engaged' \subseteq Engaged
  BY <1>2 DEF Holders, Engaged, At
<1>5. /\ w \notin signaled /\ w \notin InLineNow
      /\ signaled \subseteq Worker /\ InLineNow \subseteq Worker
  BY <1>1, PermitFacts DEF PermitInv, LineWaits, SignalHasReason, TypeOK
<1>6. /\ hd \in SUBSET heldDevices /\ handoff \in SUBSET handoff
      /\ LessOne(held) \in Nat /\ Cardinality(hd) = LessOne(held)
  BY <1>3, PermitFacts, OneSlotBack
<1>7. /\ hd = {devOf[v] : v \in Holders'} \cup handoff
      /\ \A v \in Holders' : devOf[v] \notin handoff
  <2>1. \A v \in Holders : v # w => devOf[v] # d
    BY <1>3 DEF PermitInv, PermitAccounting
  <2> QED  BY <1>3, <1>4, <2>1 DEF PermitInv, PermitAccounting
<1>8. \A v \in InLineNow : pc'[v] = pc[v]
  BY <1>2, <1>5
<1>9. \A v \in Worker : pc'[v] \in {"waiting", "late", "woken"} => pc[v] = pc'[v]
  BY <1>2
<1>10. \A v \in Worker : pc'[v] \in {"waiting", "late"} =>
         v \in InLineNow \/ devOf[v] \in handoff \cup cancelled' \/ down
  BY <1>1, <1>9 DEF PermitInv, WaitHasPlace
<1>11. \A v \in signaled :
         pc'[v] = pc[v] /\ (devOf[v] \in handoff \cup cancelled' \/ down)
  BY <1>1, <1>2, <1>5 DEF PermitInv, SignalHasReason
<1>12. \A v \in Worker :
         pc'[v] = "woken" => devOf[v] \in handoff \cup cancelled' \/ down
  BY <1>1, <1>9 DEF PermitInv, SignalHasReason, At
<1>13. /\ \A e \in handoff : \E v \in Worker : devOf[v] = e /\ StillReads(v)
       /\ ~down => \A e \in cancelled' : \E v \in Worker : devOf[v] = e /\ StillReads(v)
  <2>1. \A v \in Worker : Reads(v) => StillReads(v)
    BY <1>1, <1>2 DEF Reads, StillReads, At
  <2> QED  BY <1>1, <2>1 DEF PermitInv, EveryMarkHasReader
<1>14. down' = down /\ cancelled' \subseteq cancelled
  BY <1>1
<1> HIDE DEF hd
<1> QED  BY <1>1, <1>4, <1>6, <1>7, <1>8, <1>10, <1>11, <1>12, <1>13, <1>14,
            PromoteKeepsInv

LEMMA SetCapKeepsInv ==
  ASSUME PermitInv, LineInv', NEW n \in Caps \cup {0}, SetCap(n)
  PROVE  PermitInv'
<1>1. /\ Promote(held, heldDevices, handoff, cap')
      /\ cancelled' = cancelled /\ down' = down /\ pc' = pc
  BY DEF SetCap
<1>2. Holders' = Holders /\ Engaged' \subseteq Engaged
  BY <1>1 DEF Holders, Engaged, At
<1>3. /\ heldDevices = {devOf[v] : v \in Holders'} \cup handoff
      /\ \A v \in Holders' : devOf[v] \notin handoff
  BY <1>2 DEF PermitInv, PermitAccounting
<1>4. \A v \in Worker : pc'[v] \in {"waiting", "late"} =>
        v \in InLineNow \/ devOf[v] \in handoff \cup cancelled' \/ down
  BY <1>1 DEF PermitInv, WaitHasPlace
<1>5. /\ \A v \in signaled : devOf[v] \in handoff \cup cancelled' \/ down
      /\ \A v \in Worker :
           pc'[v] = "woken" => devOf[v] \in handoff \cup cancelled' \/ down
  BY <1>1 DEF PermitInv, SignalHasReason, At
<1>6. /\ \A e \in handoff : \E v \in Worker : devOf[v] = e /\ StillReads(v)
      /\ ~down => \A e \in cancelled' : \E v \in Worker : devOf[v] = e /\ StillReads(v)
  BY <1>1 DEF PermitInv, EveryMarkHasReader, Reads, StillReads, At
<1>7. /\ held \in Nat /\ Cardinality(heldDevices) = held
      /\ heldDevices \in SUBSET heldDevices /\ handoff \in SUBSET handoff
      /\ cancelled' \subseteq cancelled
      /\ \A v : pc'[v] = pc[v]
  BY <1>1, PermitFacts
<1> QED  BY <1>1, <1>2, <1>3, <1>4, <1>5, <1>6, <1>7, PromoteKeepsInv

LEMMA CancelDeviceKeepsInv ==
  ASSUME PermitInv, LineInv', NEW w \in Worker, CancelDevice(w)
  PROVE  PermitInv'
<1> DEFINE d == devOf[w]
           hit == {v \in InLineNow : devOf[v] = d}
<1>1. /\ waiters' = Without(d) /\ signaled' = signaled \cup hit
      /\ cancelled' = IF InLine(d) \/ d \in handoff THEN cancelled \cup {d}
                                                   ELSE cancelled
      /\ UNCHANGED <<held, heldDevices, handoff, down, pc>>
  BY DEF CancelDevice, CancelHits
<1>2. InLineNow' = {v \in InLineNow : devOf[v] # d}
  BY <1>1, PermitFacts, WithoutKeepsOrder
<1>3. InLine(d) <=> hit # {}
  BY PermitFacts
<1>4. \A v \in hit : v \in Worker /\ devOf[v] = d /\ pc[v] \in {"waiting", "late"}
  BY PermitFacts DEF PermitInv, LineWaits
<1>5. /\ cancelled \subseteq cancelled' /\ cancelled' \subseteq cancelled \cup {d}
      /\ hit # {} => d \in cancelled'
      /\ d \in cancelled' => d \in cancelled \cup handoff \/ hit # {}
  BY <1>1, <1>3
<1> HIDE DEF hit
<1>6. Holders' = Holders /\ Engaged' \subseteq Engaged
  BY <1>1 DEF Holders, Engaged, At
<1>7. PermitAccounting'
  BY <1>1, <1>6 DEF PermitInv, PermitAccounting
<1>8. EveryMarkHasReader'
  <2>1. \A v \in Worker : Reads(v) => Reads(v)'
    BY <1>1 DEF Reads, At
  <2>2. \A v \in hit : Reads(v)'
    BY <1>1, <1>4 DEF Reads, At
  <2>3. \A e \in handoff' : \E v \in Worker : devOf[v] = e /\ Reads(v)'
    BY <1>1, <2>1 DEF PermitInv, EveryMarkHasReader
  <2>4. ASSUME ~down', NEW e \in cancelled'
        PROVE  \E v \in Worker : devOf[v] = e /\ Reads(v)'
    <3>1. CASE e \in cancelled \cup handoff
      BY <1>1, <2>1, <2>4, <3>1 DEF PermitInv, EveryMarkHasReader
    <3>2. CASE e = d /\ hit # {}
      BY <1>4, <2>2, <3>2
    <3> QED  BY <1>5, <2>4, <3>1, <3>2
  <2> QED  BY <2>3, <2>4 DEF EveryMarkHasReader
<1>9. OneRequest'
  BY <1>6, FewerRequestsKeepOne
<1>10. WaitHasPlace'
  <2>1. \A v \in InLineNow : v \in InLineNow' \/ devOf[v] \in cancelled'
    BY <1>2, <1>5 DEF hit
  <2> QED  BY <1>1, <1>5, <2>1 DEF PermitInv, WaitHasPlace
<1>11. LineWaits'
  <2>1. \A v \in InLineNow' : v \in InLineNow /\ devOf[v] # d /\ v \notin hit
    BY <1>2 DEF hit
  <2> QED  BY <1>1, <1>5, <2>1 DEF PermitInv, LineWaits
<1>12. SignalHasReason'
  BY <1>1, <1>4, <1>5 DEF PermitInv, SignalHasReason, At
<1> QED  BY <1>7, <1>8, <1>9, <1>10, <1>11, <1>12 DEF PermitInv

LEMMA ShutdownKeepsInv ==
  ASSUME PermitInv, LineInv', Shutdown
  PROVE  PermitInv'
<1>1. /\ down' = TRUE /\ waiters' = <<>>
      /\ signaled' = signaled \cup InLineNow
      /\ UNCHANGED <<held, heldDevices, handoff, cancelled, pc>>
  BY DEF Shutdown
<1>2. InLineNow' = {}
  BY <1>1 DEF InLineNow
<1>3. Holders' = Holders /\ Engaged' \subseteq Engaged
  BY <1>1 DEF Holders, Engaged, At
<1>4. PermitAccounting'
  BY <1>1, <1>3 DEF PermitInv, PermitAccounting
<1>5. EveryMarkHasReader'
  <2>1. \A v \in Worker : Reads(v) => Reads(v)'
    BY <1>1 DEF Reads, At
  <2> QED  BY <1>1, <2>1 DEF PermitInv, EveryMarkHasReader
<1>6. OneRequest'
  BY <1>3, FewerRequestsKeepOne
<1>7. WaitHasPlace' /\ LineWaits'
  BY <1>1, <1>2 DEF WaitHasPlace, LineWaits
<1>8. SignalHasReason'
  BY <1>1 DEF PermitInv, LineWaits, SignalHasReason, At
<1> QED  BY <1>4, <1>5, <1>6, <1>7, <1>8 DEF PermitInv

LEMMA NextKeepsInv ==
  ASSUME PermitInv, [Next]_vars, [CancelsRead]_vars
  PROVE  PermitInv'
<1>1. LineInv'
  BY PermitFacts, LineStep
<1>2. CASE UNCHANGED vars
  BY <1>1, <1>2, OutsideStepKeepsInv DEF vars
<1>3. ASSUME NEW w \in Worker,
             BeginStep(w) \/ NextJob(w) \/ GiveUp(w) \/ Refuse(w) \/ RequestAbort(w)
      PROVE  PermitInv'
  <2>1. UNCHANGED <<schedVars, signaled>>
    BY <1>3 DEF BeginStep, NextJob, GiveUp, Refuse, RequestAbort
  <2>2. \A v \in Worker :
          \/ pc'[v] = pc[v]
          \/ pc[v] \in {"idle", "wanting"} /\ pc'[v] \in {"idle", "wanting"}
    BY <1>3, PermitFacts, GotoKeepsPlaces, ThePlaces
       DEF BeginStep, NextJob, GiveUp, Refuse, RequestAbort, At
  <2> QED  BY <1>1, <2>1, <2>2, OutsideStepKeepsInv
<1>4. ASSUME NEW w \in Worker, TakeSlot(w) \/ Enqueue(w), ~UNCHANGED vars
      PROVE  PermitInv'
  <2>1. devOf[w] \notin cancelled
    BY <1>4 DEF CancelsRead
  <2> QED  BY <1>1, <1>4, <2>1, TakeSlotKeepsInv, EnqueueKeepsInv
<1>5. ASSUME NEW w \in Worker, Wake(w) \/ TimeOut(w) \/ CheckLate(w)
      PROVE  PermitInv'
  BY <1>1, <1>5, WakeKeepsInv, CheckLateKeepsInv
<1>6. ASSUME NEW w \in Worker, Resolve(w)
      PROVE  PermitInv'
  BY <1>1, <1>6, ResolveShutdownKeepsInv, ResolveCancelKeepsInv,
     ResolveGrantKeepsInv DEF Resolve
<1>7. ASSUME NEW w \in Worker, Release(w) \/ CancelDevice(w)
      PROVE  PermitInv'
  BY <1>1, <1>7, ReleaseKeepsInv, CancelDeviceKeepsInv
<1>8. ASSUME NEW n \in Caps \cup {0}, SetCap(n)
      PROVE  PermitInv'
  BY <1>1, <1>8, SetCapKeepsInv
<1>9. CASE Shutdown
  BY <1>1, <1>9, ShutdownKeepsInv
<1> QED  BY <1>2, <1>3, <1>4, <1>5, <1>6, <1>7, <1>8, <1>9 DEF Next, Acquire

\* With one worker per device, whoever asks for a permit has itself read the
\* cancellation of its last request.
LEMMA OneWorkerReadsCancels ==
  ASSUME PermitInv, OneWorkerPerDevice
  PROVE  CancelsRead
<1> SUFFICES ASSUME NEW w \in Worker, TakeSlot(w) \/ Enqueue(w),
                    devOf[w] \in cancelled
             PROVE  FALSE
  BY DEF CancelsRead
<1>1. pc[w] = "wanting" /\ ~down
  BY DEF TakeSlot, Enqueue, Refused, At
<1>2. PICK v \in Worker : devOf[v] = devOf[w] /\ Reads(v)
  BY <1>1 DEF PermitInv, EveryMarkHasReader
<1>3. v = w
  BY <1>2 DEF OneWorkerPerDevice
<1> QED  BY <1>1, <1>2, <1>3 DEF Reads, At

-----------------------------------------------------------------------------
\* The inductive invariant of the slots, whoever else works on a device, as
\* long as acquire meets no unread cancellation of it.
THEOREM PermitsCorrect == Spec /\ NoRequestBesideCancel => []PermitInv
<1>1. PermitInv /\ [Next]_vars /\ [CancelsRead]_vars => PermitInv'
  BY NextKeepsInv
<1> QED  BY InitPermits, <1>1, PTL DEF Spec, NoRequestBesideCancel

\* Slots, held devices, hand-overs and running steps always agree, so that no
\* permit is lost and none is given out twice (OperationScheduler).
THEOREM SlotsAgree == Spec /\ NoRequestBesideCancel => []PermitAccounting
<1>1. PermitInv => PermitAccounting
  BY DEF PermitInv
<1> QED  BY <1>1, PermitsCorrect, PTL

\* A hand-over or cancellation is read by the request it was left for
\* (acquire after event.wait, cancel_device).
THEOREM MarksAreRead == Spec /\ NoRequestBesideCancel => []EveryMarkHasReader
<1>1. PermitInv => EveryMarkHasReader
  BY DEF PermitInv
<1> QED  BY <1>1, PermitsCorrect, PTL

\* With one worker per device no request enters beside an unread cancellation
\* (the retry loop of the step runner calls acquire again only after acquire
\* has returned).
THEOREM OneWorkerSuffices ==
  ASSUME OneWorkerPerDevice
  PROVE  Spec => []PermitInv /\ NoRequestBesideCancel
<1>1. PermitInv => CancelsRead
  BY OneWorkerReadsCancels
<1>2. PermitInv /\ [Next]_vars => PermitInv'
  BY OneWorkerReadsCancels, NextKeepsInv
<1> QED  BY InitPermits, <1>1, <1>2, PTL DEF Spec, NoRequestBesideCancel

-----------------------------------------------------------------------------
\* The pool counts as the scheduler does.
LEMMA SameCount == \A S : Pool!Cardinality(S) = Cardinality(S)
BY DEF Pool!Cardinality, Cardinality, Pool!IsFiniteSet, IsFiniteSet

\* A step in which some device leaves and others enter is one of the pool.
LEMMA PassWitness ==
  ASSUME NEW out, NEW new, out \subseteq heldDevices, Cardinality(out) <= 1,
         new \subseteq Device, new \cap heldDevices = {}, cap' = cap,
         heldDevices' = (heldDevices \ out) \cup new,
         heldDevices' \subseteq heldDevices \/ Cardinality(heldDevices') <= cap
  PROVE  Pool!Pass
<1>1. out \in SUBSET heldDevices /\ new \in SUBSET (Device \ heldDevices)
  OBVIOUS
<1>2. \E o \in SUBSET heldDevices, e \in SUBSET (Device \ heldDevices) :
        /\ Cardinality(o) <= 1
        /\ heldDevices' = (heldDevices \ o) \cup e
  <2>1. WITNESS out \in SUBSET heldDevices, new \in SUBSET (Device \ heldDevices)
  <2> QED  OBVIOUS
<1> QED  BY <1>2, SameCount DEF Pool!Pass

\* What promoting does to the set of devices that hold a slot.
LEMMA PromoteEnters ==
  ASSUME PermitInv, NEW hd \in SUBSET heldDevices, NEW h \in Nat, NEW ho,
         NEW c \in Nat, Promote(h, hd, ho, c)
  PROVE  \E new \in SUBSET Device :
           /\ new \cap heldDevices = {}
           /\ heldDevices' = hd \cup new
           /\ new = {} \/ held' <= c
<1>1. PICK n \in 0..Len(waiters) : FrontPromoted(n, h, c, hd, ho)
  BY PermitFacts, PromoteTakesFront
<1> DEFINE new == DevicesOf(Front(n))
<1>2. new \subseteq Device
  BY PermitFacts, FrontDevices
<1>3. new \cap heldDevices = {}
  <2>1. Front(n) \subseteq InLineNow
    BY <1>1, PermitFacts, FrontLeaves DEF FrontPromoted
  <2> QED  BY <2>1 DEF PermitInv, LineWaits, DevicesOf
<1>4. heldDevices' = hd \cup new
  BY <1>1 DEF FrontPromoted
<1>5. new = {} \/ held' <= c
  <2>1. CASE n = 0
    BY <2>1 DEF Front, DevicesOf
  <2>2. CASE n > 0
    BY <1>1, <2>2 DEF FrontPromoted
  <2> QED  BY <2>1, <2>2
<1> HIDE DEF new
<1> QED  BY <1>2, <1>3, <1>4, <1>5

\* A step that gives a slot back and promotes waiters is one of the pool.
LEMMA PromoteIsPass ==
  ASSUME PermitInv, PermitInv', cap' = cap, NEW d \in heldDevices,
         NEW ho, Promote(LessOne(held), heldDevices \ {d}, ho, cap)
  PROVE  Pool!Pass
<1> DEFINE hd == heldDevices \ {d}
<1>1. /\ LessOne(held) \in Nat /\ hd \in SUBSET heldDevices /\ cap \in Nat
  BY OneSlotBack, PermitFacts, ConstantsAssumption DEF TypeOK
<1>2. Promote(LessOne(held), hd, ho, cap)
  OBVIOUS
<1> HIDE DEF hd
<1>3. PICK new \in SUBSET Device :
        /\ new \cap heldDevices = {}
        /\ heldDevices' = hd \cup new
        /\ new = {} \/ held' <= cap
  BY <1>1, <1>2, PromoteEnters
<1>4. held' = Cardinality(heldDevices')
  BY DEF PermitInv, PermitAccounting
<1>5. {d} \subseteq heldDevices /\ Cardinality({d}) <= 1
  <2>1. Cardinality({d}) = 1
    BY FS_Singleton
  <2> QED  BY <2>1
<1>6. heldDevices' = (heldDevices \ {d}) \cup new
  BY <1>3 DEF hd
<1>7. heldDevices' \subseteq heldDevices \/ Cardinality(heldDevices') <= cap
  BY <1>1, <1>3, <1>4
<1> QED  BY <1>3, <1>5, <1>6, <1>7, PassWitness

LEMMA StepIsPoolStep ==
  ASSUME PermitInv, PermitInv', [Next]_vars
  PROVE  [Pool!Next]_<<heldDevices, cap>>
<1>1. CASE UNCHANGED <<heldDevices, cap>>
  BY <1>1
<1>2. ASSUME NEW w \in Worker, TakeSlot(w)
      PROVE  Pool!Pass
  <2>1. /\ devOf[w] \notin heldDevices /\ held < cap
        /\ cap' = cap /\ heldDevices' = heldDevices \cup {devOf[w]}
        /\ held' = held + 1
    BY <1>2 DEF TakeSlot, Refused, SlotFree
  <2>2. held' = Cardinality(heldDevices')
    BY DEF PermitInv, PermitAccounting
  <2>3. cap \in Nat /\ held \in Nat
    BY PermitFacts, ConstantsAssumption DEF TypeOK
  <2>4. Cardinality(heldDevices') <= cap
    BY <2>1, <2>2, <2>3
  <2>5. {} \subseteq heldDevices /\ Cardinality({}) <= 1
    BY FS_EmptySet
  <2>6. {devOf[w]} \subseteq Device /\ {devOf[w]} \cap heldDevices = {}
    BY <2>1, PermitFacts
  <2>7. heldDevices' = (heldDevices \ {}) \cup {devOf[w]}
    BY <2>1
  <2> QED  BY <2>1, <2>4, <2>5, <2>6, <2>7, PassWitness
<1>3. ASSUME NEW w \in Worker, ResolveShutdown(w), ~UNCHANGED <<heldDevices, cap>>
      PROVE  Pool!Pass
  <2> DEFINE d == devOf[w]
  <2>1. cap' = cap /\ d \in heldDevices /\ heldDevices' = heldDevices \ {d}
    BY <1>3, PermitFacts DEF ResolveShutdown
  <2>2. Cardinality({d}) = 1
    BY FS_Singleton
  <2>3. {d} \subseteq heldDevices /\ Cardinality({d}) <= 1
    BY <2>1, <2>2
  <2>4. {} \subseteq Device /\ {} \cap heldDevices = {}
    OBVIOUS
  <2>5. heldDevices' = (heldDevices \ {d}) \cup {} /\ heldDevices' \subseteq heldDevices
    BY <2>1
  <2> HIDE DEF d
  <2> QED  BY <2>1, <2>3, <2>4, <2>5, PassWitness
<1>4. ASSUME NEW w \in Worker, ResolveCancel(w), ~UNCHANGED <<heldDevices, cap>>
      PROVE  Pool!Pass
  <2>1. cap' = cap /\ devOf[w] \in handoff
    BY <1>4 DEF ResolveCancel
  <2>2. Promote(LessOne(held), heldDevices \ {devOf[w]},
                handoff \ {devOf[w]}, cap)
    BY <1>4, <2>1 DEF ResolveCancel, GivenBack
  <2>3. devOf[w] \in heldDevices
    BY <2>1, PermitFacts
  <2> QED  BY <2>1, <2>2, <2>3, PromoteIsPass
<1>5. ASSUME NEW w \in Worker, Release(w)
      PROVE  Pool!Pass
  <2>1. cap' = cap /\ devOf[w] \in heldDevices
    BY <1>5 DEF Release, PermitInv, PermitAccounting, Holders
  <2>2. Promote(LessOne(held), heldDevices \ {devOf[w]}, handoff, cap)
    BY <1>5 DEF Release
  <2> QED  BY <2>1, <2>2, PromoteIsPass
<1>6. ASSUME NEW n \in Caps \cup {0}, SetCap(n)
      PROVE  Pool!Adjust
  <2>1. cap' \in Caps /\ Promote(held, heldDevices, handoff, cap')
    BY <1>6, ConstantsAssumption DEF SetCap, AtLeastOne
  <2>2. held \in Nat /\ cap' \in Nat /\ heldDevices \in SUBSET heldDevices
    BY <2>1, PermitFacts, ConstantsAssumption
  <2>3. PICK new \in SUBSET Device :
          /\ new \cap heldDevices = {}
          /\ heldDevices' = heldDevices \cup new
          /\ new = {} \/ held' <= cap'
    BY <2>1, <2>2, PromoteEnters
  <2>4. held' = Cardinality(heldDevices') /\ heldDevices \subseteq Device
    BY PermitFacts DEF PermitInv, PermitAccounting
  <2>5. heldDevices' = heldDevices \/ Cardinality(heldDevices') <= cap'
    BY <2>3, <2>4
  <2>6. heldDevices \subseteq heldDevices' /\ heldDevices' \subseteq Device
    BY <2>3, <2>4
  <2> QED  BY <2>1, <2>5, <2>6, SameCount DEF Pool!Adjust
<1>7. ASSUME NEW w \in Worker,
             \/ BeginStep(w) \/ NextJob(w) \/ GiveUp(w) \/ Refuse(w)
             \/ Enqueue(w) \/ Wake(w) \/ TimeOut(w) \/ CheckLate(w)
             \/ ResolveGrant(w) \/ RequestAbort(w) \/ CancelDevice(w)
      PROVE  UNCHANGED <<heldDevices, cap>>
  BY <1>7 DEF BeginStep, NextJob, GiveUp, Refuse, Enqueue, Wake, TimeOut,
              CheckLate, ResolveGrant, RequestAbort, CancelDevice, schedVars
<1>8. Shutdown => UNCHANGED <<heldDevices, cap>>
  BY DEF Shutdown
<1>9. UNCHANGED vars => UNCHANGED <<heldDevices, cap>>
  BY DEF vars, schedVars
<1> QED  BY <1>1, <1>2, <1>3, <1>4, <1>5, <1>6, <1>7, <1>8, <1>9
         DEF Next, Acquire, Resolve, Pool!Next

\* The scheduler implements the pool of permits: no grant goes past the cap,
\* and a smaller cap takes no permit away (set_max_concurrent).
THEOREM SchedulerImplementsPool ==
  Spec /\ NoRequestBesideCancel => KeepsPermitPool
<1>1. Init => Pool!Init
  BY DEF Init, Pool!Init
<1>2. PermitInv /\ PermitInv' /\ [Next]_vars => [Pool!Next]_<<heldDevices, cap>>
  BY StepIsPoolStep
<1> QED  BY <1>1, <1>2, PermitsCorrect, PTL DEF Spec, KeepsPermitPool, Pool!Spec
=============================================================================
