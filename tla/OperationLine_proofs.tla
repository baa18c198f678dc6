------------------------ MODULE OperationLine_proofs ------------------------
(***************************************************************************)
(* The line for the permits of a host, for any number of workers, devices  *)
(* and caps, and for devices with several workers at a time: it is served  *)
(* in order, and nobody stands in it beside a free slot.                   *)
(***************************************************************************)
EXTENDS OperationScheduler, SequenceTheorems, FunctionTheorems,
        FiniteSetTheorems, TLAPS

LineInv ==
  /\ TypeOK
  /\ OneWaiterPerDevice
  /\ NoIdlePermit
  /\ down => waiters = <<>>

\* The first n waiters, the devices of some workers.
Front(n) == {waiters[i] : i \in 1..n}
DevicesOf(S) == {devOf[w] : w \in S}

\* The first n waiters get the slots that c has left beside the h of hd.
FrontPromoted(n, h, c, hd, ho) ==
  /\ waiters' \in Seq(Worker) /\ Len(waiters') = Len(waiters) - n
  /\ \A i \in 1..Len(waiters') : waiters'[i] = waiters[n + i]
  /\ held' = h + n
  /\ heldDevices' = hd \cup DevicesOf(Front(n))
  /\ handoff' = ho \cup DevicesOf(Front(n))
  /\ signaled' = signaled \cup Front(n)
  /\ n > 0 => held' <= c
  /\ ~down /\ waiters' # <<>> => held' >= c

-----------------------------------------------------------------------------
\* The line as a sequence of workers, without the other variables.
LEMMA LineFacts ==
  ASSUME LineInv
  PROVE  /\ waiters \in Seq(Worker) /\ Len(waiters) \in Nat
         /\ \A i \in 1..Len(waiters) : waiters[i] \in Worker
         /\ InLineNow \subseteq Worker
         /\ \A v : v \in InLineNow <=> \E i \in 1..Len(waiters) : waiters[i] = v
         /\ \A d : InLine(d) <=> \E v \in InLineNow : devOf[v] = d
         /\ \A v, w \in InLineNow : devOf[v] = devOf[w] => v = w
         /\ \A w \in Worker : devOf[w] \in Device
         /\ heldDevices \subseteq Device /\ IsFiniteSet(heldDevices)
<1>1. waiters \in Seq(Worker) /\ Len(waiters) \in Nat
  BY DEF LineInv, TypeOK
<1>2. \A i \in 1..Len(waiters) : waiters[i] \in Worker
  BY <1>1
<1>3. \A v : v \in InLineNow <=> \E i \in 1..Len(waiters) : waiters[i] = v
  BY DEF InLineNow
<1>4. \A d : InLine(d) <=> \E v \in InLineNow : devOf[v] = d
  BY <1>3 DEF InLine
<1>5. \A v, w \in InLineNow : devOf[v] = devOf[w] => v = w
  BY <1>3 DEF LineInv, OneWaiterPerDevice
<1>6. /\ \A w \in Worker : devOf[w] \in Device
      /\ heldDevices \subseteq Device /\ IsFiniteSet(heldDevices)
  <2>1. heldDevices \subseteq Device
    BY DEF LineInv, TypeOK
  <2>2. devOf \in [Worker -> Device] /\ IsFiniteSet(Device)
    BY ConstantsAssumption
  <2> QED  BY <2>1, <2>2, FS_Subset
<1> QED  BY <1>1, <1>2, <1>3, <1>4, <1>5, <1>6

\* A line without the one in place k: the places before k stay, those behind
\* it move up by one.
LEMMA WithoutMovesUp ==
  ASSUME LineInv, NEW d
  PROVE  \/ ~InLine(d) /\ Without(d) = waiters
         \/ \E k \in 1..Len(waiters) :
              /\ devOf[waiters[k]] = d
              /\ Without(d) \in Seq(Worker)
              /\ Len(Without(d)) = Len(waiters) - 1
              /\ \A i \in 1..(Len(waiters) - 1) :
                   Without(d)[i] = IF i < k THEN waiters[i] ELSE waiters[i + 1]
<1>1. CASE ~InLine(d)
  BY <1>1 DEF Without
<1>2. CASE InLine(d)
  <2>1. PICK k \in 1..Len(waiters) :
          /\ devOf[waiters[k]] = d
          /\ Without(d) = [i \in 1..(Len(waiters) - 1) |->
                             IF i < k THEN waiters[i] ELSE waiters[i + 1]]
    BY <1>2 DEF InLine, Without
  <2>2. /\ Len(waiters) \in Nat /\ Len(waiters) - 1 \in Nat /\ k \in Nat
        /\ \A i \in 1..Len(waiters) : waiters[i] \in Worker
    BY <2>1, LineFacts
  <2>3. Without(d) \in [1..(Len(waiters) - 1) -> Worker]
    <3>1. \A i \in 1..(Len(waiters) - 1) :
            (IF i < k THEN waiters[i] ELSE waiters[i + 1]) \in Worker
      BY <2>2
    <3> QED  BY <2>1, <3>1
  <2>4. Without(d) \in Seq(Worker) /\ Len(Without(d)) = Len(waiters) - 1
    BY <2>2, <2>3, LenProperties
  <2>5. \A i \in 1..(Len(waiters) - 1) :
          Without(d)[i] = IF i < k THEN waiters[i] ELSE waiters[i + 1]
    BY <2>1
  <2> QED  BY <2>1, <2>4, <2>5
<1> QED  BY <1>1, <1>2

\* A line in which some places of the old one are left, in their order.
LEMMA SublineKeepsOrder ==
  ASSUME LineInv, waiters' \in Seq(Worker),
         NEW p \in [1..Len(waiters') -> 1..Len(waiters)],
         \A i, j \in 1..Len(waiters') : i < j => p[i] < p[j],
         \A i \in 1..Len(waiters') : waiters'[i] = waiters[p[i]]
  PROVE  /\ OneWaiterPerDevice'
         /\ InLineNow' \subseteq InLineNow
         /\ \A v, w : Ahead(v, w) /\ {v, w} \subseteq InLineNow' => Ahead(v, w)'
<1> DEFINE M == Len(waiters')
           N == Len(waiters)
<1>1. /\ M \in Nat /\ N \in Nat
      /\ \A i \in 1..M : p[i] \in 1..N
      /\ \A i, j \in 1..N : devOf[waiters[i]] = devOf[waiters[j]] => i = j
  BY LineFacts DEF LineInv, OneWaiterPerDevice
<1>2. \A i, j \in 1..M : p[i] = p[j] => i = j
  <2> SUFFICES ASSUME NEW i \in 1..M, NEW j \in 1..M, p[i] = p[j], i # j
               PROVE  FALSE
    OBVIOUS
  <2>1. i < j \/ j < i
    BY <1>1
  <2> QED  BY <2>1, <1>1
<1>3. OneWaiterPerDevice'
  <2> SUFFICES ASSUME NEW i \in 1..M, NEW j \in 1..M,
                      devOf[waiters'[i]] = devOf[waiters'[j]]
               PROVE  i = j
    BY DEF OneWaiterPerDevice
  <2>1. p[i] = p[j]
    BY <1>1
  <2> QED  BY <2>1, <1>2
<1>4. InLineNow' \subseteq InLineNow
  BY <1>1 DEF InLineNow
<1>5. ASSUME NEW v, NEW w, Ahead(v, w), {v, w} \subseteq InLineNow'
      PROVE  Ahead(v, w)'
  <2>1. PICK i \in 1..N, j \in 1..N : i < j /\ waiters[i] = v /\ waiters[j] = w
    BY <1>5 DEF Ahead
  <2>2. PICK a \in 1..M, b \in 1..M : waiters'[a] = v /\ waiters'[b] = w
    BY <1>5 DEF InLineNow
  <2>3. p[a] = i /\ p[b] = j
    <3>1. p[a] \in 1..N /\ waiters[p[a]] = waiters[i]
      BY <1>1, <2>1, <2>2
    <3>2. p[b] \in 1..N /\ waiters[p[b]] = waiters[j]
      BY <1>1, <2>1, <2>2
    <3> QED  BY <1>1, <3>1, <3>2
  <2>4. ~(b < a) /\ a # b
    BY <1>1, <2>1, <2>3
  <2>5. a < b
    BY <1>1, <2>4
  <2> QED  BY <2>2, <2>5 DEF Ahead
<1> QED  BY <1>3, <1>4, <1>5

\* The line without a device.
LEMMA WithoutKeepsOrder ==
  ASSUME LineInv, NEW d, waiters' = Without(d)
  PROVE  /\ waiters' \in Seq(Worker)
         /\ OneWaiterPerDevice'
         /\ InLineNow' = {v \in InLineNow : devOf[v] # d}
         /\ waiters = <<>> => waiters' = <<>>
         /\ \A v, w : Ahead(v, w) /\ {v, w} \subseteq InLineNow' => Ahead(v, w)'
<1>1. CASE ~InLine(d) /\ waiters' = waiters
  <2>1. InLineNow' = InLineNow /\ \A v, w : Ahead(v, w) => Ahead(v, w)'
    BY <1>1 DEF InLineNow, Ahead
  <2>2. \A v \in InLineNow : devOf[v] # d
    BY <1>1, LineFacts
  <2> QED  BY <1>1, <2>1, <2>2, LineFacts DEF LineInv, OneWaiterPerDevice
<1>2. CASE \E k \in 1..Len(waiters) :
             /\ devOf[waiters[k]] = d
             /\ Without(d) \in Seq(Worker)
             /\ Len(Without(d)) = Len(waiters) - 1
             /\ \A i \in 1..(Len(waiters) - 1) :
                  Without(d)[i] = IF i < k THEN waiters[i] ELSE waiters[i + 1]
  <2> DEFINE M == Len(waiters')
             N == Len(waiters)
  <2>1. PICK k \in 1..N :
          /\ devOf[waiters[k]] = d
          /\ waiters' \in Seq(Worker) /\ M = N - 1
          /\ \A i \in 1..(N - 1) :
               waiters'[i] = IF i < k THEN waiters[i] ELSE waiters[i + 1]
    BY <1>2
  <2> DEFINE p == [i \in 1..M |-> IF i < k THEN i ELSE i + 1]
  <2>2. N \in Nat /\ k \in Nat /\ M \in Nat
    BY <2>1, LineFacts
  <2>3. p \in [1..M -> 1..N]
    BY <2>1, <2>2
  <2>4. \A i, j \in 1..M : i < j => p[i] < p[j]
    BY <2>1, <2>2
  <2>5. \A i \in 1..M : waiters'[i] = waiters[p[i]] /\ p[i] # k
    BY <2>1, <2>2
  <2>6. /\ OneWaiterPerDevice'
        /\ InLineNow' \subseteq InLineNow
        /\ \A v, w : Ahead(v, w) /\ {v, w} \subseteq InLineNow' => Ahead(v, w)'
    <3> HIDE DEF p
    <3> QED  BY <2>1, <2>3, <2>4, <2>5, SublineKeepsOrder
  <2>7. ASSUME NEW v \in InLineNow', devOf[v] = d
        PROVE  FALSE
    <3>1. PICK i \in 1..M : waiters'[i] = v
      BY DEF InLineNow
    <3>2. p[i] \in 1..N /\ p[i] # k /\ waiters[p[i]] = v
      BY <3>1, <2>3, <2>5
    <3> HIDE DEF p
    <3> QED  BY <3>2, <2>1, <2>7 DEF LineInv, OneWaiterPerDevice
  <2>8. ASSUME NEW v \in InLineNow, devOf[v] # d
        PROVE  v \in InLineNow'
    <3>1. PICK j \in 1..N : waiters[j] = v
      BY DEF InLineNow
    <3>2. j # k
      BY <3>1, <2>1, <2>8
    <3>3. CASE j < k
      <4>1. j \in 1..M /\ waiters'[j] = v
        BY <3>1, <3>3, <2>1, <2>2
      <4> QED  BY <4>1 DEF InLineNow
    <3>4. CASE j > k
      <4>1. j - 1 \in 1..M /\ waiters'[j - 1] = v
        BY <3>1, <3>4, <2>1, <2>2
      <4> QED  BY <4>1 DEF InLineNow
    <3> QED  BY <3>2, <3>3, <3>4, <2>2
  <2>9. InLineNow' = {v \in InLineNow : devOf[v] # d}
    BY <2>6, <2>7, <2>8
  <2>10. waiters # <<>>
    BY <2>1
  <2> QED  BY <2>1, <2>6, <2>9, <2>10
<1> QED  BY <1>1, <1>2, WithoutMovesUp

\* What _wake_one_locked does to the line: as many as fit leave it at its
\* head, and nobody stays if there is room.
LEMMA PromoteTakesFront ==
  ASSUME LineInv, NEW h \in Nat, NEW c \in Nat, NEW hd, NEW ho,
         Promote(h, hd, ho, c)
  PROVE  \E n \in 0..Len(waiters) : FrontPromoted(n, h, c, hd, ho)
<1> DEFINE N == Len(waiters)
           n == Promotable(h, c)
<1>1. N \in Nat /\ waiters \in Seq(Worker)
  BY LineFacts
<1>2. /\ n \in 0..N
      /\ n > 0 => h + n <= c
      /\ ~down /\ n < N => h + n >= c
  BY <1>1 DEF Promotable, Smaller
<1>3. /\ waiters' = SubSeq(waiters, n + 1, N)
      /\ held' = h + n
      /\ heldDevices' = hd \cup DevicesOf(Front(n))
      /\ handoff' = ho \cup DevicesOf(Front(n))
      /\ signaled' = signaled \cup Front(n)
  BY DEF Promote, DevicesOf, Front
<1> HIDE DEF n
<1>4. /\ waiters' \in Seq(Worker) /\ Len(waiters') = N - n
      /\ \A i \in 1..(N - n) : waiters'[i] = waiters[n + i]
  BY <1>1, <1>2, <1>3, SubSeqProperties
<1>5. waiters' # <<>> => n < N
  BY <1>1, <1>2, <1>4
<1>6. FrontPromoted(n, h, c, hd, ho)
  BY <1>2, <1>3, <1>4, <1>5 DEF FrontPromoted
<1> QED  BY <1>2, <1>6

\* The first n waiters take n slots: their devices are all different.
LEMMA FrontDevices ==
  ASSUME LineInv, NEW n \in 0..Len(waiters)
  PROVE  /\ IsFiniteSet(DevicesOf(Front(n)))
         /\ Cardinality(DevicesOf(Front(n))) = n
         /\ DevicesOf(Front(n)) \subseteq Device
<1> DEFINE f == [i \in 1..n |-> devOf[waiters[i]]]
<1>1. /\ n \in Nat /\ 1..n \subseteq 1..Len(waiters)
      /\ \A i \in 1..n : waiters[i] \in Worker /\ devOf[waiters[i]] \in Device
  BY LineFacts
<1>2. \A d : d \in DevicesOf(Front(n)) <=> \E i \in 1..n : d = devOf[waiters[i]]
  BY DEF DevicesOf, Front
<1>3. f \in Bijection(1..n, DevicesOf(Front(n)))
  <2>1. f \in [1..n -> DevicesOf(Front(n))]
    BY <1>2
  <2>2. \A i, j \in 1..n : f[i] = f[j] => i = j
    BY <1>1 DEF LineInv, OneWaiterPerDevice
  <2>3. \A d \in DevicesOf(Front(n)) : \E i \in 1..n : f[i] = d
    BY <1>2
  <2> QED  BY <2>1, <2>2, <2>3, Fun_IsBij
<1>4. IsFiniteSet(1..n) /\ Cardinality(1..n) = n
  BY <1>1, FS_Interval
<1>5. IsFiniteSet(DevicesOf(Front(n))) /\ Cardinality(DevicesOf(Front(n))) = n
  BY <1>3, <1>4, FS_Bijection DEF ExistsBijection
<1>6. DevicesOf(Front(n)) \subseteq Device
  BY <1>1, <1>2
<1> QED  BY <1>5, <1>6

\* What becomes of the line when its first n waiters leave it.
LEMMA FrontLeaves ==
  ASSUME LineInv, NEW n \in 0..Len(waiters),
         waiters' \in Seq(Worker), Len(waiters') = Len(waiters) - n,
         \A i \in 1..Len(waiters') : waiters'[i] = waiters[n + i]
  PROVE  /\ Front(n) \subseteq InLineNow
         /\ InLineNow' = InLineNow \ Front(n)
         /\ OneWaiterPerDevice'
         /\ waiters = <<>> => waiters' = <<>>
         /\ \A v, w : Ahead(v, w) /\ {v, w} \subseteq InLineNow' => Ahead(v, w)'
         /\ \A v, w : Ahead(v, w) /\ w \in Front(n) => v \in Front(n)
<1> DEFINE M == Len(waiters')
           N == Len(waiters)
           p == [i \in 1..M |-> n + i]
<1>1. /\ N \in Nat /\ n \in Nat /\ M \in Nat /\ M = N - n /\ n <= N
      /\ \A i, j \in 1..N : devOf[waiters[i]] = devOf[waiters[j]] => i = j
  BY LineFacts DEF LineInv, OneWaiterPerDevice
<1>2. /\ OneWaiterPerDevice'
      /\ InLineNow' \subseteq InLineNow
      /\ \A v, w : Ahead(v, w) /\ {v, w} \subseteq InLineNow' => Ahead(v, w)'
  <2>1. p \in [1..M -> 1..N]
    BY <1>1
  <2>2. \A i, j \in 1..M : i < j => p[i] < p[j]
    BY <1>1
  <2>3. \A i \in 1..M : waiters'[i] = waiters[p[i]]
    BY <1>1
  <2> HIDE DEF p
  <2> QED  BY <2>1, <2>2, <2>3, SublineKeepsOrder
<1>3. Front(n) \subseteq InLineNow
  BY <1>1 DEF Front, InLineNow
<1>4. ASSUME NEW w \in InLineNow', w \in Front(n)
      PROVE  FALSE
  <2>1. PICK i \in 1..M : waiters'[i] = w
    BY DEF InLineNow
  <2>2. PICK j \in 1..n : waiters[j] = w
    BY <1>4 DEF Front
  <2>3. n + i \in 1..N /\ j \in 1..N /\ waiters[n + i] = waiters[j]
    BY <1>1, <2>1, <2>2
  <2>4. n + i = j
    BY <1>1, <2>3
  <2> QED  BY <1>1, <2>4
<1>5. ASSUME NEW w \in InLineNow, w \notin Front(n)
      PROVE  w \in InLineNow'
  <2>1. PICK j \in 1..N : waiters[j] = w
    BY DEF InLineNow
  <2>2. j > n
    BY <1>1, <1>5, <2>1 DEF Front
  <2>3. j - n \in 1..M /\ waiters'[j - n] = w
    BY <1>1, <2>1, <2>2
  <2> QED  BY <2>3 DEF InLineNow
<1>6. InLineNow' = InLineNow \ Front(n)
  BY <1>2, <1>4, <1>5
<1>7. ASSUME NEW v, NEW w, Ahead(v, w), w \in Front(n)
      PROVE  v \in Front(n)
  <2>1. PICK i \in 1..N, j \in 1..N : i < j /\ waiters[i] = v /\ waiters[j] = w
    BY <1>7 DEF Ahead
  <2>2. PICK k \in 1..n : waiters[k] = w
    BY <1>7 DEF Front
  <2>3. k \in 1..N /\ k = j
    BY <1>1, <2>1, <2>2
  <2>4. i \in 1..n
    BY <1>1, <2>1, <2>3
  <2> QED  BY <2>1, <2>4 DEF Front
<1>8. waiters = <<>> => waiters' = <<>>
  BY <1>1
<1> QED  BY <1>2, <1>3, <1>6, <1>7, <1>8

-----------------------------------------------------------------------------
\* Three shapes of a step on the line: some leave it and no slot is taken,
\* some are promoted, one joins.
LEMMA LeavingKeepsOrder ==
  ASSUME InLineNow' \subseteq InLineNow, heldDevices' \subseteq heldDevices,
         \A v, w : Ahead(v, w) /\ {v, w} \subseteq InLineNow' => Ahead(v, w)'
  PROVE  InOrder
BY DEF InOrder

LEMMA PromotingKeepsLine ==
  ASSUME LineInv, TypeOK', NEW h \in Nat, NEW hd \in SUBSET heldDevices, NEW ho,
         Promote(h, hd, ho, cap'), down' = down
  PROVE  LineInv' /\ InOrder
<1>1. cap' \in Nat
  BY ConstantsAssumption DEF TypeOK
<1>2. PICK n \in 0..Len(waiters) : FrontPromoted(n, h, cap', hd, ho)
  BY <1>1, PromoteTakesFront
<1>3. /\ Front(n) \subseteq InLineNow
      /\ InLineNow' = InLineNow \ Front(n)
      /\ OneWaiterPerDevice'
      /\ waiters = <<>> => waiters' = <<>>
      /\ \A v, w : Ahead(v, w) /\ {v, w} \subseteq InLineNow' => Ahead(v, w)'
      /\ \A v, w : Ahead(v, w) /\ w \in Front(n) => v \in Front(n)
  BY <1>2, FrontLeaves DEF FrontPromoted
<1>4. LineInv'
  BY <1>2, <1>3 DEF FrontPromoted, LineInv, NoIdlePermit
<1>5. InOrder
  <2> SUFFICES ASSUME NEW v \in Worker, NEW w \in Worker,
                      devOf[w] \in heldDevices' \ heldDevices
               PROVE  /\ Ahead(v, w) => devOf[v] \in heldDevices'
                      /\ v \in InLineNow => InLine(devOf[w])
    BY <1>3 DEF InOrder
  <2>1. PICK u \in Front(n) : devOf[u] = devOf[w]
    BY <1>2 DEF FrontPromoted, DevicesOf
  <2>2. InLine(devOf[w])
    BY <1>3, <2>1, LineFacts
  <2>3. ASSUME Ahead(v, w)
        PROVE  devOf[v] \in heldDevices'
    <3>1. w \in InLineNow
      BY <2>3 DEF Ahead, InLineNow
    <3>2. w = u
      BY <1>3, <2>1, <3>1, LineFacts
    <3>3. v \in Front(n)
      BY <1>3, <2>1, <2>3, <3>2
    <3> QED  BY <1>2, <3>3 DEF FrontPromoted, DevicesOf
  <2> QED  BY <2>2, <2>3
<1> QED  BY <1>4, <1>5

LEMMA JoiningKeepsLine ==
  ASSUME LineInv, TypeOK', NEW w \in Worker, waiters' = Append(waiters, w),
         ~InLine(devOf[w]), heldDevices' = heldDevices
  PROVE  /\ OneWaiterPerDevice'
         /\ InLineNow' = InLineNow \cup {w}
         /\ InOrder
<1> DEFINE N == Len(waiters)
<1>1. /\ N \in Nat /\ Len(waiters') = N + 1
      /\ \A i \in 1..N : waiters'[i] = waiters[i]
      /\ waiters'[N + 1] = w
  BY LineFacts, AppendProperties
<1>2. \A i \in 1..(N + 1) : i \in 1..N \/ i = N + 1
  BY <1>1
<1>3. InLineNow' = InLineNow \cup {w}
  BY <1>1, <1>2 DEF InLineNow
<1>4. \A i \in 1..N : devOf[waiters[i]] # devOf[w]
  BY DEF InLine
<1>5. OneWaiterPerDevice'
  <2> SUFFICES ASSUME NEW i \in 1..(N + 1), NEW j \in 1..(N + 1),
                      devOf[waiters'[i]] = devOf[waiters'[j]]
               PROVE  i = j
    BY <1>1 DEF OneWaiterPerDevice
  <2>1. CASE i \in 1..N /\ j \in 1..N
    BY <2>1, <1>1 DEF LineInv, OneWaiterPerDevice
  <2>2. CASE i \in 1..N /\ j = N + 1
    BY <2>2, <1>1, <1>4
  <2>3. CASE i = N + 1 /\ j \in 1..N
    BY <2>3, <1>1, <1>4
  <2>4. CASE i = N + 1 /\ j = N + 1
    BY <2>4
  <2> QED  BY <1>2, <2>1, <2>2, <2>3, <2>4
<1>6. ASSUME NEW u, NEW v, Ahead(u, v)
      PROVE  Ahead(u, v)'
  <2>1. PICK i \in 1..N, j \in 1..N : i < j /\ waiters[i] = u /\ waiters[j] = v
    BY <1>6 DEF Ahead
  <2>2. i \in 1..(N + 1) /\ j \in 1..(N + 1) /\ waiters'[i] = u /\ waiters'[j] = v
    BY <1>1, <2>1
  <2> QED  BY <1>1, <2>1, <2>2 DEF Ahead
<1>7. ASSUME NEW u \in InLineNow
      PROVE  Ahead(u, w)'
  <2>1. PICK i \in 1..N : waiters[i] = u
    BY DEF InLineNow
  <2>2. i \in 1..(N + 1) /\ N + 1 \in 1..(N + 1) /\ i < N + 1
    BY <1>1
  <2>3. waiters'[i] = u /\ waiters'[N + 1] = w
    BY <1>1, <2>1
  <2> QED  BY <1>1, <2>2, <2>3 DEF Ahead
<1>8. InOrder
  BY <1>3, <1>6, <1>7 DEF InOrder
<1> QED  BY <1>3, <1>5, <1>8

-----------------------------------------------------------------------------
\* A worker goes somewhere, a job that is called off enters a stage.
LEMMA GotoKeepsPlaces ==
  ASSUME TypeOK, NEW w \in Worker, NEW place \in Places, Goto(w, place)
  PROVE  /\ pc' \in [Worker -> Places]
         /\ pc'[w] = place
         /\ \A v \in Worker : v # w => pc'[v] = pc[v]
BY DEF TypeOK, Goto

LEMMA MarkKeepsStages ==
  ASSUME TypeOK, NEW w \in Worker, MarkCanceled(w)
  PROVE  stage' \in [Worker -> Stages]
BY DEF MarkCanceled, Enter, Stages, TypeOK

LEMMA AfterwardsAPlace ==
  ASSUME NEW w
  PROVE  AfterTimeout(w) \in {"idle", "wanting"} /\ AfterCancel(w) \in {"idle", "wanting"}
BY DEF AfterTimeout, AfterCancel

LEMMA ThePlaces ==
  \A p \in {"idle", "wanting", "waiting", "late", "woken", "holding"} : p \in Places
BY DEF Places

\* What promotes waiters keeps the types of slots and line.
LEMMA PromotingKeepsTypes ==
  ASSUME LineInv, NEW h \in Nat, NEW c \in Caps, NEW hd \in SUBSET Device,
         NEW ho \in SUBSET Device, Promote(h, hd, ho, c)
  PROVE  /\ waiters' \in Seq(Worker) /\ held' \in Nat
         /\ heldDevices' \subseteq Device /\ handoff' \subseteq Device
         /\ signaled' \subseteq Worker
<1>1. c \in Nat
  BY ConstantsAssumption
<1>2. PICK n \in 0..Len(waiters) : FrontPromoted(n, h, c, hd, ho)
  BY <1>1, PromoteTakesFront
<1>3. DevicesOf(Front(n)) \subseteq Device
  BY FrontDevices
<1>4. Front(n) \subseteq Worker
  BY LineFacts DEF Front
<1>5. signaled \subseteq Worker /\ n \in Nat
  BY DEF LineInv, TypeOK
<1> QED  BY <1>2, <1>3, <1>4, <1>5 DEF FrontPromoted

\* A slot count is never below zero.
LEMMA SlotsStayNatural ==
  ASSUME TypeOK
  PROVE  /\ LessOne(held) \in Nat
         /\ \A d : GivenBack(d) \in Nat
BY DEF TypeOK, LessOne, GivenBack

-----------------------------------------------------------------------------
\* Steps outside the scheduler, and those that leave slots and line alone.
LEMMA OutsideKeepsType ==
  ASSUME TypeOK, NEW w \in Worker,
         BeginStep(w) \/ NextJob(w) \/ GiveUp(w) \/ Refuse(w) \/ RequestAbort(w)
  PROVE  TypeOK'
<1>1. UNCHANGED <<schedVars, signaled>>
  BY DEF BeginStep, NextJob, GiveUp, Refuse, RequestAbort
<1>2. pc' \in [Worker -> Places]
  BY GotoKeepsPlaces, ThePlaces
     DEF BeginStep, NextJob, GiveUp, Refuse, RequestAbort, TypeOK
<1>3. stage' \in [Worker -> Stages]
  BY MarkKeepsStages DEF BeginStep, NextJob, GiveUp, Refuse, RequestAbort, Enter,
                         Stages, jobVars, TypeOK
<1>4. cancelling' \subseteq Worker
  BY DEF BeginStep, NextJob, GiveUp, Refuse, RequestAbort, jobVars, TypeOK
<1> QED  BY <1>1, <1>2, <1>3, <1>4 DEF TypeOK, schedVars

LEMMA AcquireKeepsType ==
  ASSUME LineInv, NEW w \in Worker,
         TakeSlot(w) \/ Enqueue(w) \/ Wake(w) \/ TimeOut(w) \/ CheckLate(w)
  PROVE  TypeOK'
<1> USE DEF LineInv
<1>1. CASE TakeSlot(w)
  <2>1. pc' \in [Worker -> Places]
    BY <1>1, GotoKeepsPlaces, ThePlaces DEF TakeSlot
  <2>2. held' \in Nat /\ heldDevices' \subseteq Device
    BY <1>1, LineFacts DEF TakeSlot, TypeOK
  <2> QED  BY <1>1, <2>1, <2>2 DEF TakeSlot, TypeOK, jobVars
<1>2. CASE Enqueue(w)
  <2>1. pc' \in [Worker -> Places]
    BY <1>2, GotoKeepsPlaces, ThePlaces DEF Enqueue
  <2>2. waiters' \in Seq(Worker)
    BY <1>2, LineFacts, AppendProperties DEF Enqueue, Enlist
  <2> QED  BY <1>2, <2>1, <2>2 DEF Enqueue, TypeOK, jobVars
<1>3. CASE Wake(w) \/ TimeOut(w)
  <2>1. pc' \in [Worker -> Places]
    BY <1>3, GotoKeepsPlaces, ThePlaces DEF Wake, TimeOut
  <2> QED  BY <1>3, <2>1 DEF Wake, TimeOut, TypeOK, schedVars, jobVars
<1>4. CASE CheckLate(w)
  <2>1. pc' \in [Worker -> Places]
    BY <1>4, GotoKeepsPlaces, ThePlaces, AfterwardsAPlace DEF CheckLate
  <2>2. waiters' \in Seq(Worker)
    BY <1>4, LineFacts, WithoutKeepsOrder DEF CheckLate
  <2> QED  BY <1>4, <2>1, <2>2 DEF CheckLate, TypeOK, jobVars
<1> QED  BY <1>1, <1>2, <1>3, <1>4

LEMMA ResolveKeepsType ==
  ASSUME LineInv, NEW w \in Worker, Resolve(w)
  PROVE  TypeOK'
<1> USE DEF LineInv
<1>1. CASE ResolveShutdown(w)
  <2>1. pc' \in [Worker -> Places]
    BY <1>1, GotoKeepsPlaces, ThePlaces DEF ResolveShutdown
  <2>2. held' \in Nat
    BY <1>1, SlotsStayNatural DEF ResolveShutdown
  <2>3. stage' \in [Worker -> Stages]
    BY <1>1, MarkKeepsStages DEF ResolveShutdown
  <2>4. heldDevices' \subseteq heldDevices /\ handoff' \subseteq handoff
    BY <1>1 DEF ResolveShutdown
  <2> QED  BY <1>1, <2>1, <2>2, <2>3, <2>4 DEF ResolveShutdown, TypeOK
<1>2. CASE ResolveCancel(w)
  <2>1. pc' \in [Worker -> Places]
    BY <1>2, GotoKeepsPlaces, ThePlaces, AfterwardsAPlace DEF ResolveCancel
  <2>2. stage' \in [Worker -> Stages]
    BY <1>2, MarkKeepsStages DEF ResolveCancel
  <2>3. /\ waiters' \in Seq(Worker) /\ held' \in Nat
        /\ heldDevices' \subseteq Device /\ handoff' \subseteq Device
        /\ signaled' \subseteq Worker
    <3>1. CASE devOf[w] \in handoff
      <4> DEFINE h == GivenBack(devOf[w])
                 hd == heldDevices \ {devOf[w]}
                 ho == handoff \ {devOf[w]}
      <4>1. Promote(h, hd, ho, cap)
        BY <1>2, <3>1 DEF ResolveCancel
      <4>2. h \in Nat /\ hd \in SUBSET Device /\ ho \in SUBSET Device /\ cap \in Caps
        BY SlotsStayNatural DEF TypeOK
      <4> HIDE DEF h, hd, ho, LineInv
      <4> QED  BY <4>1, <4>2, PromotingKeepsTypes
    <3>2. CASE devOf[w] \notin handoff
      BY <1>2, <3>2 DEF ResolveCancel, TypeOK
    <3> QED  BY <3>1, <3>2
  <2>4. cancelled' \subseteq cancelled /\ UNCHANGED <<cap, down, cancelling>>
    BY <1>2 DEF ResolveCancel
  <2> QED  BY <2>1, <2>2, <2>3, <2>4 DEF TypeOK
<1>3. CASE ResolveGrant(w)
  <2>1. pc' \in [Worker -> Places]
    BY <1>3, GotoKeepsPlaces, ThePlaces DEF ResolveGrant
  <2>2. handoff' \subseteq handoff
    BY <1>3 DEF ResolveGrant
  <2> QED  BY <1>3, <2>1, <2>2 DEF ResolveGrant, TypeOK, jobVars
<1> QED  BY <1>1, <1>2, <1>3 DEF Resolve

LEMMA SlotsBackKeepType ==
  ASSUME LineInv,
         \/ \E w \in Worker : Release(w) \/ CancelDevice(w)
         \/ \E n \in Caps \cup {0} : SetCap(n)
         \/ Shutdown
  PROVE  TypeOK'
<1>1. ASSUME NEW w \in Worker, Release(w)
      PROVE  TypeOK'
  <2> DEFINE hd == heldDevices \ {devOf[w]}
  <2>1. pc' \in [Worker -> Places]
    BY <1>1, GotoKeepsPlaces, ThePlaces DEF Release, LineInv
  <2>2. Promote(LessOne(held), hd, handoff, cap)
    BY <1>1 DEF Release
  <2>3. /\ LessOne(held) \in Nat /\ hd \in SUBSET Device
        /\ handoff \in SUBSET Device /\ cap \in Caps
    BY SlotsStayNatural DEF LineInv, TypeOK
  <2> HIDE DEF hd
  <2>4. /\ waiters' \in Seq(Worker) /\ held' \in Nat
        /\ heldDevices' \subseteq Device /\ handoff' \subseteq Device
        /\ signaled' \subseteq Worker
    BY <2>2, <2>3, PromotingKeepsTypes
  <2> QED  BY <1>1, <2>1, <2>4 DEF Release, LineInv, TypeOK, jobVars
<1>2. ASSUME NEW w \in Worker, CancelDevice(w)
      PROVE  TypeOK'
  <2>1. waiters' \in Seq(Worker)
    BY <1>2, WithoutKeepsOrder DEF CancelDevice
  <2>2. signaled' \subseteq Worker /\ cancelled' \subseteq Device
    BY <1>2, LineFacts DEF CancelDevice, LineInv, TypeOK
  <2> QED  BY <1>2, <2>1, <2>2 DEF CancelDevice, LineInv, TypeOK
<1>3. ASSUME NEW n \in Caps \cup {0}, SetCap(n)
      PROVE  TypeOK'
  <2>1. cap' \in Caps /\ Promote(held, heldDevices, handoff, cap')
    BY <1>3, ConstantsAssumption DEF SetCap, AtLeastOne
  <2>2. /\ held \in Nat /\ heldDevices \in SUBSET Device
        /\ handoff \in SUBSET Device
    BY DEF LineInv, TypeOK
  <2>3. /\ waiters' \in Seq(Worker) /\ held' \in Nat
        /\ heldDevices' \subseteq Device /\ handoff' \subseteq Device
        /\ signaled' \subseteq Worker
    BY <2>1, <2>2, PromotingKeepsTypes
  <2> QED  BY <1>3, <2>1, <2>3 DEF SetCap, LineInv, TypeOK, jobVars
<1>4. CASE Shutdown
  <2>1. waiters' \in Seq(Worker) /\ signaled' \subseteq Worker
    BY <1>4, EmptySeq, LineFacts DEF Shutdown, LineInv, TypeOK
  <2> QED  BY <1>4, <2>1 DEF Shutdown, LineInv, TypeOK, jobVars
<1> QED  BY <1>1, <1>2, <1>3, <1>4

LEMMA StepKeepsType ==
  ASSUME LineInv, [Next]_vars
  PROVE  TypeOK'
<1>1. CASE UNCHANGED vars
  BY <1>1 DEF vars, schedVars, jobVars, LineInv, TypeOK
<1>2. ASSUME NEW w \in Worker,
             BeginStep(w) \/ NextJob(w) \/ GiveUp(w) \/ Refuse(w) \/ RequestAbort(w)
      PROVE  TypeOK'
  BY <1>2, OutsideKeepsType DEF LineInv
<1>3. ASSUME NEW w \in Worker,
             TakeSlot(w) \/ Enqueue(w) \/ Wake(w) \/ TimeOut(w) \/ CheckLate(w)
      PROVE  TypeOK'
  BY <1>3, AcquireKeepsType
<1>4. ASSUME NEW w \in Worker, Resolve(w)
      PROVE  TypeOK'
  BY <1>4, ResolveKeepsType
<1>5. ASSUME NEW w \in Worker, Release(w) \/ CancelDevice(w)
      PROVE  TypeOK'
  BY <1>5, SlotsBackKeepType
<1>6. ASSUME NEW n \in Caps \cup {0}, SetCap(n)
      PROVE  TypeOK'
  BY <1>6, SlotsBackKeepType
<1>7. CASE Shutdown
  BY <1>7, SlotsBackKeepType
<1> QED  BY <1>1, <1>2, <1>3, <1>4, <1>5, <1>6, <1>7 DEF Next, Acquire

\* Steps that leave the line as it is, and steps that leave nobody in it.
LEMMA StillLineInOrder ==
  ASSUME LineInv, TypeOK', UNCHANGED <<cap, held, waiters, down>>,
         heldDevices' \subseteq heldDevices
  PROVE  LineInv' /\ InOrder
<1>1. InLineNow' = InLineNow /\ \A v, w : Ahead(v, w) => Ahead(v, w)'
  BY DEF InLineNow, Ahead
<1>2. InOrder
  BY <1>1, LeavingKeepsOrder
<1> QED  BY <1>2 DEF LineInv, OneWaiterPerDevice, NoIdlePermit

LEMMA EmptyLineInOrder ==
  ASSUME TypeOK', waiters' = <<>>,
         heldDevices' \subseteq heldDevices \/ waiters = <<>>
  PROVE  LineInv' /\ InOrder
<1>1. InLineNow' = {} /\ \A i \in 1..Len(waiters') : FALSE
  BY DEF InLineNow
<1>2. waiters = <<>> => InLineNow = {} /\ \A v, w : ~Ahead(v, w)
  BY DEF InLineNow, Ahead
<1>3. InOrder
  BY <1>1, <1>2 DEF InOrder
<1> QED  BY <1>1, <1>3 DEF LineInv, OneWaiterPerDevice, NoIdlePermit

\* The waiter of a device leaves the line.
LEMMA LeaverInOrder ==
  ASSUME LineInv, TypeOK', NEW d, waiters' = Without(d),
         UNCHANGED <<cap, held, heldDevices, down>>
  PROVE  LineInv' /\ InOrder
<1>1. /\ OneWaiterPerDevice'
      /\ InLineNow' = {v \in InLineNow : devOf[v] # d}
      /\ waiters = <<>> => waiters' = <<>>
      /\ \A v, w : Ahead(v, w) /\ {v, w} \subseteq InLineNow' => Ahead(v, w)'
  BY WithoutKeepsOrder
<1>2. InOrder
  BY <1>1, LeavingKeepsOrder
<1> QED  BY <1>1, <1>2 DEF LineInv, NoIdlePermit

LEMMA EnqueueInOrder ==
  ASSUME LineInv, TypeOK', NEW w \in Worker, Enqueue(w)
  PROVE  LineInv' /\ InOrder
<1>1. /\ ~down /\ ~InLine(devOf[w]) /\ waiters' = Append(waiters, w)
      /\ UNCHANGED <<cap, held, heldDevices, down>>
  BY DEF Enqueue, Enlist, Refused
<1>2. held >= cap
  <2>1. cap \in Nat /\ held \in Nat
    BY ConstantsAssumption DEF LineInv, TypeOK
  <2> QED  BY <2>1 DEF Enqueue, SlotFree, LineInv, NoIdlePermit
<1>3. OneWaiterPerDevice' /\ InOrder
  BY <1>1, JoiningKeepsLine
<1> QED  BY <1>1, <1>2, <1>3 DEF LineInv, NoIdlePermit

\* Whatever happens, the line is served in order and does not stand still
\* beside a free slot.
LEMMA LineStep ==
  ASSUME LineInv, [Next]_vars
  PROVE  LineInv' /\ InOrder
<1>1. TypeOK'
  BY StepKeepsType
<1>2. CASE UNCHANGED vars
  BY <1>1, <1>2, StillLineInOrder DEF vars, schedVars
<1>3. ASSUME NEW w \in Worker,
             \/ BeginStep(w) \/ NextJob(w) \/ GiveUp(w) \/ Refuse(w)
             \/ RequestAbort(w) \/ Wake(w) \/ TimeOut(w) \/ ResolveGrant(w)
      PROVE  LineInv' /\ InOrder
  <2>1. UNCHANGED <<cap, held, heldDevices, waiters, down>>
    BY <1>3 DEF BeginStep, NextJob, GiveUp, Refuse, RequestAbort, Wake, TimeOut,
                ResolveGrant, schedVars
  <2> QED  BY <1>1, <2>1, StillLineInOrder
<1>4. ASSUME NEW w \in Worker, TakeSlot(w)
      PROVE  LineInv' /\ InOrder
  <2>1. waiters = <<>> /\ waiters' = <<>>
    BY <1>4 DEF TakeSlot, SlotFree
  <2> QED  BY <1>1, <2>1, EmptyLineInOrder
<1>5. ASSUME NEW w \in Worker, Enqueue(w)
      PROVE  LineInv' /\ InOrder
  BY <1>1, <1>5, EnqueueInOrder
<1>6. ASSUME NEW w \in Worker, CheckLate(w) \/ CancelDevice(w)
      PROVE  LineInv' /\ InOrder
  <2>1. /\ waiters' = waiters \/ waiters' = Without(devOf[w])
        /\ UNCHANGED <<cap, held, heldDevices, down>>
    BY <1>6 DEF CheckLate, CancelDevice
  <2> QED  BY <1>1, <2>1, StillLineInOrder, LeaverInOrder
<1>7. ASSUME NEW w \in Worker, ResolveShutdown(w)
      PROVE  LineInv' /\ InOrder
  <2>1. /\ waiters' = <<>> /\ heldDevices' \subseteq heldDevices
    BY <1>7 DEF ResolveShutdown, LineInv
  <2> QED  BY <1>1, <2>1, EmptyLineInOrder
<1>8. ASSUME NEW w \in Worker, ResolveCancel(w)
      PROVE  LineInv' /\ InOrder
  <2> DEFINE h == GivenBack(devOf[w])
             hd == heldDevices \ {devOf[w]}
             ho == handoff \ {devOf[w]}
  <2>1. CASE devOf[w] \in handoff
    <3>1. Promote(h, hd, ho, cap') /\ down' = down
      BY <1>8, <2>1 DEF ResolveCancel
    <3>2. h \in Nat /\ hd \in SUBSET heldDevices
      BY SlotsStayNatural DEF LineInv
    <3> HIDE DEF h, hd, ho
    <3> QED  BY <1>1, <3>1, <3>2, PromotingKeepsLine
  <2>2. CASE devOf[w] \notin handoff
    <3>1. UNCHANGED <<cap, held, heldDevices, waiters, down>>
      BY <1>8, <2>2 DEF ResolveCancel
    <3> QED  BY <1>1, <3>1, StillLineInOrder
  <2> QED  BY <2>1, <2>2
<1>9. ASSUME NEW w \in Worker, Release(w)
      PROVE  LineInv' /\ InOrder
  <2> DEFINE hd == heldDevices \ {devOf[w]}
  <2>1. Promote(LessOne(held), hd, handoff, cap') /\ down' = down
    BY <1>9 DEF Release
  <2>2. LessOne(held) \in Nat /\ hd \in SUBSET heldDevices
    BY SlotsStayNatural DEF LineInv
  <2> HIDE DEF hd
  <2> QED  BY <1>1, <2>1, <2>2, PromotingKeepsLine
<1>10. ASSUME NEW n \in Caps \cup {0}, SetCap(n)
       PROVE  LineInv' /\ InOrder
  <2>1. Promote(held, heldDevices, handoff, cap') /\ down' = down
    BY <1>10 DEF SetCap
  <2>2. held \in Nat /\ heldDevices \in SUBSET heldDevices
    BY DEF LineInv, TypeOK
  <2> QED  BY <1>1, <2>1, <2>2, PromotingKeepsLine
<1>11. CASE Shutdown
  <2>1. waiters' = <<>> /\ heldDevices' = heldDevices
    BY <1>11 DEF Shutdown
  <2> QED  BY <1>1, <2>1, EmptyLineInOrder
<1> QED  BY <1>2, <1>3, <1>4, <1>5, <1>6, <1>7, <1>8, <1>9, <1>10, <1>11
         DEF Next, Acquire, Resolve

LEMMA InitLine == Init => LineInv
<1> SUFFICES ASSUME Init PROVE LineInv
  OBVIOUS
<1>1. waiters = <<>> /\ waiters \in Seq(Worker)
  BY EmptySeq DEF Init
<1>2. TypeOK
  BY <1>1 DEF Init, TypeOK, Places, Stages
<1> QED  BY <1>1, <1>2 DEF LineInv, OneWaiterPerDevice, NoIdlePermit

-----------------------------------------------------------------------------
\* The inductive invariant of the line, which asks nothing of the workers.
THEOREM LineCorrect == Spec => []LineInv
<1>1. LineInv /\ [Next]_vars => LineInv'
  BY LineStep
<1> QED  BY InitLine, <1>1, PTL DEF Spec

\* Every variable keeps to its type (state of OperationScheduler.__init__).
THEOREM TypeCorrect == Spec => []TypeOK
<1>1. LineInv => TypeOK
  BY DEF LineInv
<1> QED  BY <1>1, LineCorrect, PTL

\* Nobody waits in line beside a free slot, whatever releases, cancellations
\* and changes of the cap come in between (_wake_one_locked).
THEOREM LineMoves == Spec => []NoIdlePermit
<1>1. LineInv => NoIdlePermit
  BY DEF LineInv
<1> QED  BY <1>1, LineCorrect, PTL

\* At most one waiter per device, also when a device has two workers (acquire).
THEOREM OnePlaceEach == Spec => []OneWaiterPerDevice
<1>1. LineInv => OneWaiterPerDevice
  BY DEF LineInv
<1> QED  BY <1>1, LineCorrect, PTL

\* First come, first served, whatever timeouts and cancellations take out of
\* the middle of the line (the OrderedDict of acquire and _wake_one_locked).
THEOREM ServedInOrder == Spec => NobodyOvertaken
<1>1. LineInv /\ [Next]_vars => [InOrder]_vars
  BY LineStep
<1> QED  BY <1>1, LineCorrect, PTL DEF Spec, NobodyOvertaken
=============================================================================
