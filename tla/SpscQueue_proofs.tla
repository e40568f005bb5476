---------------------------- MODULE SpscQueue_proofs ---------------------------
(***************************************************************************)
(* Proofs about SpscQueue for every capacity, every wrap-around point that *)
(* the capacity divides, and every number of records.                      *)
(*                                                                         *)
(* The invariant counts instead of wrapping: the cursors are the wrapped   *)
(* counts of published and released records, a cached cursor is the        *)
(* wrapped value of a count that is not too new and not too old, and the   *)
(* slots between the two counts hold exactly the records of those numbers. *)
(***************************************************************************)
EXTENDS SpscQueue, NumberLemmas

\* The cursors are the counts, wrapped; a thread inside push2 or pop2 holds its own.
CursorsAreCounts ==
  /\ producerCursor = produced % Modulus
  /\ consumerCursor = consumed % Modulus
  /\ prodPc \in {"space", "write", "publish"} => prodIdx = producerCursor /\ produced < Iterations
  /\ consPc \in {"data", "read", "release"} => consIdx = consumerCursor /\ consumed < Iterations

\* The producer's cached cursor is a released count that leaves the queue with
\* room: for one record more once has_space has said so.
CachedConsumerBehind ==
  \E c \in Nat :
    /\ c <= consumed
    /\ produced - c <= Capacity
    /\ prodPc \in {"write", "publish"} => produced - c < Capacity
    /\ cachedConsumer = c % Modulus

\* The consumer's cached cursor is a published count: past its own position
\* once has_data has said so.
CachedProducerBehind ==
  \E p \in Nat :
    /\ consumed <= p /\ p <= produced
    /\ consPc \in {"read", "release"} => consumed < p
    /\ cachedProducer = p % Modulus

\* The slots from the oldest unreleased record to the newest written one.
SlotsHoldRecords ==
  /\ \A i \in consumed .. produced - 1 : data[i % Capacity] = i
  /\ prodPc = "publish" => data[produced % Capacity] = produced
  /\ consPc = "release" => val = consumed

Inv ==
  /\ TypeOK
  /\ CursorsAreCounts
  /\ CachedConsumerBehind
  /\ CachedProducerBehind
  /\ SlotsHoldRecords

--------------------------------------------------------------------------------
\* What the ring's parameters are.
LEMMA Ring ==
  /\ Capacity \in Nat \ {0} /\ Modulus \in Nat \ {0} /\ Iterations \in Nat
  /\ Capacity < Modulus /\ Modulus % Capacity = 0
  BY RingAssumption

\* The wrapped difference of two counts at most Capacity apart is the true one.
LEMMA TrueDifference ==
  ASSUME NEW a \in Nat, NEW b \in Nat, b <= a, a - b <= Capacity
  PROVE  Minus(a % Modulus, b % Modulus) = a - b
<1>1. a \in Int /\ b \in Int /\ a - b < Modulus  BY Ring
<1>2. ((a % Modulus) - (b % Modulus)) % Modulus = a - b  BY <1>1, Ring, WrappedDifference
<1> QED BY <1>2 DEF Minus

\* The slot a wrapped cursor maps to is the slot of the count it wraps.
LEMMA SlotOfCount ==
  ASSUME NEW a \in Nat
  PROVE  MapIndex(a % Modulus) = a % Capacity /\ a % Capacity \in Slot
<1>0. a \in Int  OBVIOUS
<1>1. (a % Modulus) % Capacity = a % Capacity  BY <1>0, Ring, SlotOfWrapped
<1>2. a % Capacity \in 0 .. Capacity - 1  BY Ring, DivMod
<1> QED BY <1>1, <1>2 DEF MapIndex, Slot

\* A load returns the wrapped value of a count between the one last seen and
\* the newest one.
LEMMA LoadedCount ==
  ASSUME NEW seen \in Nat, NEW newest \in Nat, seen <= newest, newest - seen <= Capacity,
         NEW x \in Loadable(newest % Modulus, seen % Modulus)
  PROVE  \E n \in Nat : seen <= n /\ n <= newest /\ x = n % Modulus
<1>1. Minus(newest % Modulus, seen % Modulus) = newest - seen  BY TrueDifference
<1>2. PICK k \in 0 .. newest - seen : x = ((seen % Modulus) + k) % Modulus
  BY <1>1 DEF Loadable
<1> seen \in Int /\ k \in Int  OBVIOUS
<1>3. ((seen % Modulus) + k) % Modulus = (seen + k) % Modulus  BY Ring, WrappedAdvance
<1>4. seen + k \in Nat /\ seen <= seen + k /\ seen + k <= newest  BY <1>2
<1> QED BY <1>2, <1>3, <1>4

\* The cursor of a count is in range, and its successor is the cursor of the next count.
LEMMA CursorOfCount ==
  ASSUME NEW a \in Nat
  PROVE  a % Modulus \in Cursor /\ Succ(a % Modulus) = (a + 1) % Modulus
<1>1. a % Modulus \in Cursor  BY Ring, DivMod DEF Cursor
<1>2. a \in Int /\ 1 \in Int  OBVIOUS
<1>3. ((a % Modulus) + 1) % Modulus = (a + 1) % Modulus  BY <1>2, Ring, WrappedAdvance
<1> QED BY <1>1, <1>3 DEF Succ

--------------------------------------------------------------------------------
\* Before main the queue is empty and both cached cursors are exact.
LEMMA InvInit == Init => Inv
<1> SUFFICES ASSUME Init PROVE Inv  OBVIOUS
<1>1. 0 % Modulus = 0  BY Ring
<1>2. TypeOK  BY Ring DEF Init, TypeOK, Cursor, Slot, Record
<1>3. CursorsAreCounts  BY <1>1 DEF Init, CursorsAreCounts
<1>4. CachedConsumerBehind  BY <1>1, Ring DEF Init, CachedConsumerBehind
<1>5. CachedProducerBehind  BY <1>1 DEF Init, CachedProducerBehind
<1>6. SlotsHoldRecords  BY DEF Init, SlotsHoldRecords
<1> QED BY <1>2, <1>3, <1>4, <1>5, <1>6 DEF Inv

\* The steps of the producer preserve the invariant.
LEMMA ProducerInv ==
  ASSUME Inv, Producer
  PROVE  Inv'
<1> USE DEF Inv, consVars, ringVars, mainVars
<1>1. CASE PushBegin
  <2>1. TypeOK'  BY <1>1 DEF PushBegin, TypeOK
  <2>2. CursorsAreCounts'  BY <1>1 DEF PushBegin, CursorsAreCounts
  <2>3. CachedConsumerBehind'  BY <1>1 DEF PushBegin, CachedConsumerBehind
  <2>4. CachedProducerBehind'  BY <1>1 DEF PushBegin, CachedProducerBehind
  <2>5. SlotsHoldRecords'  BY <1>1 DEF PushBegin, SlotsHoldRecords
  <2> QED BY <2>1, <2>2, <2>3, <2>4, <2>5
<1>2. CASE ProducerExit
  <2>1. TypeOK'  BY <1>2 DEF ProducerExit, TypeOK
  <2>2. CursorsAreCounts'  BY <1>2 DEF ProducerExit, CursorsAreCounts
  <2>3. CachedConsumerBehind'  BY <1>2 DEF ProducerExit, CachedConsumerBehind
  <2>4. CachedProducerBehind'  BY <1>2 DEF ProducerExit, CachedProducerBehind
  <2>5. SlotsHoldRecords'  BY <1>2 DEF ProducerExit, SlotsHoldRecords
  <2> QED BY <2>1, <2>2, <2>3, <2>4, <2>5
<1>3. CASE SpaceFromCache
  <2>1. TypeOK'  BY <1>3 DEF SpaceFromCache, TypeOK
  <2>2. CursorsAreCounts'  BY <1>3 DEF SpaceFromCache, CursorsAreCounts
  <2>3. CachedConsumerBehind'
    <3>1. PICK c \in Nat : c <= consumed /\ produced - c <= Capacity /\ cachedConsumer = c % Modulus
      BY DEF CachedConsumerBehind
    <3>2. produced \in Nat /\ consumed <= produced  BY DEF TypeOK, CachedProducerBehind
    <3>3. Minus(producerCursor, cachedConsumer) = produced - c
      BY <3>1, <3>2, TrueDifference DEF TypeOK, CursorsAreCounts
    <3>4. produced - c < Capacity  BY <1>3, <3>3 DEF SpaceFromCache, HasSpace, CursorsAreCounts
    <3> QED BY <1>3, <3>1, <3>4 DEF SpaceFromCache, CachedConsumerBehind
  <2>4. CachedProducerBehind'  BY <1>3 DEF SpaceFromCache, CachedProducerBehind
  <2>5. SlotsHoldRecords'  BY <1>3 DEF SpaceFromCache, SlotsHoldRecords
  <2> QED BY <2>1, <2>2, <2>3, <2>4, <2>5
<1>4. ASSUME NEW consumer \in Loadable(consumerCursor, cachedConsumer), SpaceFromLoad(consumer)
      PROVE  Inv'
  <2>1. PICK c \in Nat : c <= consumed /\ produced - c <= Capacity /\ cachedConsumer = c % Modulus
    BY DEF CachedConsumerBehind
  <2>2. produced \in Nat /\ consumed \in Nat /\ consumed <= produced
    BY DEF TypeOK, CachedProducerBehind
  <2>3. PICK n \in Nat : c <= n /\ n <= consumed /\ consumer = n % Modulus
    <3>1. consumed - c <= Capacity  BY <2>1, <2>2, Ring
    <3> QED BY <1>4, <2>1, <2>2, <3>1, LoadedCount DEF CursorsAreCounts
  <2>4. Minus(producerCursor, consumer) = produced - n
    <3>1. n <= produced /\ produced - n <= Capacity  BY <2>1, <2>2, <2>3, Ring
    <3> QED BY <2>2, <2>3, <3>1, TrueDifference DEF CursorsAreCounts
  <2>5. TypeOK'
    <3>1. consumer \in Cursor  BY <2>3, CursorOfCount
    <3> QED BY <1>4, <3>1 DEF SpaceFromLoad, TypeOK
  <2>6. CursorsAreCounts'  BY <1>4 DEF SpaceFromLoad, CursorsAreCounts
  <2>7. CachedConsumerBehind'
    <3>1. produced - n <= Capacity  BY <2>1, <2>2, <2>3, Ring
    <3>2. prodPc' \in {"write", "publish"} => produced - n < Capacity
      BY <1>4, <2>4 DEF SpaceFromLoad, HasSpace, CursorsAreCounts
    <3> QED BY <1>4, <2>3, <3>1, <3>2 DEF SpaceFromLoad, CachedConsumerBehind
  <2>8. CachedProducerBehind'  BY <1>4 DEF SpaceFromLoad, CachedProducerBehind
  <2>9. SlotsHoldRecords'  BY <1>4 DEF SpaceFromLoad, SlotsHoldRecords
  <2> QED BY <2>5, <2>6, <2>7, <2>8, <2>9
<1>5. CASE WriteSlot
  <2>1. PICK c \in Nat : c <= consumed /\ produced - c < Capacity
    BY <1>5 DEF WriteSlot, CachedConsumerBehind
  <2>2. produced \in Nat /\ consumed \in Nat  BY DEF TypeOK
  <2>3. produced < Iterations /\ prodIdx = produced % Modulus
    BY <1>5 DEF WriteSlot, CursorsAreCounts
  <2>4. data' = [data EXCEPT ![produced % Capacity] = produced] /\ produced % Capacity \in Slot
    BY <1>5, <2>2, <2>3, SlotOfCount DEF WriteSlot
  <2>5. TypeOK'
    <3>1. produced \in Record  BY <2>2, <2>3, Ring DEF Record
    <3>2. data' \in [Slot -> Record]  BY <2>4, <3>1 DEF TypeOK
    <3> QED BY <1>5, <3>2 DEF WriteSlot, TypeOK
  <2>6. CursorsAreCounts'  BY <1>5 DEF WriteSlot, CursorsAreCounts
  <2>7. CachedConsumerBehind'  BY <1>5 DEF WriteSlot, CachedConsumerBehind
  <2>8. CachedProducerBehind'  BY <1>5 DEF WriteSlot, CachedProducerBehind
  <2>9. SlotsHoldRecords'
    <3>1. ASSUME NEW i \in consumed .. produced - 1
          PROVE  data'[i % Capacity] = i
      <4>1. i \in Nat /\ i \in Int /\ produced \in Int /\ i < produced /\ produced - i < Capacity
        BY <2>1, <2>2, Ring
      <4>2. produced % Capacity # i % Capacity  BY <4>1, Ring, DistinctSlots
      <4>3. i % Capacity \in Slot  BY <4>1, SlotOfCount
      <4>4. data[i % Capacity] = i  BY DEF SlotsHoldRecords
      <4> QED BY <2>4, <4>2, <4>3, <4>4 DEF TypeOK
    <3>2. data'[produced % Capacity] = produced  BY <2>4 DEF TypeOK
    <3> QED BY <1>5, <3>1, <3>2 DEF WriteSlot, SlotsHoldRecords
  <2> QED BY <2>5, <2>6, <2>7, <2>8, <2>9
<1>6. CASE Publish
  <2>1. produced \in Nat /\ consumed \in Nat /\ produced < Iterations /\ produced' = produced + 1
    BY <1>6 DEF Publish, TypeOK, CursorsAreCounts
  <2>2. producerCursor' = (produced + 1) % Modulus /\ producerCursor' \in Cursor
    BY <1>6, <2>1, CursorOfCount DEF Publish, CursorsAreCounts
  <2>3. TypeOK'  BY <1>6, <2>1, <2>2, Ring DEF Publish, TypeOK
  <2>4. CursorsAreCounts'  BY <1>6, <2>1, <2>2 DEF Publish, CursorsAreCounts
  <2>5. CachedConsumerBehind'  BY <1>6, <2>1, Ring DEF Publish, CachedConsumerBehind
  <2>6. CachedProducerBehind'  BY <1>6, <2>1 DEF Publish, CachedProducerBehind
  <2>7. SlotsHoldRecords'
    <3>1. \A i \in consumed .. produced : data[i % Capacity] = i
      BY <1>6, <2>1 DEF Publish, SlotsHoldRecords
    <3> QED BY <1>6, <2>1, <3>1 DEF Publish, SlotsHoldRecords
  <2> QED BY <2>3, <2>4, <2>5, <2>6, <2>7
<1> QED BY <1>1, <1>2, <1>3, <1>4, <1>5, <1>6 DEF Producer

\* The steps of the consumer preserve the invariant.
LEMMA ConsumerInv ==
  ASSUME Inv, Consumer
  PROVE  Inv'
<1> USE DEF Inv, prodVars, ringVars, mainVars
<1>1. CASE PopBegin
  <2>1. TypeOK'  BY <1>1 DEF PopBegin, TypeOK
  <2>2. CursorsAreCounts'  BY <1>1 DEF PopBegin, CursorsAreCounts
  <2>3. CachedConsumerBehind'  BY <1>1 DEF PopBegin, CachedConsumerBehind
  <2>4. CachedProducerBehind'  BY <1>1 DEF PopBegin, CachedProducerBehind
  <2>5. SlotsHoldRecords'  BY <1>1 DEF PopBegin, SlotsHoldRecords
  <2> QED BY <2>1, <2>2, <2>3, <2>4, <2>5
<1>2. CASE ConsumerExit
  <2>1. TypeOK'  BY <1>2 DEF ConsumerExit, TypeOK
  <2>2. CursorsAreCounts'  BY <1>2 DEF ConsumerExit, CursorsAreCounts
  <2>3. CachedConsumerBehind'  BY <1>2 DEF ConsumerExit, CachedConsumerBehind
  <2>4. CachedProducerBehind'  BY <1>2 DEF ConsumerExit, CachedProducerBehind
  <2>5. SlotsHoldRecords'  BY <1>2 DEF ConsumerExit, SlotsHoldRecords
  <2> QED BY <2>1, <2>2, <2>3, <2>4, <2>5
<1>3. CASE DataFromCache
  <2>1. TypeOK'  BY <1>3 DEF DataFromCache, TypeOK
  <2>2. CursorsAreCounts'  BY <1>3 DEF DataFromCache, CursorsAreCounts
  <2>3. CachedConsumerBehind'  BY <1>3 DEF DataFromCache, CachedConsumerBehind
  <2>4. CachedProducerBehind'
    <3>1. PICK p \in Nat : consumed <= p /\ p <= produced /\ cachedProducer = p % Modulus
      BY DEF CachedProducerBehind
    <3>2. consumed \in Nat /\ p - consumed <= Capacity
      BY <3>1, Ring DEF TypeOK, CachedConsumerBehind
    <3>3. Minus(cachedProducer, consumerCursor) = p - consumed
      BY <3>1, <3>2, TrueDifference DEF CursorsAreCounts
    <3>4. consumed < p  BY <1>3, <3>1, <3>2, <3>3 DEF DataFromCache, HasData, CursorsAreCounts
    <3> QED BY <1>3, <3>1, <3>4 DEF DataFromCache, CachedProducerBehind
  <2>5. SlotsHoldRecords'  BY <1>3 DEF DataFromCache, SlotsHoldRecords
  <2> QED BY <2>1, <2>2, <2>3, <2>4, <2>5
<1>4. ASSUME NEW producer \in Loadable(producerCursor, cachedProducer), DataFromLoad(producer)
      PROVE  Inv'
  <2>1. PICK p \in Nat : consumed <= p /\ p <= produced /\ cachedProducer = p % Modulus
    BY DEF CachedProducerBehind
  <2>2. produced \in Nat /\ consumed \in Nat /\ produced - consumed <= Capacity
    BY Ring DEF TypeOK, CachedConsumerBehind
  <2>3. PICK n \in Nat : p <= n /\ n <= produced /\ producer = n % Modulus
    <3>1. produced - p <= Capacity  BY <2>1, <2>2, Ring
    <3> QED BY <1>4, <2>1, <2>2, <3>1, LoadedCount DEF CursorsAreCounts
  <2>4. Minus(producer, consumerCursor) = n - consumed
    <3>1. consumed <= n /\ n - consumed <= Capacity  BY <2>1, <2>2, <2>3, Ring
    <3> QED BY <2>2, <2>3, <3>1, TrueDifference DEF CursorsAreCounts
  <2>5. TypeOK'
    <3>1. producer \in Cursor  BY <2>3, CursorOfCount
    <3> QED BY <1>4, <3>1 DEF DataFromLoad, TypeOK
  <2>6. CursorsAreCounts'  BY <1>4 DEF DataFromLoad, CursorsAreCounts
  <2>7. CachedConsumerBehind'  BY <1>4 DEF DataFromLoad, CachedConsumerBehind
  <2>8. CachedProducerBehind'
    <3>1. consumed <= n  BY <2>1, <2>2, <2>3
    <3>2. consPc' \in {"read", "release"} => consumed < n
      BY <1>4, <2>2, <2>4, <3>1 DEF DataFromLoad, HasData, CursorsAreCounts
    <3> QED BY <1>4, <2>3, <3>1, <3>2 DEF DataFromLoad, CachedProducerBehind
  <2>9. SlotsHoldRecords'  BY <1>4 DEF DataFromLoad, SlotsHoldRecords
  <2> QED BY <2>5, <2>6, <2>7, <2>8, <2>9
<1>5. CASE ReadSlot
  <2>1. consumed \in Nat /\ consumed < produced /\ produced \in Nat
    BY <1>5 DEF ReadSlot, TypeOK, CachedProducerBehind
  <2>2. consIdx = consumed % Modulus  BY <1>5 DEF ReadSlot, CursorsAreCounts
  <2>3. val' = data[consumed % Capacity] /\ consumed % Capacity \in Slot
    BY <1>5, <2>1, <2>2, SlotOfCount DEF ReadSlot
  <2>4. val' = consumed  BY <2>1, <2>3 DEF SlotsHoldRecords
  <2>5. TypeOK'
    <3>1. val' \in Record  BY <2>3 DEF TypeOK
    <3> QED BY <1>5, <3>1 DEF ReadSlot, TypeOK
  <2>6. CursorsAreCounts'  BY <1>5 DEF ReadSlot, CursorsAreCounts
  <2>7. CachedConsumerBehind'  BY <1>5 DEF ReadSlot, CachedConsumerBehind
  <2>8. CachedProducerBehind'  BY <1>5 DEF ReadSlot, CachedProducerBehind
  <2>9. SlotsHoldRecords'  BY <1>5, <2>4 DEF ReadSlot, SlotsHoldRecords
  <2> QED BY <2>5, <2>6, <2>7, <2>8, <2>9
<1>6. CASE Release
  <2>1. produced \in Nat /\ consumed \in Nat /\ consumed < Iterations /\ consumed' = consumed + 1
    BY <1>6 DEF Release, TypeOK, CursorsAreCounts
  <2>2. consumerCursor' = (consumed + 1) % Modulus /\ consumerCursor' \in Cursor
    BY <1>6, <2>1, CursorOfCount DEF Release, CursorsAreCounts
  <2>3. TypeOK'  BY <1>6, <2>1, <2>2, Ring DEF Release, TypeOK
  <2>4. CursorsAreCounts'  BY <1>6, <2>1, <2>2 DEF Release, CursorsAreCounts
  <2>5. CachedConsumerBehind'  BY <1>6, <2>1 DEF Release, CachedConsumerBehind
  <2>6. CachedProducerBehind'  BY <1>6, <2>1 DEF Release, CachedProducerBehind
  <2>7. SlotsHoldRecords'  BY <1>6, <2>1 DEF Release, SlotsHoldRecords
  <2> QED BY <2>3, <2>4, <2>5, <2>6, <2>7
<1> QED BY <1>1, <1>2, <1>3, <1>4, <1>5, <1>6 DEF Consumer

\* print_stats and main change nothing the queue's invariant speaks of.
LEMMA OthersInv ==
  ASSUME Inv, Stats \/ Main \/ UNCHANGED vars
  PROVE  Inv'
<1> USE DEF Inv, prodVars, consVars, ringVars, mainVars
<1>1. UNCHANGED <<ringVars, prodVars, consVars>>
  BY DEF Stats, Main, StatsSample, StatsExit, StatsWake, JoinWorkers, JoinStats, vars
<1>2. TypeOK'
  BY <1>1, ZenonT(60) DEF TypeOK, Stats, Main, StatsSample, StatsExit, StatsWake, JoinWorkers, JoinStats, vars
<1>3. CursorsAreCounts'  BY <1>1 DEF CursorsAreCounts
<1>4. CachedConsumerBehind'  BY <1>1 DEF CachedConsumerBehind
<1>5. CachedProducerBehind'  BY <1>1 DEF CachedProducerBehind
<1>6. SlotsHoldRecords'  BY <1>1 DEF SlotsHoldRecords
<1> QED BY <1>2, <1>3, <1>4, <1>5, <1>6

\* The invariant holds in every reachable state of the four threads.
THEOREM Invariance == Spec => []Inv
<1>1. Init => Inv  BY InvInit
<1>2. Inv /\ [Next]_vars => Inv'  BY ProducerInv, ConsumerInv, OthersInv DEF Next
<1> QED BY <1>1, <1>2, PTL DEF Spec

\* The types of all variables (queue.cc:32-39 and the threads' locals): the
\* cursors never leave size_t, the counters never pass the number of records.
THEOREM TypeCorrect == Spec => []TypeOK
<1>1. Inv => TypeOK  BY DEF Inv
<1> QED BY Invariance, <1>1, PTL

\* consumer()'s assertion val == counter (queue.cc:145) never fails.
THEOREM DeliveryOrder == Spec => []DeliveredInOrder
<1>1. Inv => DeliveredInOrder  BY DEF Inv, SlotsHoldRecords, DeliveredInOrder
<1> QED BY Invariance, <1>1, PTL

\* The write of push2 (queue.cc:77) and the read of pop2 (queue.cc:88) never
\* meet in one slot.
THEOREM RaceFreedom == Spec => []NoSlotRace
<1>1. Inv => NoSlotRace
  <2>1. SUFFICES ASSUME Inv, prodPc = "write", consPc = "read"
                 PROVE  MapIndex(prodIdx) # MapIndex(consIdx)
    BY DEF NoSlotRace
  <2>2. produced \in Nat /\ consumed \in Nat /\ consumed < produced /\ produced - consumed < Capacity
    BY <2>1, Ring DEF Inv, TypeOK, CachedConsumerBehind, CachedProducerBehind
  <2>3. produced \in Int /\ consumed \in Int  BY <2>2
  <2>4. produced % Capacity # consumed % Capacity  BY <2>2, <2>3, Ring, DistinctSlots
  <2>5. prodIdx = produced % Modulus /\ consIdx = consumed % Modulus
    BY <2>1 DEF Inv, CursorsAreCounts
  <2> QED BY <2>2, <2>4, <2>5, SlotOfCount
<1> QED BY Invariance, <1>1, PTL

\* Deciding on a stale cached cursor (queue.cc:43, 52) is safe.
THEOREM ConservativeCaches == Spec => []CachesAreConservative
<1>1. Inv => CachesAreConservative
  <2>1. SUFFICES ASSUME Inv PROVE CachesAreConservative  OBVIOUS
  <2>2. PICK c \in Nat : c <= consumed /\ produced - c <= Capacity /\ cachedConsumer = c % Modulus
    BY <2>1 DEF Inv, CachedConsumerBehind
  <2>3. PICK p \in Nat : consumed <= p /\ p <= produced /\ cachedProducer = p % Modulus
    BY <2>1 DEF Inv, CachedProducerBehind
  <2>4. /\ produced \in Nat /\ consumed \in Nat
        /\ p - consumed <= Capacity /\ produced - consumed <= Capacity
        /\ c <= produced /\ consumed <= produced
    BY <2>1, <2>2, <2>3, Ring DEF Inv, TypeOK
  <2>5. producerCursor = produced % Modulus /\ consumerCursor = consumed % Modulus
    BY <2>1 DEF Inv, CursorsAreCounts
  <2>6. Minus(cachedProducer, consumerCursor) = p - consumed
    BY <2>3, <2>4, <2>5, TrueDifference
  <2>7. Minus(producerCursor, consumerCursor) = produced - consumed
    BY <2>4, <2>5, TrueDifference
  <2>8. Minus(producerCursor, cachedConsumer) = produced - c
    BY <2>2, <2>4, <2>5, TrueDifference
  <2> QED BY <2>2, <2>3, <2>4, <2>6, <2>7, <2>8 DEF CachesAreConservative
<1> QED BY Invariance, <1>1, PTL

--------------------------------------------------------------------------------
\* Refinement of the bounded FIFO.

\* The records from number c up to number p - 1, as a sequence.
Records(c, p) == [i \in 1 .. p - c |-> c + i - 1]

\* The slots between two counts, read in order, are the records of those numbers.
LEMMA ContentsAreRecords ==
  ASSUME NEW d, NEW c \in Nat, NEW p \in Nat, \A i \in c .. p - 1 : d[i % Capacity] = i
  PROVE  [i \in 1 .. p - c |-> d[(c + i - 1) % Capacity]] = Records(c, p)
<1>1. ASSUME NEW i \in 1 .. p - c PROVE d[(c + i - 1) % Capacity] = c + i - 1
  <2>1. c + i - 1 \in c .. p - 1  OBVIOUS
  <2> QED BY <2>1
<1> QED BY <1>1 DEF Records

\* A record produced goes behind those in the queue.
LEMMA AppendRecord ==
  ASSUME NEW c \in Nat, NEW p \in Nat, c <= p
  PROVE  Append(Records(c, p), p) = Records(c, p + 1) /\ Len(Records(c, p)) = p - c
<1>1. Records(c, p) \in Seq(Nat) /\ Len(Records(c, p)) = p - c
  BY DEF Records
<1> QED BY <1>1 DEF Records

\* A record consumed is the first in the queue.
LEMMA TakeRecord ==
  ASSUME NEW c \in Nat, NEW p \in Nat, c < p
  PROVE  /\ Records(c, p) # <<>> /\ Head(Records(c, p)) = c
         /\ Tail(Records(c, p)) = Records(c + 1, p)
<1>1. Records(c, p) \in Seq(Nat) /\ Len(Records(c, p)) = p - c  BY DEF Records
<1>2. Records(c, p) # <<>> /\ Head(Records(c, p)) = c  BY <1>1 DEF Records
<1>3. Tail(Records(c, p)) = Records(c + 1, p)  BY <1>1, <1>2 DEF Records
<1> QED BY <1>2, <1>3

HoldsRecords ==
  /\ produced \in Nat /\ consumed \in Nat /\ consumed <= produced
  /\ Contents = Records(consumed, produced)

\* The live slots read as a sequence are the records not consumed yet.
LEMMA QueueContents == Inv => HoldsRecords
<1> SUFFICES ASSUME Inv PROVE HoldsRecords  OBVIOUS
<1>1. produced \in Nat /\ consumed \in Nat /\ consumed <= produced
  BY DEF Inv, TypeOK, CachedProducerBehind
<1>2. \A i \in consumed .. produced - 1 : data[i % Capacity] = i
  BY DEF Inv, SlotsHoldRecords
<1>3. Contents = Records(consumed, produced)
  BY <1>1, <1>2, ContentsAreRecords DEF Contents, MapIndex
<1> QED BY <1>1, <1>3 DEF HoldsRecords

\* push2 and pop2 implement the bounded FIFO: publishing a record is Put,
\* releasing one is Take, every other step leaves the queue as it is.
THEOREM Refinement == Spec => ImplementsFifo
<1>1. Init => Fifo!FifoInit
  <2>1. SUFFICES ASSUME Init PROVE Fifo!FifoInit  OBVIOUS
  <2>2. produced = 0 /\ consumed = 0  BY <2>1 DEF Init
  <2>3. Contents = <<>>  BY <2>2 DEF Contents
  <2> QED BY <2>2, <2>3 DEF Fifo!FifoInit
<1>2. Inv /\ Inv' /\ [Next]_vars => [Fifo!FifoNext]_Fifo!fifoVars
  <2>1. SUFFICES ASSUME Inv, Inv', [Next]_vars PROVE [Fifo!FifoNext]_Fifo!fifoVars  OBVIOUS
  <2>2. HoldsRecords  BY <2>1, QueueContents
  <2>3. HoldsRecords'  BY <2>1, QueueContents, PTL
  <2>4. CASE Publish
    <3>1. produced' = produced + 1 /\ consumed' = consumed
      BY <2>4 DEF Publish, consVars
    <3>2. produced < Iterations /\ produced - consumed < Capacity
      BY <2>1, <2>4, Ring DEF Publish, Inv, CursorsAreCounts, CachedConsumerBehind, TypeOK
    <3>3. Contents' = Append(Contents, produced) /\ Len(Contents) = produced - consumed
      BY <2>2, <2>3, <3>1, AppendRecord DEF HoldsRecords
    <3> QED BY <3>1, <3>2, <3>3 DEF Fifo!FifoNext, Fifo!Put
  <2>5. CASE Release
    <3>1. consumed' = consumed + 1 /\ produced' = produced
      BY <2>5 DEF Release, prodVars
    <3>2. consumed < produced
      BY <2>1, <2>2, <2>5 DEF HoldsRecords, Release, Inv, CachedProducerBehind
    <3>3. Contents # <<>> /\ Head(Contents) = consumed /\ Contents' = Tail(Contents)
      BY <2>2, <2>3, <3>1, <3>2, TakeRecord DEF HoldsRecords
    <3> QED BY <3>1, <3>3 DEF Fifo!FifoNext, Fifo!Take
  <2>6. CASE UNCHANGED <<produced, consumed>>
    <3>1. Contents' = Contents  BY <2>2, <2>3, <2>6 DEF HoldsRecords
    <3> QED BY <2>6, <3>1 DEF Fifo!fifoVars
  <2>7. Publish \/ Release \/ UNCHANGED <<produced, consumed>>
    BY <2>1 DEF Next, vars, ringVars, prodVars, consVars, mainVars,
         Producer, PushBegin, ProducerExit, SpaceFromCache, SpaceFromLoad, WriteSlot,
         Consumer, PopBegin, ConsumerExit, DataFromCache, DataFromLoad, ReadSlot,
         Stats, StatsSample, StatsExit, StatsWake, Main, JoinWorkers, JoinStats
  <2> QED BY <2>4, <2>5, <2>6, <2>7
<1> QED BY Invariance, <1>1, <1>2, PTL DEF Spec, ImplementsFifo, Fifo!FifoSpec

================================================================================
