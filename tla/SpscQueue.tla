------------------------------- MODULE SpscQueue -------------------------------
(***************************************************************************)
(* The cached single-producer single-consumer ring buffer of               *)
(* fast_cpp_spsc_queue/queue.cc (push2 and pop2) under the program's four  *)
(* threads: producer, consumer, print_stats and main.                      *)
(*                                                                         *)
(* Cursors are size_t values: they live in 0 .. Modulus-1 and wrap.  Every *)
(* atomic access, every access to a slot and every access to runflag is a  *)
(* step of its own.  An acquire load of the other thread's cursor may      *)
(* return any value from the last one this thread saw up to the newest one *)
(* (read-read coherence is all that acquire/release gives); what was       *)
(* written before the release store of the value it returns is visible.    *)
(***************************************************************************)
EXTENDS Integers, Sequences

CONSTANTS
  Capacity,    \* ring_buffer::capacity, 1 << 20
  Modulus,     \* size_t wraps here, 2^64
  Iterations   \* records exchanged, 1 << 34

\* The code's capacity is a power of two below 2^64, so it divides the
\* wrap-around point of the cursors and is smaller than it.
ASSUME RingAssumption ==
  /\ Capacity \in Nat \ {0} /\ Modulus \in Nat /\ Iterations \in Nat
  /\ Capacity < Modulus /\ Modulus % Capacity = 0

VARIABLES
  producerCursor,  \* next_producer_record
  consumerCursor,  \* next_consumer_record
  cachedConsumer,  \* cached_consumer_record, used by the producer only
  cachedProducer,  \* cached_producer_record, used by the consumer only
  data,            \* the slots
  prodPc, prodIdx, produced,       \* producer thread: position, `producer`, `counter`
  consPc, consIdx, consumed, val,  \* consumer thread: position, `consumer`, `counter`, `record`
  statsPc,                         \* print_stats thread: position
  mainPc, runflag                  \* main thread: position, the global flag

ringVars  == <<producerCursor, consumerCursor, cachedConsumer, cachedProducer, data>>
prodVars  == <<prodPc, prodIdx, produced>>
consVars  == <<consPc, consIdx, consumed, val>>
mainVars  == <<mainPc, runflag>>
vars      == <<ringVars, prodVars, consVars, statsPc, mainVars>>

Cursor == 0 .. Modulus - 1
Slot   == 0 .. Capacity - 1
Record == -1 .. Iterations - 1     \* -1: a slot nothing was written to yet

\* size_t subtraction and increment
Minus(a, b) == (a - b) % Modulus
SuccNoWrap(a) == a + 1  \* mutant: the cursor outgrows its type
Succ(a)     == (a + 1) % Modulus

MapIndex(index) == index % Capacity

\* What an acquire load may return of a cursor that stands at newest when this
\* thread last saw seen.
Loadable(newest, seen) == {(seen + k) % Modulus : k \in 0 .. Minus(newest, seen)}

\* has_space's and has_data's test.
HasSpaceOffByOne(producer, consumer) == Minus(producer, consumer) <= Capacity  \* mutant
HasSpace(producer, consumer) == Minus(producer, consumer) < Capacity

HasDataOrdered(producer, consumer) == producer > consumer  \* mutant: forgets that cursors wrap
HasData(producer, consumer) == Minus(producer, consumer) # 0

Init ==
  /\ producerCursor = 0 /\ consumerCursor = 0
  /\ cachedConsumer = 0 /\ cachedProducer = 0
  /\ data = [s \in Slot |-> -1]
  /\ prodPc = "loop" /\ prodIdx = 0 /\ produced = 0
  /\ consPc = "loop" /\ consIdx = 0 /\ consumed = 0 /\ val = -1
  /\ statsPc = "loop"
  /\ mainPc = "join" /\ runflag = TRUE

--------------------------------------------------------------------------------
\* The producer thread: producer() calling push2.

\* while (counter < iterations): enter push2, which loads its own cursor.
PushBegin ==
  /\ prodPc = "loop" /\ produced < Iterations
  /\ prodPc' = "space" /\ prodIdx' = producerCursor
  /\ UNCHANGED <<produced, ringVars, consVars, statsPc, mainVars>>

ProducerExit ==
  /\ prodPc = "loop" /\ produced >= Iterations
  /\ prodPc' = "done"
  /\ UNCHANGED <<prodIdx, produced, ringVars, consVars, statsPc, mainVars>>

\* has_space decides on the cached cursor.
SpaceFromCache ==
  /\ prodPc = "space" /\ HasSpace(prodIdx, cachedConsumer)
  /\ prodPc' = "write"
  /\ UNCHANGED <<prodIdx, produced, ringVars, consVars, statsPc, mainVars>>

\* has_space has to look: load, cache, decide; no space means sleep and retry.
SpaceFromLoad(consumer) ==
  /\ prodPc = "space" /\ ~HasSpace(prodIdx, cachedConsumer)
  /\ cachedConsumer' = consumer
  /\ prodPc' = IF HasSpace(prodIdx, consumer) THEN "write" ELSE "space"
  /\ UNCHANGED <<producerCursor, consumerCursor, cachedProducer, data, prodIdx, produced,
                 consVars, statsPc, mainVars>>

WriteSlot ==
  /\ prodPc = "write"
  /\ data' = [data EXCEPT ![MapIndex(prodIdx)] = produced]
  /\ prodPc' = "publish"
  /\ UNCHANGED <<producerCursor, consumerCursor, cachedConsumer, cachedProducer, prodIdx,
                 produced, consVars, statsPc, mainVars>>

\* The release store that ends push2, and ++counter.
Publish ==
  /\ prodPc = "publish"
  /\ producerCursor' = Succ(prodIdx)
  /\ produced' = produced + 1
  /\ prodPc' = "loop"
  /\ UNCHANGED <<consumerCursor, cachedConsumer, cachedProducer, data, prodIdx, consVars,
                 statsPc, mainVars>>

Producer ==
  \/ PushBegin
  \/ ProducerExit
  \/ SpaceFromCache
  \/ \E consumer \in Loadable(consumerCursor, cachedConsumer) : SpaceFromLoad(consumer)
  \/ WriteSlot
  \/ Publish

--------------------------------------------------------------------------------
\* The consumer thread: consumer() calling pop2.

PopBegin ==
  /\ consPc = "loop" /\ consumed < Iterations
  /\ consPc' = "data" /\ consIdx' = consumerCursor
  /\ UNCHANGED <<consumed, val, ringVars, prodVars, statsPc, mainVars>>

ConsumerExit ==
  /\ consPc = "loop" /\ consumed >= Iterations
  /\ consPc' = "done"
  /\ UNCHANGED <<consIdx, consumed, val, ringVars, prodVars, statsPc, mainVars>>

\* has_data decides on the cached cursor.
DataFromCache ==
  /\ consPc = "data" /\ HasData(cachedProducer, consIdx)
  /\ consPc' = "read"
  /\ UNCHANGED <<consIdx, consumed, val, ringVars, prodVars, statsPc, mainVars>>

\* Mutant: the consumer trusts its first look for one record more than it saw.
DataFromLoadBiased(producer) ==
  /\ consPc = "data" /\ ~HasData(cachedProducer, consIdx)
  /\ cachedProducer' = Succ(producer)
  /\ consPc' = IF HasData(producer, consIdx) THEN "read" ELSE "data"
  /\ UNCHANGED <<producerCursor, consumerCursor, cachedConsumer, data, consIdx, consumed, val,
                 prodVars, statsPc, mainVars>>

\* has_data has to look: load, cache, decide; nothing new means sleep and retry.
DataFromLoad(producer) ==
  /\ consPc = "data" /\ ~HasData(cachedProducer, consIdx)
  /\ cachedProducer' = producer
  /\ consPc' = IF HasData(producer, consIdx) THEN "read" ELSE "data"
  /\ UNCHANGED <<producerCursor, consumerCursor, cachedConsumer, data, consIdx, consumed, val,
                 prodVars, statsPc, mainVars>>

ReadSlot ==
  /\ consPc = "read"
  /\ val' = data[MapIndex(consIdx)]
  /\ consPc' = "release"
  /\ UNCHANGED <<consIdx, consumed, ringVars, prodVars, statsPc, mainVars>>

\* The release store that ends pop2; the caller asserts val == counter and counts.
Release ==
  /\ consPc = "release"
  /\ consumerCursor' = Succ(consIdx)
  /\ consumed' = consumed + 1
  /\ consPc' = "loop"
  /\ UNCHANGED <<producerCursor, cachedConsumer, cachedProducer, data, consIdx, val, prodVars,
                 statsPc, mainVars>>

Consumer ==
  \/ PopBegin
  \/ ConsumerExit
  \/ DataFromCache
  \/ \E producer \in Loadable(producerCursor, cachedProducer) : DataFromLoad(producer)
  \/ ReadSlot
  \/ Release

--------------------------------------------------------------------------------
\* print_stats and main.

\* while (runflag): the flag is a plain bool written by main while this thread
\* reads it.  The loop makes opaque calls, so the build reloads it every time
\* round, and may still see the old value for a while.
StatsSample(seenFlag) ==
  /\ statsPc = "loop" /\ seenFlag
  /\ statsPc' = "sleep"
  /\ UNCHANGED <<ringVars, prodVars, consVars, mainVars>>

StatsWake ==
  /\ statsPc = "sleep"
  /\ statsPc' = "loop"
  /\ UNCHANGED <<ringVars, prodVars, consVars, mainVars>>

StatsExit(seenFlag) ==
  /\ statsPc = "loop" /\ ~seenFlag
  /\ statsPc' = "done"
  /\ UNCHANGED <<ringVars, prodVars, consVars, mainVars>>

Stats ==
  \/ \E seenFlag \in {runflag, TRUE} : StatsSample(seenFlag) \/ StatsExit(seenFlag)
  \/ StatsWake

\* prod.join(); cons.join(); runflag = false
JoinWorkers ==
  /\ mainPc = "join" /\ prodPc = "done" /\ consPc = "done"
  /\ runflag' = FALSE
  /\ mainPc' = "joinStats"
  /\ UNCHANGED <<ringVars, prodVars, consVars, statsPc>>

\* stats.join(); return
JoinStats ==
  /\ mainPc = "joinStats" /\ statsPc = "done"
  /\ mainPc' = "done"
  /\ UNCHANGED <<runflag, ringVars, prodVars, consVars, statsPc>>

Main == JoinWorkers \/ JoinStats

--------------------------------------------------------------------------------
Next == Producer \/ Consumer \/ Stats \/ Main

Spec == Init /\ [][Next]_vars

\* The operating system runs every thread that can run, and a store becomes
\* visible to the other thread in finite time: a thread that keeps loading does
\* not get the old value for ever.
Fairness ==
  /\ WF_vars(Producer) /\ WF_vars(Consumer) /\ WF_vars(Main)
  /\ WF_vars(SpaceFromLoad(consumerCursor))
  /\ WF_vars(DataFromLoad(producerCursor))
  /\ WF_vars(StatsWake) /\ SF_vars(StatsExit(runflag))

FairSpec == Spec /\ Fairness

--------------------------------------------------------------------------------
\* Properties.

TypeOK ==
  /\ producerCursor \in Cursor /\ consumerCursor \in Cursor
  /\ cachedConsumer \in Cursor /\ cachedProducer \in Cursor
  /\ data \in [Slot -> Record]
  /\ prodPc \in {"loop", "space", "write", "publish", "done"}
  /\ prodIdx \in Cursor /\ produced \in 0 .. Iterations
  /\ consPc \in {"loop", "data", "read", "release", "done"}
  /\ consIdx \in Cursor /\ consumed \in 0 .. Iterations /\ val \in Record
  /\ statsPc \in {"loop", "sleep", "done"}
  /\ mainPc \in {"join", "joinStats", "done"} /\ runflag \in BOOLEAN

\* consumer() asserts val == counter (queue.cc:145): the n-th record popped is
\* the n-th record pushed, whatever the cursors wrapped around to.
DeliveredInOrder == consPc = "release" => val = consumed

\* The two threads are never about to touch the same slot, one of them writing
\* (queue.cc:77 against queue.cc:88): the plain accesses to data do not race.
NoSlotRace ==
  prodPc = "write" /\ consPc = "read" => MapIndex(prodIdx) # MapIndex(consIdx)

\* A stale cache errs on the safe side: the consumer never believes in records
\* that were not published, the producer never in space that was not released
\* (queue.cc:43 and queue.cc:52 decide on the caches alone).
CachesAreConservative ==
  /\ Minus(cachedProducer, consumerCursor) <= Minus(producerCursor, consumerCursor)
  /\ Minus(producerCursor, consumerCursor) <= Minus(producerCursor, cachedConsumer)
  /\ Minus(producerCursor, cachedConsumer) <= Capacity

\* The queue implements the bounded FIFO: a record enters it with the
\* producer's release store and leaves it with the consumer's.
Contents == [i \in 1 .. produced - consumed |-> data[MapIndex(consumed + i - 1)]]
Fifo == INSTANCE BoundedFifo WITH queue <- Contents, putCount <- produced, takeCount <- consumed
ImplementsFifo == Fifo!FifoSpec

\* main returns: the producer and the consumer exchange all the records, neither
\* waits for the other for ever, and the statistics thread sees the cleared flag.
MainReturns == <>(mainPc = "done")
================================================================================
