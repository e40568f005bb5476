------------------------------ MODULE BoundedFifo ------------------------------
(***************************************************************************)
(* What a single-producer single-consumer queue promises to the two        *)
(* threads of fast_cpp_spsc_queue/queue.cc: the producer hands over the    *)
(* records 0, 1, 2, ... and the consumer takes them in that order, none    *)
(* lost, none twice, never more than Capacity of them in between.          *)
(***************************************************************************)
EXTENDS Naturals, Sequences

CONSTANTS
  Capacity,    \* how many records may wait in the queue
  Iterations   \* how many records the producer sends in all

VARIABLES
  queue,       \* the records handed over and not yet taken, oldest first
  putCount,    \* records handed over so far
  takeCount    \* records taken so far

fifoVars == <<queue, putCount, takeCount>>

FifoInit ==
  /\ queue = <<>>
  /\ putCount = 0
  /\ takeCount = 0

\* The producer hands over its next record; it must wait while the queue is full.
Put ==
  /\ putCount < Iterations
  /\ Len(queue) < Capacity
  /\ queue' = Append(queue, putCount)
  /\ putCount' = putCount + 1
  /\ UNCHANGED takeCount

\* The consumer takes the oldest record, which has to be the one it expects.
Take ==
  /\ queue # <<>>
  /\ Head(queue) = takeCount
  /\ queue' = Tail(queue)
  /\ takeCount' = takeCount + 1
  /\ UNCHANGED putCount

FifoNext == Put \/ Take

FifoSpec == FifoInit /\ [][FifoNext]_fifoVars
================================================================================
