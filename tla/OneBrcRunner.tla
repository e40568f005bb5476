------------------------------ MODULE OneBrcRunner -----------------------------
(***************************************************************************)
(* CalculateAverage_vemana's Runner: NShards pool threads run, in this     *)
(* order, one task per shard, the merge of their results, and the cleaner  *)
(* that unmaps what each shard leaves behind; main waits for the merge and *)
(* then for all tasks.  The shards are those of LazyShardQueue; a result   *)
(* is represented by how often it accounts for each line.                  *)
(***************************************************************************)
EXTENDS LazyShardQueue, Functions

VARIABLES
  started,          \* tasks the pool has begun, first in first out
  merge, merged,    \* the merge task, and the shards it has taken in (isDone)
  output,           \* its result so far
  closer, closed,   \* the cleaning task, and the shards it has closed
  main

runnerVars == <<queueVars, started, merge, merged, output, closer, closed, main>>

MergeTask == NShards
CloserTask == NShards + 1

RunnerInit ==
  /\ Init
  /\ started = 0
  /\ merge = "queued" /\ merged = {} /\ output = [p \in Lines(newlines) |-> 0]
  /\ closer = "queued" /\ closed = {}
  /\ main = "get"

Ended(task) == task \in {"done", "failed"}
TasksEnded ==
  Cardinality({s \in Shards : IsDone(s)})
  + Cardinality({t \in {<<"merge", merge>>, <<"closer", closer>>} : Ended(t[2])})

\* newFixedThreadPool: a free thread takes the task at the head of the queue.
StartTask ==
  /\ started < NShards + 2 /\ started - TasksEnded < NShards
  /\ started' = started + 1
  /\ IF started < NShards THEN Start(started) ELSE built = NShards /\ UNCHANGED queueVars
  /\ merge' = IF started = MergeTask THEN "running" ELSE merge
  /\ closer' = IF started = CloserTask THEN "running" ELSE closer
  /\ UNCHANGED <<merged, output, closed, main>>

Run(s) ==
  /\ ShardStep(s)
  /\ UNCHANGED <<started, merge, merged, output, closer, closed, main>>

\* merge() polls the futures; get() of a failed one throws.
MergeWithoutCheck(s) ==  \* mutant: takes whatever the shard has, whether it is done or not
  /\ merge = "running" /\ s \notin merged
  /\ merged' = merged \cup {s}
  /\ output' = [p \in DOMAIN output |-> output[p] + counted[s][p]]
  /\ merge' = IF merged' = Shards THEN "done" ELSE merge
  /\ UNCHANGED <<queueVars, started, closer, closed, main>>
MergeOfDone(s) ==  \* mutant: waits for results only, not for failed shards
  /\ merge = "running" /\ s \notin merged /\ pc[s] = "done"
  /\ merged' = merged \cup {s}
  /\ output' = [p \in DOMAIN output |-> output[p] + counted[s][p]]
  /\ merge' = IF merged' = Shards THEN "done" ELSE merge
  /\ UNCHANGED <<queueVars, started, closer, closed, main>>
Merge(s) ==
  /\ merge = "running" /\ s \notin merged /\ IsDone(s)
  /\ merged' = merged \cup {s}
  /\ IF pc[s] = "failed"
     THEN merge' = "failed" /\ UNCHANGED output
     ELSE /\ output' = [p \in DOMAIN output |-> output[p] + counted[s][p]]
          /\ merge' = IF merged' = Shards THEN "done" ELSE merge
  /\ UNCHANGED <<queueVars, started, closer, closed, main>>

\* closeByteBuffers() polls them too; an exception of the reflective call ends the task.
CloseBuffersOf(s) ==
  /\ closer = "running" /\ s \notin closed
  /\ EndingClean(s)
  /\ closed' = closed \cup {s}
  /\ closer' = IF closed' = Shards THEN "done" ELSE closer
  /\ UNCHANGED <<started, merge, merged, output, main>>

CloseBuffersThrows(s) ==
  /\ "clean" \in Faults /\ closer = "running" /\ s \notin closed
  /\ IsDone(s) /\ (unclosed[s] # {} \/ buffer[s] # NoBuffer)
  /\ closer' = "failed"
  /\ closed' = closed \cup {s}
  /\ unclosed' = [unclosed EXCEPT ![s] = (@ \cup {buffer[s]}) \ {NoBuffer}]
  /\ UNCHANGED <<newlines, ctorVars, takeVars, lockVars, window, buffer, mapped, lineVars, pc,
                 started, merge, merged, output, main>>

\* getSummaryStatistics: resultFutures.get(), then shutdown() and awaitTermination().
GotMerge ==
  /\ main = "get" /\ Ended(merge)
  /\ main' = IF merge = "done" THEN "await" ELSE "threw"
  /\ UNCHANGED <<queueVars, started, merge, merged, output, closer, closed>>

TerminatedWithoutAwait ==  \* mutant: shutdown() only
  /\ main = "await"
  /\ main' = "returned"
  /\ UNCHANGED <<queueVars, started, merge, merged, output, closer, closed>>
Terminated ==
  /\ main = "await" /\ TasksEnded = NShards + 2
  /\ main' = "returned"
  /\ UNCHANGED <<queueVars, started, merge, merged, output, closer, closed>>

Construct ==
  /\ Distribute
  /\ UNCHANGED <<started, merge, merged, output, closer, closed, main>>

MergeStep == \E s \in Shards : Merge(s)
CloserStep == \E s \in Shards : CloseBuffersOf(s) \/ CloseBuffersThrows(s)
MainStep == Construct \/ GotMerge \/ Terminated

RunnerNext ==
  \/ MainStep \/ StartTask \/ MergeStep \/ CloserStep
  \/ \E s \in Shards : Run(s)

RunnerSpec == RunnerInit /\ [][RunnerNext]_runnerVars

\* Every thread is scheduled; the polls of merge() and closeByteBuffers() see what is done.
Fairness ==
  /\ WF_runnerVars(MainStep) /\ WF_runnerVars(StartTask)
  /\ WF_runnerVars(MergeStep) /\ WF_runnerVars(CloserStep)
  /\ \A s \in Shards : WF_runnerVars(Run(s))

FairRunnerSpec == RunnerSpec /\ Fairness

-----------------------------------------------------------------------------
\* The program splits its input as EachLineOnce says, with or without exceptions in its tasks:
\* a result accounts for every line once, whatever order tasks run and end in (Runner.merge).
Split == INSTANCE EachLineOnce WITH
  lines <- Lines(newlines),
  taken <- [p \in Lines(newlines) |-> SumFunction([s \in Shards |-> counted[s][p]])],
  answer <- IF main = "returned" THEN output ELSE [p \in Lines(newlines) |-> 0],
  outcome <- CASE main = "returned" -> "result" [] main = "threw" -> "failure" [] OTHER -> "none"
CountsEachLineOnce == Split!Spec

\* When main returns and the ending cleaner has not thrown, nothing is left mapped for any shard: the
\* cleaner has been everywhere and no shard maps anything after it (closeByteBuffers).
UnmappedBeforeExit ==
  (main = "returned" /\ closer # "failed") => \A s \in Shards : mapped[s] = {}

\* A buffer is unmapped by the thread that owns it or after it is done: the ending cleaner
\* touches no shard that still runs (closeByteBuffers and attemptIntermediateClose share close).
NoCloseUnderAShard ==
  [][\A s \in Shards : mapped'[s] # mapped[s] /\ ~(mapped[s] \subseteq mapped'[s]) =>
       pc[s] \in {"clean", "done", "failed"}]_runnerVars

\* main gets an answer or an exception, although the merge polls in a thread of the pool
\* that also has to run the shards, and the cleaner may never get one (getSummaryStatistics).
MainEnds == <>(main \in {"returned", "threw"})
================================================================================
