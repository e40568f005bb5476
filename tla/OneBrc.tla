--------------------------------- MODULE OneBrc --------------------------------
(***************************************************************************)
(* CalculateAverage_vemana as a whole: the runner and its shards, and the  *)
(* tables and results that these make of what the lines say.               *)
(***************************************************************************)
EXTENDS OneBrcRunner, StatsTable

CONSTANT Texts(_)   \* what a file may say: the city and the temperature of each line

ASSUME OneTableEach == NTables = NShards
ASSUME TextsOfFiles == \A file \in Files :
  /\ Texts(file) \subseteq [Lines(file) -> Cities \X Temps]
  /\ Cardinality(Lines(file)) <= MaxTail

VARIABLES
  text,
  tempStats   \* of the result so far: output of merge()

oneBrcVars == <<runnerVars, statsVars, text, tempStats>>

\* The lines of the reserved tail.
TailLinesOf(file) == {p \in Lines(file) : EffectiveFileSize(file) <= p}

OneBrcInit ==
  /\ RunnerInit
  /\ StatsInit /\ tail = Cardinality(TailLinesOf(newlines))
  /\ text \in Texts(newlines)
  /\ tempStats = <<>>

\* processRangeSlow and processRange: a line of the tail, or of a chunk.
ReadLine(s) ==
  /\ Run(s) /\ ProcessLine(s)
  /\ LET city == text[cursor[s]][1]
         temperature == text[cursor[s]][2]
     IN  IF pc[s] = "tail" THEN ProcessLineSlow(city, temperature)
                           ELSE ProcessLineFast(s, city, temperature)
  /\ UNCHANGED <<text, tempStats>>

\* output.compute, for every city of a result
CombinedOverwriting(left, right) ==  \* mutant: putAll
  [c \in DOMAIN left \cup DOMAIN right |-> IF c \in DOMAIN right THEN right[c] ELSE left[c]]
Combined(left, right) ==
  [c \in DOMAIN left \cup DOMAIN right |->
     IF c \notin DOMAIN left THEN right[c]
     ELSE IF c \notin DOMAIN right THEN left[c]
     ELSE StatMerge(left[c], right[c])]

MergeResult(s) ==
  /\ Merge(s)
  /\ tempStats' = IF pc[s] = "failed" THEN tempStats ELSE Combined(tempStats, Result(s))
  /\ UNCHANGED <<statsVars, text>>

\* All other steps leave the tables and the result alone.
OtherStep ==
  /\ MainStep \/ StartTask \/ CloserStep \/ \E s \in Shards : Run(s) /\ counted' = counted
  /\ UNCHANGED <<statsVars, text, tempStats>>

OneBrcNext == OtherStep \/ \E s \in Shards : ReadLine(s) \/ MergeResult(s)

OneBrcSpec == OneBrcInit /\ [][OneBrcNext]_oneBrcVars

-----------------------------------------------------------------------------
\* How often each city has each temperature in the file.
Readings == [c \in Cities |-> [t \in Temps |-> Cardinality({p \in Lines(newlines) : text[p] = <<c, t>>})]]

\* What main returns is what the whole file says: every city in it, with the minimum, maximum, sum and
\* count of all its readings, wherever its lines lie and in whatever order shards read them, end and
\* are merged (getSummaryStatistics).
ReturnsStatsOfFile == main = "returned" => tempStats = Expected(Readings)

\* No shard is held up by its table: the next line of every range is one that it can read, the slow way
\* for those of the tail and only these; linearProbe finds a slot for it, and the bounds leave room.
EveryLineHasASlot ==
  \A s \in Shards : pc[s] \in {"tail", "lines"} /\ cursor[s] < stop[s] =>
    LET city == text[cursor[s]][1]
    IN  /\ NumRead < MaxReadings
        /\ IF pc[s] = "tail" THEN s = 0 /\ tail > 0 /\ Probes(0, SlowHash[city], city) # {}
           ELSE (s = 0 => tail = 0) /\ Probes(s, FastHash[city], city) # {}
================================================================================
