------------------------------- MODULE StatsTable ------------------------------
(***************************************************************************)
(* The hash tables of CalculateAverage_vemana: each shard accumulates its  *)
(* readings per city in an open-addressed table (ShardProcessorState), its *)
(* result is a map by name, and the results of all shards are merged.  A   *)
(* city is the sequence of the bytes of its name, each 0 to 255.           *)
(***************************************************************************)
EXTENDS Sequences, FiniteSetsExt

CONSTANTS
  Cities, Temps,
  SlotsBits,     \* hashtableSizeBits
  NTables,       \* the shards, a table each
  MaxReadings,   \* bound: lines of the file
  MaxTail        \* bound: lines of its reserved tail, which shard 0 reads first

ASSUME TableSizes ==
  /\ SlotsBits \in 0 .. 30 /\ NTables \in Nat \ {0} /\ MaxReadings \in Nat /\ MaxTail \in 0 .. MaxReadings
  /\ Cities \subseteq Seq(0 .. 255) \ {<<>>} /\ IsFiniteSet(Cities)
  /\ Temps \subseteq Int /\ IsFiniteSet(Temps)

PowerOfTwo(k) ==
  LET shifted[n \in 0 .. k] == IF n = 0 THEN 1 ELSE 2 * shifted[n - 1]
  IN  shifted[k]

NSlots == PowerOfTwo(SlotsBits)
Slots == 0 .. NSlots - 1
Tables == 0 .. NTables - 1

-----------------------------------------------------------------------------
(* Hashes: 31 * hash + word for each word of four bytes, the first byte lowest.  Only the     *)
(* bits under slotsMask count, so the arithmetic is modulo NSlots.                            *)

Bit(i) == IF i < SlotsBits THEN PowerOfTwo(i) ELSE 0   \* modulo NSlots
WordsOf(c) == [w \in 1 .. (Len(c) + 3) \div 4 |-> SubSeq(c, 4 * w - 3, Min({4 * w, Len(c)}))]

\* processLine: getInt, masked to the bytes before the semicolon.
Word(bytes) == SumFunction([i \in 1 .. Len(bytes) |-> bytes[i] * Bit(8 * (i - 1))])

\* processLineSlow: accumulated |= (int) nextByte << (8 * i), where a byte of 128 or more is
\* negative and sets all the bits above it.
WordSlow(bytes) ==
  LET negative == {i \in 1 .. Len(bytes) : bytes[i] >= 128}
  IN  IF negative = {} THEN Word(bytes)
      ELSE Word(SubSeq(bytes, 1, Min(negative))) - Bit(8 * Min(negative))

Hash(words) ==
  LET hash[n \in 0 .. Len(words)] == IF n = 0 THEN 0 ELSE (hash[n - 1] * 31 + words[n]) % NSlots
  IN  hash[Len(words)]
FastHash == [c \in Cities |-> Hash([w \in DOMAIN WordsOf(c) |-> Word(WordsOf(c)[w])])]
SlowHash == [c \in Cities |-> Hash([w \in DOMAIN WordsOf(c) |-> WordSlow(WordsOf(c)[w])])]

-----------------------------------------------------------------------------
(* Stat. *)

FirstReading(t) == [min |-> t, max |-> t, sum |-> t, count |-> 1]

MergeReading(stat, t) ==
  [min |-> IF t > stat.min THEN stat.min ELSE t,
   max |-> IF t > stat.min /\ t > stat.max THEN t ELSE stat.max,
   sum |-> stat.sum + t, count |-> stat.count + 1]

StatMerge(left, right) ==
  [min |-> Min({left.min, right.min}), max |-> Max({left.max, right.max}),
   sum |-> left.sum + right.sum, count |-> left.count + right.count]

-----------------------------------------------------------------------------
VARIABLES
  table,   \* of each shard: cityNames and stats, its occupied slots only
  tail,    \* lines shard 0 may still read as part of the tail
  read     \* the input so far: how many readings of each temperature each city has

statsVars == <<table, tail, read>>

StatsInit ==
  /\ table = [s \in Tables |-> <<>>]
  /\ tail \in 0 .. MaxTail
  /\ read = [c \in Cities |-> [t \in Temps |-> 0]]

\* linearProbe: the first slot, from the hash on, that is free or holds the city.
ProbedByTwo(h, n) == (h + 2 * n) % NSlots  \* mutant: i + 2
Probed(h, n) == (h + n) % NSlots
Free(s, i) == i \notin DOMAIN table[s]
StopsAt(s, i, c) == Free(s, i) \/ table[s][i].city = c
Probes(s, h, c) == {n \in Slots : StopsAt(s, Probed(h, n), c)}

With(tab, i, entry) == [j \in DOMAIN tab \cup {i} |-> IF j = i THEN entry ELSE tab[j]]

LinearProbe(s, h, c, t) ==
  /\ Probes(s, h, c) # {}
  /\ LET i == Probed(h, Min(Probes(s, h, c)))
         stat == IF Free(s, i) THEN FirstReading(t) ELSE MergeReading(table[s][i].stat, t)
     IN  table' = [table EXCEPT ![s] = With(@, i, [city |-> c, stat |-> stat])]

NumRead == SumFunction([c \in Cities |-> SumFunction(read[c])])

\* One line of the input, taken by some shard.
Input(c, t) ==
  /\ NumRead < MaxReadings
  /\ read' = [read EXCEPT ![c][t] = @ + 1]

ProcessLineSlow(c, t) ==
  /\ tail > 0
  /\ Input(c, t)
  /\ tail' = tail - 1
  /\ LinearProbe(0, SlowHash[c], c, t)

ProcessLineFast(s, c, t) ==
  /\ s = 0 => tail = 0
  /\ Input(c, t)
  /\ LinearProbe(s, FastHash[c], c, t)
  /\ UNCHANGED tail

StatsNext == \E c \in Cities, t \in Temps :
  ProcessLineSlow(c, t) \/ \E s \in Tables : ProcessLineFast(s, c, t)

StatsSpec == StatsInit /\ [][StatsNext]_statsVars

-----------------------------------------------------------------------------
(* Results. *)

\* result(): slots in order, map.put: the last slot of a name wins.
SlotsOf(s, c) == {i \in DOMAIN table[s] : table[s][i].city = c}
Result(s) ==
  [c \in {table[s][i].city : i \in DOMAIN table[s]} |-> table[s][Max(SlotsOf(s, c))].stat]

\* merge(): the results of the shards, in any order.
Merged ==
  [c \in UNION {DOMAIN Result(s) : s \in Tables} |->
     LET of == [s \in {s \in Tables : c \in DOMAIN Result(s)} |-> Result(s)[c]]
         first == CHOOSE s \in DOMAIN of : TRUE
     IN  FoldFunctionOnSet(StatMerge, of[first], of, DOMAIN of \ {first})]

\* What is expected of an input: the cities in it, each with the minimum, maximum, sum and count.
Seen(readings, c) == {t \in Temps : readings[c][t] > 0}
ExpectedStat(readings, c) ==
  [min |-> Min(Seen(readings, c)), max |-> Max(Seen(readings, c)),
   sum |-> SumFunction([t \in Temps |-> t * readings[c][t]]), count |-> SumFunction(readings[c])]
Expected(readings) == [c \in {d \in Cities : Seen(readings, d) # {}} |-> ExpectedStat(readings, c)]

\* At any time the merged result has every city read so far, and the minimum, maximum, sum and
\* count of all its readings, whichever shards and slots they went to (linearProbe, result, merge).
ResultIsExpected == Merged = Expected(read)

\* The loop of linearProbe ends for any next line: while the table has as many slots as there are
\* cities, a probe from anywhere meets the city or a free slot.
ProbeEnds == \A s \in Tables, c \in Cities :
  Probes(s, FastHash[c], c) # {} /\ Probes(s, SlowHash[c], c) # {}
================================================================================
