------------------------------ MODULE OneBrc_proofs ----------------------------
(***************************************************************************)
(* Every line of every file is counted exactly once, whatever the sizes of *)
(* file, chunks and tail and the number of shards, and is read from mapped *)
(* bytes; shards unmap one at a time, and no mapping is forgotten.         *)
(*                                                                         *)
(* The argument about lines: each is always in exactly one place.  It has  *)
(* been counted by a shard, lies between a shard's cursor and the end of   *)
(* its range, in a chunk that a shard has taken, among a shard's own       *)
(* chunks that are left, in the common pool, in the reserved tail that     *)
(* nobody has begun, or in the chunks that the constructor has yet to hand *)
(* out.                                                                    *)
(*                                                                         *)
(* All of it holds under the Runner, whose cleaner may throw where no      *)
(* shard does; a result that main returns accounts for every line once,    *)
(* and leaves nothing mapped.                                              *)
(*                                                                         *)
(* The hash tables: probing keeps one slot for each city, with no free     *)
(* slot between the one its name hashes to and the one it has, and the     *)
(* stats of a city in all tables account for its readings; so the merged   *)
(* result is what is expected of the input.                                *)
(*                                                                         *)
(* Both together: what the tables account for are the lines that shards    *)
(* have counted, and what main returns merges all tables when all lines    *)
(* are; so it is what the file says.                                       *)
(***************************************************************************)
EXTENDS OneBrc, NumberLemmas

--------------------------------------------------------------------------------
(* The geometry of a file *)

\* LastNewLine is what its name says.
LEMMA LastOne ==
  ASSUME NEW S, S \subseteq Nat, S # {}, NEW bound \in Nat, \A n \in S : n <= bound
  PROVE  LastNewLine(S) \in S /\ \A m \in S : m <= LastNewLine(S)
BY GreatestNumber DEF LastNewLine

\* A file's last byte is a newline.
LEMMA LastByte ==
  ASSUME NEW file \in Files
  PROVE  /\ file \subseteq Nat /\ LastNewLine(file) \in file /\ \A n \in file : 0 < n /\ n <= LastNewLine(file)
         /\ LastNewLine(file) \in Nat /\ FileSize(file) \in Nat /\ FileSize(file) = LastNewLine(file) + 1
<1>1. PICK last \in file : \A n \in file : n <= last  BY FilesAreLines
<1>2. file \subseteq Nat /\ file # {} /\ last \in Nat /\ \A n \in file : 0 < n  BY <1>1, FilesAreLines
<1>3. LastNewLine(file) \in file /\ \A n \in file : n <= LastNewLine(file)  BY <1>1, <1>2, LastOne
<1>4. LastNewLine(file) \in Nat  BY <1>2, <1>3
<1> QED BY <1>2, <1>3, <1>4 DEF FileSize

\* From every byte there is a next newline.
LEMMA NextOne ==
  ASSUME NEW file \in Files, NEW p \in Nat, p < FileSize(file)
  PROVE  /\ NextNewLine(file, p) \in file /\ NextNewLine(file, p) \in Nat /\ p <= NextNewLine(file, p)
         /\ NextNewLine(file, p) < FileSize(file)
         /\ \A n \in file : p <= n => NextNewLine(file, p) <= n
<1> DEFINE later == {n \in file : n >= p}
<1>1. later \subseteq Nat /\ later # {}  BY LastByte
<1>2. PICK n \in later : \A m \in later : n <= m  BY <1>1, LeastNumber
<1>3. \E k \in file : k >= p /\ \A m \in file : m >= p => k <= m  BY <1>2
<1>4. /\ NextNewLine(file, p) \in file /\ NextNewLine(file, p) >= p
      /\ \A m \in file : m >= p => NextNewLine(file, p) <= m
  BY <1>3 DEF NextNewLine
<1> QED BY <1>4, LastByte

\* The reserved tail begins at a line start.
LEMMA TailStart ==
  ASSUME NEW file \in Files
  PROVE  /\ EffectiveFileSize(file) \in Nat /\ EffectiveFileSize(file) <= FileSize(file)
         /\ EffectiveFileSize(file) = 0 \/ EffectiveFileSize(file) - 1 \in file
<1> DEFINE before == {n \in file : n + TailReserved < FileSize(file)}
<1>1. CASE TailReserved = 0  BY <1>1, LastByte DEF EffectiveFileSize
<1>2. CASE TailReserved # 0 /\ before = {}  BY <1>2, LastByte DEF EffectiveFileSize
<1>3. CASE TailReserved # 0 /\ before # {}
  <2>1. before \subseteq Nat /\ \A n \in before : n <= LastNewLine(file)  BY LastByte
  <2>2. LastNewLine(before) \in before  BY <1>3, <2>1, LastByte, LastOne
  <2>3. EffectiveFileSize(file) = LastNewLine(before) + 1  BY <1>3 DEF EffectiveFileSize
  <2> QED BY <2>2, <2>3, LastByte
<1> QED BY <1>1, <1>2, <1>3

-----------------------------------------------------------------------------
(* Lines *)

\* What decides on the chunk of a line: the newline before it.
Key(p) == IF p = 0 THEN 0 ELSE p - 1

InChunk(file, p, a, b) == a <= Key(p) /\ Key(p) < b /\ Key(p) < EffectiveFileSize(file) - 1
InTail(file, p) == EffectiveFileSize(file) - 1 <= Key(p)

\* A line starts at the beginning or behind a newline that is not the last.
LEMMA LineStarts ==
  ASSUME NEW file \in Files, NEW p \in Lines(file)
  PROVE  /\ p \in Nat /\ p < FileSize(file) /\ Key(p) \in Nat /\ Key(p) < LastNewLine(file)
         /\ p = 0 \/ (p - 1 \in file /\ Key(p) = p - 1 /\ p > 1)
<1>1. CASE p = 0  BY <1>1, LastByte DEF Key
<1>2. CASE p # 0
  <2>1. PICK n \in file \ {LastNewLine(file)} : p = n + 1  BY <1>2 DEF Lines
  <2> QED BY <1>2, <2>1, LastByte DEF Key
<1> QED BY <1>1, <1>2

\* setRange finds exactly the lines of the chunk from a to b (CalculateAverage_vemana.java, ByteRange).
LEMMA ChunkLines ==
  ASSUME NEW file \in Files, NEW p \in Lines(file), NEW a \in Nat, NEW b \in Nat,
         a < b, a < EffectiveFileSize(file),
         NEW from, from = IF a > 0 THEN NextNewLine(file, a) + 1 ELSE 0,
         NEW to, to = IF b < EffectiveFileSize(file) THEN NextNewLine(file, b) + 1 ELSE EffectiveFileSize(file)
  PROVE  (from <= p /\ p < to) <=> InChunk(file, p, a, b)
<1> DEFINE size == EffectiveFileSize(file)
<1>0. size \in Nat /\ size <= FileSize(file) /\ (size = 0 \/ size - 1 \in file)  BY TailStart
<1>1. size - 1 \in file /\ size - 1 > 0  BY <1>0, LastByte
<1>2. from <= p <=> a <= Key(p)
  <2>1. CASE a = 0  BY <2>1, LineStarts
  <2>2. CASE a > 0
    <3>1. /\ NextNewLine(file, a) \in Nat /\ a <= NextNewLine(file, a)
          /\ \A n \in file : a <= n => NextNewLine(file, a) <= n
      BY <1>0, NextOne, LastByte
    <3> QED BY <2>2, <3>1, LineStarts DEF Key
  <2> QED BY <2>1, <2>2
<1>3. p < to <=> Key(p) < b /\ Key(p) < size - 1
  <2>1. CASE b < size
    <3>1. /\ NextNewLine(file, b) \in Nat /\ b <= NextNewLine(file, b)
          /\ \A n \in file : b <= n => NextNewLine(file, b) <= n
      BY <1>0, <2>1, NextOne, LastByte
    <3> QED BY <2>1, <3>1, <1>0, LineStarts DEF Key
  <2>2. CASE b >= size  BY <2>2, <1>0, <1>1, LineStarts DEF Key
  <2> QED BY <2>1, <2>2, <1>0
<1> QED BY <1>2, <1>3 DEF InChunk

\* The tail's lines are those from its beginning.
LEMMA TailLines ==
  ASSUME NEW file \in Files, NEW p \in Lines(file), EffectiveFileSize(file) < FileSize(file),
         NEW from, from = IF EffectiveFileSize(file) = 0 THEN 0 ELSE NextNewLine(file, EffectiveFileSize(file) - 1) + 1
  PROVE  from <= p <=> InTail(file, p)
<1> DEFINE size == EffectiveFileSize(file)
<1>0. size \in Nat /\ size <= FileSize(file) /\ (size = 0 \/ size - 1 \in file)  BY TailStart
<1>1. CASE size = 0  BY <1>1, LineStarts DEF InTail
<1>2. CASE size > 0
  <2>1. /\ NextNewLine(file, size - 1) \in Nat /\ size - 1 <= NextNewLine(file, size - 1)
        /\ NextNewLine(file, size - 1) <= size - 1
    BY <1>0, <1>2, NextOne, LastByte
  <2>2. from = size /\ size > 1  BY <2>1, <1>2, <1>0, LastByte
  <2> QED BY <2>2, <1>0, LineStarts DEF InTail, Key
<1> QED BY <1>0, <1>1, <1>2

\* Without reserved bytes no line is in the tail.
LEMMA NoTail ==
  ASSUME NEW file \in Files, NEW p \in Lines(file), ~(EffectiveFileSize(file) < FileSize(file))
  PROVE  ~InTail(file, p)
BY TailStart, LastByte, LineStarts DEF InTail

\* No line starts between a byte and the newline that follows it.
LEMMA NextLine ==
  ASSUME NEW file \in Files, NEW p \in Lines(file), NEW c \in Nat, c < FileSize(file)
  PROVE  /\ c <= p <=> (p = c \/ NextNewLine(file, c) + 1 <= p)
         /\ c < NextNewLine(file, c) + 1
<1>1. /\ NextNewLine(file, c) \in Nat /\ c <= NextNewLine(file, c)
      /\ \A n \in file : c <= n => NextNewLine(file, c) <= n
  BY NextOne
<1> QED BY <1>1, LineStarts

\* As no line is longer than the slack, no newline is further away.
LEMMA SlackCovers ==
  ASSUME NEW file \in Files, NEW c \in Nat, c < FileSize(file)
  PROVE  NextNewLine(file, c) - c < Slack
<1> DEFINE starts == {p \in Lines(file) : p <= c}
<1>1. starts \subseteq Nat /\ starts # {} /\ \A p \in starts : p <= c
  <2>1. 0 \in Lines(file)  BY DEF Lines
  <2> QED BY <2>1, LineStarts
<1>2. PICK p \in starts : \A q \in starts : q <= p  BY <1>1, GreatestNumber
<1> DEFINE next == NextNewLine(file, p)
<1>3. p \in Nat /\ p < FileSize(file)  BY LineStarts
<1>4. next \in file /\ next \in Nat /\ p <= next /\ next - p < Slack
  BY <1>3, NextOne, BuffersLargeEnough
<1>5. c <= next
  <2>1. SUFFICES ASSUME next < c PROVE FALSE  BY <1>4
  <2>2. next # LastNewLine(file)  BY <2>1, LastByte
  <2>3. next + 1 \in Lines(file)  BY <1>4, <2>2 DEF Lines
  <2>4. next + 1 \in starts  BY <2>1, <2>3, <1>4
  <2> QED BY <2>4, <1>2, <1>3, <1>4
<1>6. NextNewLine(file, c) \in Nat /\ NextNewLine(file, c) <= next  BY <1>4, <1>5, NextOne
<1> QED BY <1>3, <1>4, <1>6, Sizes

--------------------------------------------------------------------------------
(* The invariant *)

Labels == {"queued", "tail", "take", "taken", "cas", "clean", "release", "map", "lines", "done", "failed"}
Taken == {"taken", "cas", "clean", "release", "map", "failed"}
Reading == {"tail", "lines"}

Types ==
  /\ newlines \in Files
  /\ built \in 0 .. NShards /\ currentStart \in Nat /\ remainingChunks \in Nat /\ commonPool \in Nat
  /\ nextChunk \in [Shards -> Nat] /\ shardEnd \in [Shards -> Nat] /\ chunksLeft \in [Shards -> Nat]
  /\ range \in [Shards -> Nat \X Nat]
  /\ cursor \in [Shards -> Nat] /\ stop \in [Shards -> Nat]
  /\ pc \in [Shards -> Labels]
  /\ counted \in [Shards -> [Lines(newlines) -> {0, 1}]]

\* The chunks handed out so far end at currentStart, and those of a shard where they should.
ChunksAddUp ==
  /\ currentStart + remainingChunks * ChunkSize = CommonPoolStart(newlines)
  /\ built = NShards => remainingChunks = 0
  /\ built # NShards => \A s \in Shards : pc[s] = "queued"
  /\ CommonPoolStart(newlines) <= commonPool
  /\ \A s \in Shards :
       /\ nextChunk[s] + chunksLeft[s] * ChunkSize = shardEnd[s]
       /\ shardEnd[s] <= currentStart
       /\ built <= s => shardEnd[s] = 0

RangesAreChunks ==
  \A s \in Shards :
    /\ pc[s] \in Taken =>
         /\ range[s][1] < eff
         /\ range[s][2] = range[s][1] + ChunkSize \/ range[s][2] = range[s][1] + CommonChunkSize
    /\ pc[s] \in Reading =>
         cursor[s] <= stop[s] /\ stop[s] <= FileSize(newlines) /\ stop[s] - 1 \in newlines
    /\ pc[s] = "done" => chunksLeft[s] = 0 /\ eff <= commonPool

Places == {"counted", "reading", "taken", "own", "pool", "tail", "unbuilt"}
At(k, s, p) ==
  \/ k = "counted" /\ counted[s][p] = 1
  \/ k = "reading" /\ pc[s] \in Reading /\ cursor[s] <= p /\ p < stop[s]
  \/ k = "taken" /\ pc[s] \in Taken /\ InChunk(newlines, p, range[s][1], range[s][2])
  \/ k = "own" /\ InChunk(newlines, p, nextChunk[s], shardEnd[s])
  \/ k = "pool" /\ s = 0 /\ InChunk(newlines, p, commonPool, eff)
  \/ k = "tail" /\ s = 0 /\ pc[s] = "queued" /\ InTail(newlines, p)
  \/ k = "unbuilt" /\ s = 0 /\ InChunk(newlines, p, currentStart, CommonPoolStart(newlines))
OnePlace(p) ==
  \E k \in Places, s \in Shards :
    /\ At(k, s, p)
    /\ \A j \in Places, t \in Shards : At(j, t, p) => j = k /\ t = s

LinesInv == Types /\ ChunksAddUp /\ RangesAreChunks /\ \A p \in Lines(newlines) : OnePlace(p)

-----------------------------------------------------------------------------
(* Arithmetic *)

\* Shard 0 is one of the shards.
LEMMA ShardNumbers == 0 \in Shards /\ Shards \subseteq Nat /\ \A s \in Shards : s < NShards
BY Sizes DEF Shards

\* Chunks have a natural number of bytes.
LEMMA Products == \A x, y \in Nat : x * y \in Nat
OBVIOUS

\* The share of one of k shards, rounded up, is no more than there is, and for the last all there is.
LEMMA Share ==
  ASSUME NEW r \in Nat, NEW k \in Nat \ {0}
  PROVE  /\ (r + k - 1) \div k \in Nat /\ (r + k - 1) \div k <= r
         /\ k = 1 => (r + k - 1) \div k = r
<1> DEFINE q == (r + k - 1) \div k
           rem == (r + k - 1) % k
<1>1. q \in Int /\ rem \in 0 .. k - 1 /\ r + k - 1 = k * q + rem
  <2>1. r + k - 1 \in Int  OBVIOUS
  <2> QED BY <2>1, DivMod
<1> HIDE DEF q, rem
<1>2. q >= 0
  <2>1. SUFFICES ASSUME q <= -1 PROVE FALSE  BY <1>1
  <2>2. k * q <= -k  BY <2>1, <1>1
  <2> QED BY <2>2, <1>1
<1>3. q <= r
  <2>1. SUFFICES ASSUME q >= r + 1 PROVE FALSE  BY <1>1
  <2>2. k * q >= k * (r + 1)  BY <2>1, <1>1
  <2>3. k * (r + 1) = k * r + k /\ k * r >= r  OBVIOUS
  <2>4. k * q \in Int /\ k * r \in Int  BY <1>1
  <2> QED BY <2>2, <2>3, <2>4, <1>1
<1>4. k = 1 => q = r  BY <1>1
<1> QED BY <1>1, <1>2, <1>3, <1>4 DEF q

\* The common pool starts behind a whole number of chunks, within the effective file.
LEMMA PoolStart ==
  ASSUME NEW file \in Files
  PROVE  /\ CommonPoolStart(file) \in Nat /\ CommonPoolStart(file) <= EffectiveFileSize(file)
         /\ CommonPoolStart(file) \div ChunkSize \in Nat
         /\ (CommonPoolStart(file) \div ChunkSize) * ChunkSize = CommonPoolStart(file)
<1> DEFINE size == EffectiveFileSize(file)
           part == size * (100 - CommonPercent)
           m == 100 * ChunkSize
           q == part \div m
           rem == part % m
<1>1. size \in Nat /\ ChunkSize \in Nat \ {0} /\ 100 - CommonPercent \in 1 .. 100  BY TailStart, Sizes
<1>2. part \in Nat /\ part <= size * 100 /\ m \in Nat \ {0}
  <2> HIDE DEF size
  <2> QED BY <1>1
<1>3. CommonPoolStart(file) = q * ChunkSize  BY DEF CommonPoolStart
<1>4. q \in Int /\ rem \in 0 .. m - 1 /\ part = m * q + rem
  <2> HIDE DEF part, m
  <2> QED BY <1>2, DivMod
<1> HIDE DEF size, part, q, rem
<1>5. q >= 0
  <2>1. SUFFICES ASSUME q <= -1 PROVE FALSE  BY <1>4
  <2>2. m * q <= -m
    <3> HIDE DEF m
    <3> QED BY <2>1, <1>2, <1>4
  <2> HIDE DEF m
  <2> QED BY <2>2, <1>2, <1>4
<1>6. q * ChunkSize \in Nat  BY <1>1, <1>4, <1>5
<1>7. q * ChunkSize <= size
  <2>1. m * q <= part
    <3> HIDE DEF m
    <3> QED BY <1>2, <1>4
  <2>2. m * q = 100 * (q * ChunkSize)  BY <1>1, <1>4
  <2> QED BY <2>1, <2>2, <1>2, <1>6, <1>1
<1>8. (q * ChunkSize) \div ChunkSize = q
  <2> DEFINE d == (q * ChunkSize) \div ChunkSize
             e == (q * ChunkSize) % ChunkSize
  <2>1. d \in Int /\ e \in 0 .. ChunkSize - 1 /\ q * ChunkSize = ChunkSize * d + e
    <3> DEFINE x == q * ChunkSize
    <3>1. x \in Int  BY <1>6
    <3> HIDE DEF x
    <3>2. x \div ChunkSize \in Int /\ x % ChunkSize \in 0 .. ChunkSize - 1
          /\ x = ChunkSize * (x \div ChunkSize) + (x % ChunkSize)
      BY <1>1, <3>1, DivMod
    <3> QED BY <3>2 DEF x
  <2> HIDE DEF d, e
  <2>2. e = 0
    <3>1. q * ChunkSize = ChunkSize * q + 0  BY <1>1, <1>4
    <3>2. 0 \in 0 .. ChunkSize - 1 /\ q * ChunkSize \in Int  BY <1>1, <1>6
    <3>3. (q * ChunkSize) % ChunkSize = 0  BY <1>1, <1>4, <3>1, <3>2, ModUnique
    <3> QED BY <3>3 DEF e
  <2>3. ChunkSize * (q - d) = 0  BY <2>1, <2>2, <1>1, <1>4
  <2>4. q - d = 0  BY <2>3, <2>1, <1>1, <1>4
  <2> QED BY <2>4, <2>1, <1>4 DEF d
<1> QED BY <1>1, <1>3, <1>4, <1>5, <1>6, <1>7, <1>8 DEF size

-----------------------------------------------------------------------------
(* Steps *)

\* A line that at most moves from one of two places to the other is still in one.
LEMMA Moves ==
  ASSUME NEW p, OnePlace(p),
         NEW j \in Places, NEW s \in Shards, NEW k \in Places, NEW t \in Shards,
         \A i \in Places, u \in Shards :
           ~(i = j /\ u = s) /\ ~(i = k /\ u = t) => (At(i, u, p)' <=> At(i, u, p)),
         At(j, s, p) \/ At(k, t, p) <=> At(j, s, p)' \/ At(k, t, p)',
         At(j, s, p)' /\ At(k, t, p)' => j = k /\ s = t
  PROVE  OnePlace(p)'
<1>1. PICK a \in Places, b \in Shards :
        At(a, b, p) /\ \A i \in Places, u \in Shards : At(i, u, p) => i = a /\ u = b
  BY DEF OnePlace
<1>2. CASE (a = j /\ b = s) \/ (a = k /\ b = t)
  <2>1. \A i \in Places, u \in Shards : At(i, u, p)' => (i = j /\ u = s) \/ (i = k /\ u = t)
    BY <1>1, <1>2
  <2>2. CASE At(j, s, p)'
    <3>1. \A i \in Places, u \in Shards : At(i, u, p)' => i = j /\ u = s  BY <2>1, <2>2
    <3> QED BY <2>2, <3>1 DEF OnePlace
  <2>3. CASE At(k, t, p)'
    <3>1. \A i \in Places, u \in Shards : At(i, u, p)' => i = k /\ u = t  BY <2>1, <2>3
    <3> QED BY <2>3, <3>1 DEF OnePlace
  <2> QED BY <2>2, <2>3, <1>1, <1>2
<1>3. CASE ~(a = j /\ b = s) /\ ~(a = k /\ b = t)
  <2>1. At(a, b, p)'  BY <1>1, <1>3
  <2>2. ~At(j, s, p)' /\ ~At(k, t, p)'  BY <1>1, <1>3
  <2>3. \A i \in Places, u \in Shards : At(i, u, p)' => i = a /\ u = b  BY <1>1, <2>2
  <2> QED BY <2>1, <2>3 DEF OnePlace
<1> QED BY <1>2, <1>3

\* Nothing moves if no shard changes more than its place among those that have taken a chunk.
LEMMA ElsewhereKeeps ==
  ASSUME LinesInv, UNCHANGED << newlines, ctorVars, takeVars, lineVars >>,
         pc' \in [Shards -> Labels],
         \A s \in Shards : pc'[s] = pc[s] \/ (pc[s] \in Taken /\ pc'[s] \in Taken)
  PROVE  LinesInv'
<1> USE DEF LinesInv, ctorVars, takeVars, lineVars
<1>1. Types'  BY DEF Types
<1>2. ChunksAddUp'  BY DEF ChunksAddUp, Types, Taken
<1>3. eff' = eff  BY DEF eff
<1>4. RangesAreChunks'  BY <1>3 DEF RangesAreChunks, Taken, Reading
<1>5. ASSUME NEW p \in Lines(newlines) PROVE OnePlace(p)'
  <2>1. \A k \in Places, s \in Shards : At(k, s, p)' <=> At(k, s, p)
    BY <1>3 DEF At, InChunk, InTail, Taken, Reading
  <2> QED BY <2>1 DEF OnePlace
<1> QED BY <1>1, <1>2, <1>4, <1>5

\* The constructor moves chunks from those not handed out to those of one shard.
LEMMA DistributeKeeps ==
  ASSUME LinesInv, Distribute PROVE LinesInv'
<1> DEFINE chunks == ChunksOf(built)
           file == newlines
<1>0. /\ file \in Files /\ built \in Shards /\ built < NShards /\ newlines' = newlines
      /\ chunks \in Nat /\ chunks <= remainingChunks /\ (built = NShards - 1 => chunks = remainingChunks)
  <2>1. built \in 0 .. NShards /\ built < NShards /\ NShards \in Nat /\ remainingChunks \in Nat
    BY Sizes DEF LinesInv, Types, Distribute
  <2>2. NShards - built \in Nat \ {0}  BY <2>1
  <2>3. chunks = (remainingChunks + (NShards - built) - 1) \div (NShards - built)  BY DEF ChunksOf
  <2>4. chunks \in Nat /\ chunks <= remainingChunks /\ (NShards - built = 1 => chunks = remainingChunks)
    BY <2>1, <2>2, <2>3, Share
  <2> QED BY <2>1, <2>4 DEF Shards, LinesInv, Types, Distribute
<1>1. /\ nextChunk' = [nextChunk EXCEPT ![built] = currentStart]
      /\ shardEnd' = [shardEnd EXCEPT ![built] = currentStart + chunks * ChunkSize]
      /\ chunksLeft' = [chunksLeft EXCEPT ![built] = chunks]
      /\ currentStart' = currentStart + chunks * ChunkSize
      /\ remainingChunks' = remainingChunks - chunks
      /\ built' = built + 1
      /\ UNCHANGED << newlines, commonPool, range, cursor, stop, counted, pc >>
  BY DEF Distribute, lineVars
<1> HIDE DEF chunks
<1>2. chunks * ChunkSize \in Nat /\ ChunkSize \in Nat \ {0}  BY <1>0, Sizes
<1>3. eff' = eff  BY <1>1 DEF eff
<1>4. Types'
  <2>1. currentStart' \in Nat /\ remainingChunks' \in Nat /\ built' \in 0 .. NShards
    BY <1>0, <1>1, <1>2, Sizes DEF LinesInv, Types
  <2>2. nextChunk' \in [Shards -> Nat] /\ shardEnd' \in [Shards -> Nat] /\ chunksLeft' \in [Shards -> Nat]
    BY <1>0, <1>1, <1>2 DEF LinesInv, Types
  <2> QED BY <2>1, <2>2, <1>1 DEF LinesInv, Types
<1>5. ChunksAddUp'
  <2>1. currentStart' + remainingChunks' * ChunkSize = currentStart + remainingChunks * ChunkSize
    BY <1>0, <1>1, <1>2 DEF LinesInv, Types
  <2>2. built' = NShards => remainingChunks' = 0
    BY <1>0, <1>1, Sizes DEF LinesInv, Types
  <2>3. ASSUME NEW s \in Shards
        PROVE  /\ nextChunk'[s] + chunksLeft'[s] * ChunkSize = shardEnd'[s]
               /\ shardEnd'[s] <= currentStart'
               /\ built' <= s => shardEnd'[s] = 0
    <3>1. CASE s = built  BY <3>1, <1>0, <1>1, <1>2 DEF LinesInv, Types
    <3>2. CASE s # built
      <4>1. nextChunk'[s] = nextChunk[s] /\ chunksLeft'[s] = chunksLeft[s] /\ shardEnd'[s] = shardEnd[s]
        BY <3>2, <1>1 DEF LinesInv, Types
      <4>2. nextChunk[s] + chunksLeft[s] * ChunkSize = shardEnd[s]  BY DEF LinesInv, ChunksAddUp
      <4>3. shardEnd[s] <= currentStart /\ (built <= s => shardEnd[s] = 0) /\ shardEnd[s] \in Nat
        BY DEF LinesInv, ChunksAddUp, Types
      <4> QED BY <4>1, <4>2, <4>3, <1>0, <1>1, <1>2, ShardNumbers DEF LinesInv, Types
    <3> QED BY <3>1, <3>2
  <2>4. \A s \in Shards : pc'[s] = "queued"  BY <1>0, <1>1 DEF LinesInv, ChunksAddUp, Types
  <2> QED BY <2>1, <2>2, <2>3, <2>4, <1>1 DEF LinesInv, ChunksAddUp
<1>6. RangesAreChunks'
  <2>1. \A s \in Shards : pc'[s] = "queued"  BY <1>0, <1>1 DEF LinesInv, ChunksAddUp, Types
  <2> QED BY <2>1 DEF RangesAreChunks, Taken, Reading
<1>7. ASSUME NEW p \in Lines(newlines) PROVE OnePlace(p)'
  <2>0. PICK b \in Shards : b = built  BY <1>0
  <2>1. OnePlace(p) /\ "own" \in Places /\ "unbuilt" \in Places /\ 0 \in Shards /\ Key(p) \in Nat
    BY <1>0, ShardNumbers, LineStarts DEF LinesInv, Places
  <2>2. \A i \in Places, u \in Shards :
          ~(i = "own" /\ u = b) /\ ~(i = "unbuilt" /\ u = 0) => (At(i, u, p)' <=> At(i, u, p))
    BY <2>0, <1>1, <1>3 DEF At, InChunk, InTail, LinesInv, Types
  <2>3. shardEnd[b] = 0 /\ nextChunk'[b] = currentStart /\ shardEnd'[b] = currentStart'
    BY <2>0, <1>0, <1>1 DEF LinesInv, Types, ChunksAddUp
  <2>4. ~At("own", b, p) /\ (At("own", b, p)' <=> InChunk(newlines, p, currentStart, currentStart'))
    BY <1>1, <2>1, <2>3 DEF At, InChunk
  <2>5. /\ At("unbuilt", 0, p) <=> InChunk(newlines, p, currentStart, CommonPoolStart(newlines))
        /\ At("unbuilt", 0, p)' <=> InChunk(newlines, p, currentStart', CommonPoolStart(newlines))
    BY <1>1 DEF At, InChunk
  <2>6. currentStart <= currentStart' /\ currentStart' <= CommonPoolStart(newlines)
    <3>1. currentStart' + remainingChunks' * ChunkSize = CommonPoolStart(newlines)
      BY <1>5, <1>1 DEF ChunksAddUp
    <3>2. remainingChunks' * ChunkSize \in Nat /\ currentStart' \in Nat  BY <1>4, <1>2, Products DEF Types
    <3> QED BY <3>1, <3>2, <1>1, <1>2 DEF LinesInv, Types
  <2>7. currentStart \in Nat /\ currentStart' \in Nat /\ CommonPoolStart(newlines) \in Nat
    BY <1>0, <1>4, PoolStart DEF LinesInv, Types
  <2>8. /\ At("own", b, p) \/ At("unbuilt", 0, p) <=> At("own", b, p)' \/ At("unbuilt", 0, p)'
        /\ ~(At("own", b, p)' /\ At("unbuilt", 0, p)')
    BY <2>1, <2>4, <2>5, <2>6, <2>7 DEF InChunk
  <2> QED BY <2>1, <2>2, <2>8, Moves
<1> QED BY <1>4, <1>5, <1>6, <1>7, <1>1 DEF LinesInv

\* The first shard begins to read the reserved tail, which nobody else does.
LEMMA StartKeeps ==
  ASSUME LinesInv, NEW s \in Shards, Start(s) PROVE LinesInv'
<1> DEFINE from == IF eff = 0 THEN 0 ELSE NextNewLine(newlines, eff - 1) + 1
           last == s = 0 /\ eff < FileSize(newlines)
<1>0. /\ newlines \in Files /\ pc[s] = "queued" /\ built = NShards /\ eff' = eff
      /\ UNCHANGED << newlines, ctorVars, takeVars, counted >>
      /\ eff \in Nat /\ FileSize(newlines) \in Nat /\ eff <= FileSize(newlines)
  BY TailStart, LastByte DEF LinesInv, Types, Start, eff
<1>1. /\ last => /\ cursor' = [cursor EXCEPT ![s] = from] /\ stop' = [stop EXCEPT ![s] = FileSize(newlines)]
                 /\ pc' = [pc EXCEPT ![s] = "tail"]
      /\ ~last => pc' = [pc EXCEPT ![s] = "take"] /\ UNCHANGED << cursor, stop >>
  BY DEF Start, TailOfFile, Goto
<1>2. last => from \in Nat /\ from <= FileSize(newlines)
  <2>1. CASE last /\ eff > 0
    <3>1. eff - 1 \in Nat /\ eff - 1 < FileSize(newlines)  BY <2>1, <1>0
    <3> QED BY <3>1, <1>0, <2>1, NextOne
  <2> QED BY <2>1, <1>0
<1> HIDE DEF from
<1>3. Types'
  <2> HIDE DEF last
  <2>1. pc' \in [Shards -> Labels]  BY <1>1 DEF LinesInv, Types, Labels
  <2>2. cursor' \in [Shards -> Nat] /\ stop' \in [Shards -> Nat]  BY <1>0, <1>1, <1>2 DEF LinesInv, Types
  <2> QED BY <1>0, <2>1, <2>2 DEF LinesInv, Types, ctorVars, takeVars
<1>4. ChunksAddUp'  BY <1>0 DEF LinesInv, ChunksAddUp, ctorVars, takeVars
<1>5. RangesAreChunks'
  <2>1. FileSize(newlines) - 1 \in newlines  BY <1>0, LastByte
  <2>2. ASSUME NEW t \in Shards, t # s
        PROVE  pc'[t] = pc[t] /\ cursor'[t] = cursor[t] /\ stop'[t] = stop[t]
    BY <1>1, <2>2 DEF LinesInv, Types
  <2>3. /\ pc'[s] \in {"tail", "take"}
        /\ pc'[s] = "tail" => cursor'[s] = from /\ stop'[s] = FileSize(newlines) /\ last
    BY <1>1 DEF LinesInv, Types
  <2> HIDE DEF last
  <2> QED BY <1>0, <1>2, <2>1, <2>2, <2>3 DEF LinesInv, RangesAreChunks, Taken, Reading, ctorVars, takeVars
<1>6. ASSUME NEW p \in Lines(newlines) PROVE OnePlace(p)'
  <2>1. OnePlace(p) /\ "tail" \in Places /\ "reading" \in Places /\ 0 \in Shards
    BY ShardNumbers DEF LinesInv, Places
  <2>2. \A i \in Places, u \in Shards :
          ~(i = "tail" /\ u = s) /\ ~(i = "reading" /\ u = s) => (At(i, u, p)' <=> At(i, u, p))
    BY <1>0, <1>1 DEF At, InChunk, InTail, LinesInv, Types, ctorVars, takeVars, Taken, Reading
  <2>3. /\ At("tail", s, p) <=> s = 0 /\ InTail(newlines, p)
        /\ ~At("tail", s, p)' /\ ~At("reading", s, p)
    BY <1>0, <1>1 DEF At, Reading, LinesInv, Types
  <2>4. At("reading", s, p)' <=> last /\ from <= p
    BY <1>0, <1>1, <1>2, LineStarts DEF At, Reading, LinesInv, Types
  <2>5. last /\ from <= p <=> s = 0 /\ InTail(newlines, p)
    <3>1. CASE eff < FileSize(newlines)
      <4>1. from <= p <=> InTail(newlines, p)  BY <3>1, <1>0, TailLines DEF from, eff
      <4> QED BY <4>1, <3>1
    <3>2. CASE ~(eff < FileSize(newlines))  BY <3>2, <1>0, NoTail DEF eff
    <3> QED BY <3>1, <3>2
  <2> HIDE DEF last
  <2>6. At("tail", s, p) \/ At("reading", s, p) <=> At("tail", s, p)' \/ At("reading", s, p)'
    BY <2>3, <2>4, <2>5
  <2> QED BY <2>1, <2>2, <2>3, <2>6, Moves
<1> QED BY <1>0, <1>3, <1>4, <1>5, <1>6 DEF LinesInv

\* The line at the cursor is counted, and the cursor moves to the next.
LEMMA ProcessLineKeeps ==
  ASSUME LinesInv, NEW s \in Shards, ProcessLine(s) PROVE LinesInv'
<1> DEFINE c == cursor[s]
           next == NextNewLine(newlines, c) + 1
<1>0. /\ newlines \in Files /\ pc[s] \in Reading /\ c \in Nat /\ c < stop[s] /\ eff' = eff
      /\ stop[s] <= FileSize(newlines) /\ stop[s] - 1 \in newlines /\ stop[s] \in Nat
      /\ UNCHANGED << newlines, ctorVars, takeVars, stop, pc >>
      /\ counted' = [counted EXCEPT ![s][c] = @ + 1]
      /\ cursor' = [cursor EXCEPT ![s] = next]
  BY DEF LinesInv, Types, RangesAreChunks, ProcessLine, eff, Reading
<1>1. c < FileSize(newlines) /\ FileSize(newlines) \in Nat /\ next \in Nat /\ next <= stop[s]
  <2>1. c < FileSize(newlines) /\ FileSize(newlines) \in Nat  BY <1>0, LastByte
  <2>2. NextNewLine(newlines, c) \in Nat /\ (c <= stop[s] - 1 => NextNewLine(newlines, c) <= stop[s] - 1)
    BY <1>0, <2>1, NextOne
  <2> QED BY <2>1, <2>2, <1>0
<1>2. \A p \in Lines(newlines) : p = c => counted[s][p] = 0
  <2>1. SUFFICES ASSUME NEW p \in Lines(newlines), p = c, counted[s][p] = 1 PROVE FALSE
    BY DEF LinesInv, Types
  <2>2. At("counted", s, p) /\ At("reading", s, p)  BY <2>1, <1>0 DEF At
  <2>3. OnePlace(p)  BY <2>1 DEF LinesInv
  <2>4. "counted" \in Places /\ "reading" \in Places  BY DEF Places
  <2>5. "counted" = "reading"  BY <2>2, <2>3, <2>4, Zenon DEF OnePlace
  <2> QED BY <2>5
<1>3. \A t \in Shards, p \in Lines(newlines) :
        counted'[t][p] = IF t = s /\ p = c THEN 1 ELSE counted[t][p]
  BY <1>0, <1>2 DEF LinesInv, Types
<1> HIDE DEF next
<1>4. Types'
  <2>1. counted' \in [Shards -> [Lines(newlines) -> {0, 1}]]
    <3>1. counted' = [counted EXCEPT ![s] = counted'[s]]  BY <1>0 DEF LinesInv, Types
    <3>2. counted'[s] = [counted[s] EXCEPT ![c] = @ + 1]  BY <1>0 DEF LinesInv, Types
    <3>3. counted'[s] \in [Lines(newlines) -> {0, 1}]
      <4>1. CASE c \in Lines(newlines)  BY <4>1, <3>2, <1>2 DEF LinesInv, Types
      <4>2. CASE c \notin Lines(newlines)  BY <4>2, <3>2 DEF LinesInv, Types
      <4> QED BY <4>1, <4>2
    <3> QED BY <3>1, <3>3 DEF LinesInv, Types
  <2> QED BY <2>1, <1>0, <1>1 DEF LinesInv, Types, ctorVars, takeVars
<1>5. ChunksAddUp'  BY <1>0 DEF LinesInv, ChunksAddUp, ctorVars, takeVars
<1>6. RangesAreChunks'
  <2>1. \A t \in Shards : t # s => cursor'[t] = cursor[t]  BY <1>0 DEF LinesInv, Types
  <2>2. cursor'[s] = next  BY <1>0 DEF LinesInv, Types
  <2> QED BY <1>0, <1>1, <2>1, <2>2 DEF LinesInv, RangesAreChunks, Taken, Reading, ctorVars, takeVars
<1>7. ASSUME NEW p \in Lines(newlines) PROVE OnePlace(p)'
  <2>1. OnePlace(p) /\ "counted" \in Places /\ "reading" \in Places  BY DEF LinesInv, Places
  <2>2. \A i \in Places, u \in Shards :
          ~(i = "counted" /\ u = s) /\ ~(i = "reading" /\ u = s) => (At(i, u, p)' <=> At(i, u, p))
    <3>1. \A u \in Shards : u # s => counted'[u][p] = counted[u][p] /\ cursor'[u] = cursor[u]
      BY <1>0, <1>3 DEF LinesInv, Types
    <3> QED BY <1>0, <3>1 DEF At, InChunk, InTail, ctorVars, takeVars
  <2>3. /\ At("counted", s, p) <=> counted[s][p] = 1
        /\ At("counted", s, p)' <=> (p = c \/ counted[s][p] = 1)
        /\ At("reading", s, p) <=> (c <= p /\ p < stop[s])
        /\ At("reading", s, p)' <=> (next <= p /\ p < stop[s])
    BY <1>0, <1>3 DEF At, LinesInv, Types
  <2>4. (c <= p <=> (p = c \/ next <= p)) /\ c < next /\ p \in Nat  BY <1>0, <1>1, NextLine, LineStarts DEF next
  <2>5. ~(At("counted", s, p) /\ At("reading", s, p))
    <3>1. "counted" # "reading"  OBVIOUS
    <3> QED BY <2>1, <3>1, Zenon DEF OnePlace
  <2>6. /\ At("counted", s, p) \/ At("reading", s, p) <=> At("counted", s, p)' \/ At("reading", s, p)'
        /\ ~(At("counted", s, p)' /\ At("reading", s, p)')
    BY <2>3, <2>4, <2>5, <1>0, <1>1
  <2> QED BY <2>1, <2>2, <2>6, Moves
<1> QED BY <1>0, <1>4, <1>5, <1>6, <1>7 DEF LinesInv

\* At the end of a range no line of it is left.
LEMMA EndOfRangeKeeps ==
  ASSUME LinesInv, NEW s \in Shards, EndOfRange(s) PROVE LinesInv'
<1>0. /\ pc[s] \in Reading /\ cursor[s] >= stop[s] /\ pc' = [pc EXCEPT ![s] = "take"] /\ eff' = eff
      /\ UNCHANGED << newlines, ctorVars, takeVars, lineVars >>
  BY DEF EndOfRange, Goto, Reading, eff
<1>1. Types'  BY <1>0 DEF LinesInv, Types, Labels, ctorVars, takeVars, lineVars
<1>2. ChunksAddUp'
  <2>1. built = NShards  BY <1>0 DEF LinesInv, ChunksAddUp, Reading
  <2> QED BY <2>1, <1>0 DEF LinesInv, ChunksAddUp, ctorVars, takeVars
<1>3. RangesAreChunks'
  BY <1>0 DEF LinesInv, Types, RangesAreChunks, Taken, Reading, ctorVars, takeVars, lineVars
<1>4. ASSUME NEW p \in Lines(newlines) PROVE OnePlace(p)'
  <2>1. p \in Nat /\ cursor[s] \in Nat /\ stop[s] \in Nat  BY LineStarts DEF LinesInv, Types
  <2>2. \A i \in Places, u \in Shards : At(i, u, p)' <=> At(i, u, p)
    BY <1>0, <2>1 DEF At, InChunk, InTail, LinesInv, Types, Taken, Reading, ctorVars, takeVars, lineVars
  <2> QED BY <2>2 DEF OnePlace, LinesInv
<1> QED BY <1>0, <1>1, <1>2, <1>3, <1>4 DEF LinesInv

\* take() moves a chunk from the shard's own to its range.
LEMMA TakeOwnKeeps ==
  ASSUME LinesInv, FakeAdvance = FALSE, NEW s \in Shards, TakeOwn(s) PROVE LinesInv'
<1> DEFINE a == nextChunk[s]
           b == nextChunk[s] + ChunkSize
<1>0. /\ pc[s] = "take" /\ chunksLeft[s] >= 1 /\ pc' = [pc EXCEPT ![s] = "taken"] /\ eff' = eff
      /\ range' = [range EXCEPT ![s] = << a, b >>]
      /\ chunksLeft' = [chunksLeft EXCEPT ![s] = @ - 1]
      /\ nextChunk' = [nextChunk EXCEPT ![s] = b]
      /\ UNCHANGED << newlines, ctorVars, commonPool, lineVars >>
  BY DEF TakeOwn, Goto, eff, LinesInv, Types
<1>1. /\ newlines \in Files /\ a \in Nat /\ b \in Nat /\ chunksLeft[s] \in Nat /\ shardEnd[s] \in Nat
      /\ ChunkSize \in Nat \ {0} /\ built = NShards
      /\ a + chunksLeft[s] * ChunkSize = shardEnd[s]
  BY <1>0, Sizes DEF LinesInv, Types, ChunksAddUp
<1>2. b + (chunksLeft[s] - 1) * ChunkSize = shardEnd[s] /\ (chunksLeft[s] - 1) * ChunkSize \in Nat /\ b <= shardEnd[s]
  <2>1. (chunksLeft[s] - 1) * ChunkSize = chunksLeft[s] * ChunkSize - ChunkSize  BY <1>1
  <2>2. chunksLeft[s] - 1 \in Nat  BY <1>0, <1>1
  <2>3. (chunksLeft[s] - 1) * ChunkSize \in Nat  BY <2>2, <1>1, Products
  <2>4. chunksLeft[s] * ChunkSize \in Nat  BY <1>1, Products
  <2> QED BY <2>1, <2>3, <2>4, <1>1
<1>3. a < eff
  <2>1. shardEnd[s] <= currentStart /\ currentStart + remainingChunks * ChunkSize = CommonPoolStart(newlines)
    BY DEF LinesInv, ChunksAddUp
  <2>2. currentStart \in Nat /\ remainingChunks * ChunkSize \in Nat  BY <1>1, Products DEF LinesInv, Types
  <2>3. CommonPoolStart(newlines) \in Nat /\ CommonPoolStart(newlines) <= eff /\ eff \in Nat
    BY <1>1, PoolStart, TailStart DEF eff
  <2> QED BY <2>1, <2>2, <2>3, <1>1, <1>2
<1> HIDE DEF a, b
<1>4. Types'
  <2>1. range' \in [Shards -> Nat \X Nat]  BY <1>0, <1>1 DEF LinesInv, Types
  <2>2. chunksLeft' \in [Shards -> Nat] /\ nextChunk' \in [Shards -> Nat] /\ pc' \in [Shards -> Labels]
    BY <1>0, <1>1 DEF LinesInv, Types, Labels
  <2> QED BY <2>1, <2>2, <1>0 DEF LinesInv, Types, ctorVars, lineVars
<1>5. ChunksAddUp'
  <2>1. nextChunk'[s] + chunksLeft'[s] * ChunkSize = shardEnd'[s]
    BY <1>0, <1>1, <1>2 DEF LinesInv, Types, ctorVars
  <2>2. \A t \in Shards : t # s => nextChunk'[t] = nextChunk[t] /\ chunksLeft'[t] = chunksLeft[t]
    BY <1>0 DEF LinesInv, Types
  <2> QED BY <2>1, <2>2, <1>0, <1>1 DEF LinesInv, ChunksAddUp, ctorVars
<1>6. RangesAreChunks'
  <2>1. range'[s][1] = a /\ range'[s][2] = a + ChunkSize /\ pc'[s] = "taken"
    BY <1>0 DEF a, b, LinesInv, Types
  <2>2. \A t \in Shards : t # s => range'[t] = range[t] /\ pc'[t] = pc[t] /\ chunksLeft'[t] = chunksLeft[t]
    BY <1>0 DEF LinesInv, Types
  <2> QED BY <2>1, <2>2, <1>0, <1>3 DEF LinesInv, RangesAreChunks, Taken, Reading, lineVars
<1>7. ASSUME NEW p \in Lines(newlines) PROVE OnePlace(p)'
  <2>1. OnePlace(p) /\ "own" \in Places /\ "taken" \in Places /\ Key(p) \in Nat
    BY <1>1, LineStarts DEF LinesInv, Places
  <2>2. \A i \in Places, u \in Shards :
          ~(i = "own" /\ u = s) /\ ~(i = "taken" /\ u = s) => (At(i, u, p)' <=> At(i, u, p))
    BY <1>0 DEF At, InChunk, InTail, LinesInv, Types, Taken, Reading, ctorVars, lineVars
  <2>3. /\ At("own", s, p) <=> InChunk(newlines, p, a, shardEnd[s])
        /\ At("own", s, p)' <=> InChunk(newlines, p, b, shardEnd[s])
        /\ At("taken", s, p)' <=> InChunk(newlines, p, a, b)
        /\ ~At("taken", s, p)
    BY <1>0 DEF At, a, InChunk, LinesInv, Types, Taken, ctorVars
  <2>4. a < b  BY <1>1 DEF a, b
  <2>5. /\ At("own", s, p) \/ At("taken", s, p) <=> At("own", s, p)' \/ At("taken", s, p)'
        /\ ~(At("own", s, p)' /\ At("taken", s, p)')
    BY <2>1, <2>3, <2>4, <1>1, <1>2 DEF InChunk
  <2> QED BY <2>1, <2>2, <2>5, Moves
<1> QED BY <1>0, <1>4, <1>5, <1>6, <1>7 DEF LinesInv

\* take() moves a chunk from the common pool to the range of one shard.
LEMMA TakeCommonKeeps ==
  ASSUME LinesInv, NEW s \in Shards, TakeCommon(s) PROVE LinesInv'
<1> DEFINE b == commonPool + CommonChunkSize
<1>0. /\ pc[s] = "take" /\ chunksLeft[s] < 1 /\ commonPool' = b /\ eff' = eff
      /\ UNCHANGED << newlines, ctorVars, nextChunk, chunksLeft, lineVars >>
      /\ \/ commonPool >= eff /\ pc' = [pc EXCEPT ![s] = "done"] /\ UNCHANGED range
         \/ /\ ~(commonPool >= eff) /\ pc' = [pc EXCEPT ![s] = "taken"]
            /\ range' = [range EXCEPT ![s] = << commonPool, b >>]
  BY DEF TakeCommon, Goto, eff
<1>1. /\ newlines \in Files /\ commonPool \in Nat /\ b \in Nat /\ commonPool < b /\ built = NShards
      /\ eff \in Nat /\ CommonPoolStart(newlines) \in Nat
  BY <1>0, Sizes, TailStart, PoolStart DEF LinesInv, Types, ChunksAddUp, eff
<1>2. chunksLeft[s] = 0  BY <1>0 DEF LinesInv, Types
<1> HIDE DEF b
<1>4. Types'
  <2>1. << commonPool, b >> \in Nat \X Nat  BY <1>1
  <2>2. range' \in [Shards -> Nat \X Nat]  BY <1>0, <2>1 DEF LinesInv, Types
  <2>3. pc' \in [Shards -> Labels]  BY <1>0 DEF LinesInv, Types, Labels
  <2> QED BY <2>2, <2>3, <1>0, <1>1 DEF LinesInv, Types, ctorVars, lineVars
<1>5. ChunksAddUp'  BY <1>0, <1>1 DEF LinesInv, ChunksAddUp, ctorVars
<1>6. RangesAreChunks'
  <2>1. pc'[s] = "taken" => range'[s][1] = commonPool /\ range'[s][2] = commonPool + CommonChunkSize /\ commonPool < eff
    BY <1>0, <1>1 DEF b, LinesInv, Types
  <2>2. pc'[s] \in {"taken", "done"} /\ (pc'[s] = "done" => eff <= commonPool')
    BY <1>0, <1>1 DEF LinesInv, Types
  <2>3. \A t \in Shards : t # s => range'[t] = range[t] /\ pc'[t] = pc[t]
    BY <1>0 DEF LinesInv, Types
  <2> QED BY <2>1, <2>2, <2>3, <1>0, <1>1, <1>2 DEF LinesInv, RangesAreChunks, Taken, Reading, lineVars
<1>7. ASSUME NEW p \in Lines(newlines) PROVE OnePlace(p)'
  <2>1. OnePlace(p) /\ "pool" \in Places /\ "taken" \in Places /\ Key(p) \in Nat /\ 0 \in Shards
    BY <1>1, LineStarts, ShardNumbers DEF LinesInv, Places
  <2>2. \A i \in Places, u \in Shards :
          ~(i = "pool" /\ u = 0) /\ ~(i = "taken" /\ u = s) => (At(i, u, p)' <=> At(i, u, p))
    BY <1>0 DEF At, InChunk, InTail, LinesInv, Types, Taken, Reading, ctorVars, lineVars
  <2>3. /\ At("pool", 0, p) <=> InChunk(newlines, p, commonPool, eff)
        /\ At("pool", 0, p)' <=> InChunk(newlines, p, b, eff)
        /\ ~At("taken", s, p)
    BY <1>0 DEF At, InChunk, Taken
  <2>4. At("taken", s, p)' <=> InChunk(newlines, p, commonPool, b) /\ commonPool < eff
    BY <1>0, <1>1 DEF At, InChunk, Taken, LinesInv, Types
  <2>5. /\ At("pool", 0, p) \/ At("taken", s, p) <=> At("pool", 0, p)' \/ At("taken", s, p)'
        /\ ~(At("pool", 0, p)' /\ At("taken", s, p)')
    BY <2>1, <2>3, <2>4, <1>1 DEF InChunk, eff
  <2> QED BY <2>1, <2>2, <2>5, Moves
<1> QED BY <1>0, <1>4, <1>5, <1>6, <1>7 DEF LinesInv

\* The ends that setRange gives to a chunk, in order and at line starts.
LEMMA RangeEnds ==
  ASSUME NEW file \in Files, NEW a \in Nat, NEW b \in Nat, a < b, a < EffectiveFileSize(file),
         NEW from, from = IF a > 0 THEN NextNewLine(file, a) + 1 ELSE 0,
         NEW to, to = IF b < EffectiveFileSize(file) THEN NextNewLine(file, b) + 1 ELSE EffectiveFileSize(file)
  PROVE  /\ from \in Nat /\ to \in Nat /\ from <= to /\ to <= FileSize(file) /\ to - 1 \in file
         /\ a <= from /\ to <= b + Slack
<1> DEFINE size == EffectiveFileSize(file)
<1>0. /\ size \in Nat /\ size <= FileSize(file) /\ FileSize(file) \in Nat /\ size - 1 \in file /\ Slack \in Nat
      /\ file \subseteq Nat
  BY TailStart, LastByte, Sizes
<1>1. /\ NextNewLine(file, a) \in Nat /\ a <= NextNewLine(file, a) /\ NextNewLine(file, a) <= size - 1
      /\ \A n \in file : a <= n => NextNewLine(file, a) <= n
  BY <1>0, NextOne
<1>2. CASE b < size
  <2>1. /\ NextNewLine(file, b) \in file /\ NextNewLine(file, b) \in Nat /\ b <= NextNewLine(file, b)
        /\ NextNewLine(file, b) < FileSize(file) /\ NextNewLine(file, b) - b < Slack
    BY <1>0, <1>2, NextOne, SlackCovers
  <2> HIDE DEF size
  <2> QED BY <2>1, <1>1, <1>0, <1>2 DEF size
<1>3. CASE ~(b < size)  BY <1>3, <1>0, <1>1
<1> QED BY <1>2, <1>3

\* setRange gives a shard to read the lines of the chunk it has taken.
LEMMA SetRangeKeeps ==
  ASSUME LinesInv, NEW s \in Shards, SetRange(s) PROVE LinesInv'
<1> DEFINE a == range[s][1]
           b == range[s][2]
           from == LineStartFrom(a)
           to == LineEndFrom(b)
<1>0. /\ pc[s] = "map" /\ pc' = [pc EXCEPT ![s] = "lines"] /\ eff' = eff
      /\ cursor' = [cursor EXCEPT ![s] = from] /\ stop' = [stop EXCEPT ![s] = to]
      /\ UNCHANGED << newlines, ctorVars, takeVars, counted >>
  BY DEF SetRange, Goto, eff
<1>1. /\ newlines \in Files /\ a \in Nat /\ b \in Nat /\ a < b /\ a < eff /\ built = NShards
  BY <1>0, Sizes DEF LinesInv, Types, ChunksAddUp, RangesAreChunks, Taken
<1>2. /\ from \in Nat /\ to \in Nat /\ from <= to /\ to <= FileSize(newlines) /\ to - 1 \in newlines
  <2> HIDE DEF a, b
  <2> QED BY <1>1, RangeEnds DEF LineStartFrom, LineEndFrom, eff
<1>3. ASSUME NEW p \in Lines(newlines) PROVE (from <= p /\ p < to) <=> InChunk(newlines, p, a, b)
  <2> HIDE DEF a, b
  <2> QED BY <1>1, ChunkLines DEF LineStartFrom, LineEndFrom, eff
<1> HIDE DEF a, b, from, to
<1>4. Types'
  <2>1. cursor' \in [Shards -> Nat] /\ stop' \in [Shards -> Nat] /\ pc' \in [Shards -> Labels]
    BY <1>0, <1>2 DEF LinesInv, Types, Labels
  <2> QED BY <2>1, <1>0 DEF LinesInv, Types, ctorVars, takeVars
<1>5. ChunksAddUp'  BY <1>0, <1>1 DEF LinesInv, ChunksAddUp, ctorVars, takeVars
<1>6. RangesAreChunks'
  <2>1. pc'[s] = "lines" /\ cursor'[s] = from /\ stop'[s] = to  BY <1>0 DEF LinesInv, Types
  <2>2. \A t \in Shards : t # s => cursor'[t] = cursor[t] /\ stop'[t] = stop[t] /\ pc'[t] = pc[t]
    BY <1>0 DEF LinesInv, Types
  <2> QED BY <2>1, <2>2, <1>0, <1>2 DEF LinesInv, RangesAreChunks, Taken, Reading, ctorVars, takeVars
<1>7. ASSUME NEW p \in Lines(newlines) PROVE OnePlace(p)'
  <2>1. OnePlace(p) /\ "reading" \in Places /\ "taken" \in Places  BY DEF LinesInv, Places
  <2>2. \A i \in Places, u \in Shards :
          ~(i = "taken" /\ u = s) /\ ~(i = "reading" /\ u = s) => (At(i, u, p)' <=> At(i, u, p))
    BY <1>0 DEF At, InChunk, InTail, LinesInv, Types, Taken, Reading, ctorVars, takeVars
  <2>3. /\ At("taken", s, p) <=> InChunk(newlines, p, a, b)
        /\ ~At("taken", s, p)' /\ ~At("reading", s, p)
        /\ At("reading", s, p)' <=> (from <= p /\ p < to)
    BY <1>0 DEF At, a, b, LinesInv, Types, Taken, Reading
  <2> QED BY <2>1, <2>2, <2>3, <1>3, Moves
<1> QED BY <1>0, <1>4, <1>5, <1>6, <1>7 DEF LinesInv

-----------------------------------------------------------------------------
(* The lines *)

\* At first every line is in a chunk not handed out, in the common pool or in the tail.
LEMMA LinesInit == Init => LinesInv
<1> SUFFICES ASSUME Init PROVE LinesInv  OBVIOUS
<1>0. newlines \in Files /\ eff \in Nat  BY TailStart DEF Init, eff
<1>1. /\ CommonPoolStart(newlines) \in Nat /\ CommonPoolStart(newlines) \div ChunkSize \in Nat
      /\ (CommonPoolStart(newlines) \div ChunkSize) * ChunkSize = CommonPoolStart(newlines)
  BY <1>0, PoolStart
<1>2. Types  BY <1>0, <1>1, Sizes DEF Init, Types, Labels
<1>3. ChunksAddUp
  <2>1. \A s \in Shards : nextChunk[s] + chunksLeft[s] * ChunkSize = shardEnd[s]  BY Sizes DEF Init
  <2> QED BY <2>1, <1>1, Sizes DEF Init, ChunksAddUp
<1>4. RangesAreChunks  BY DEF Init, RangesAreChunks, Taken, Reading
<1>5. ASSUME NEW p \in Lines(newlines) PROVE OnePlace(p)
  <2>1. 0 \in Shards /\ Key(p) \in Nat  BY <1>0, ShardNumbers, LineStarts
  <2>2. \A k \in Places, s \in Shards :
          At(k, s, p) <=> \/ k = "pool" /\ s = 0 /\ InChunk(newlines, p, CommonPoolStart(newlines), eff)
                          \/ k = "tail" /\ s = 0 /\ InTail(newlines, p)
                          \/ k = "unbuilt" /\ s = 0 /\ InChunk(newlines, p, 0, CommonPoolStart(newlines))
    BY <2>1 DEF Init, At, InChunk, Taken, Reading
  <2>3. CASE InTail(newlines, p)
    <3>1. "tail" \in Places  BY DEF Places
    <3>2. ~InChunk(newlines, p, CommonPoolStart(newlines), eff) /\ ~InChunk(newlines, p, 0, CommonPoolStart(newlines))
      BY <2>3, <2>1, <1>0 DEF InTail, InChunk, eff
    <3> QED BY <2>1, <2>2, <2>3, <3>1, <3>2 DEF OnePlace
  <2>4. CASE ~InTail(newlines, p) /\ Key(p) < CommonPoolStart(newlines)
    <3>1. "unbuilt" \in Places  BY DEF Places
    <3>2. ~InChunk(newlines, p, CommonPoolStart(newlines), eff) /\ InChunk(newlines, p, 0, CommonPoolStart(newlines))
      BY <2>4, <2>1, <1>0, <1>1 DEF InTail, InChunk, eff
    <3> QED BY <2>1, <2>2, <2>4, <3>1, <3>2 DEF OnePlace
  <2>5. CASE ~InTail(newlines, p) /\ ~(Key(p) < CommonPoolStart(newlines))
    <3>1. "pool" \in Places  BY DEF Places
    <3>2. InChunk(newlines, p, CommonPoolStart(newlines), eff) /\ ~InChunk(newlines, p, 0, CommonPoolStart(newlines))
      BY <2>5, <2>1, <1>0, <1>1 DEF InTail, InChunk, eff
    <3> QED BY <2>1, <2>2, <2>5, <3>1, <3>2 DEF OnePlace
  <2> QED BY <2>3, <2>4, <2>5
<1> QED BY <1>0, <1>2, <1>3, <1>4, <1>5 DEF LinesInv

\* The steps that neither take, read nor count.
LEMMA OthersKeep ==
  ASSUME LinesInv, NEW s \in Shards,
         TryLock(s) \/ CompareAndSet(s) \/ Clean(s) \/ CleanThrows(s) \/ Release(s) \/ MapThrows(s) \/ EndingClean(s)
  PROVE  LinesInv'
<1>1. UNCHANGED << newlines, ctorVars, takeVars, lineVars >>
  BY DEF TryLock, CompareAndSet, Clean, CleanThrows, Release, MapThrows, EndingClean
<1>2. \/ pc' = pc
      \/ pc[s] \in Taken /\ \E label \in Taken : pc' = [pc EXCEPT ![s] = label]
  BY DEF TryLock, CompareAndSet, Clean, CleanThrows, Release, MapThrows, EndingClean, Goto, Taken
<1>3. /\ pc' \in [Shards -> Labels]
      /\ \A t \in Shards : pc'[t] = pc[t] \/ (pc[t] \in Taken /\ pc'[t] \in Taken)
  BY <1>2 DEF LinesInv, Types, Taken, Labels
<1> QED BY <1>1, <1>3, ElsewhereKeeps

\* Every step leaves every line in one place.
LEMMA LinesStep ==
  ASSUME FakeAdvance = FALSE, LinesInv, [Next]_queueVars PROVE LinesInv'
<1>1. CASE UNCHANGED queueVars
  <2>1. UNCHANGED << newlines, ctorVars, takeVars, lineVars, pc >>  BY <1>1 DEF queueVars
  <2>2. pc' \in [Shards -> Labels]  BY <2>1 DEF LinesInv, Types
  <2> QED BY <2>1, <2>2, ElsewhereKeeps
<1>2. CASE Distribute  BY <1>2, DistributeKeeps
<1>3. ASSUME NEW s \in Shards, Start(s) PROVE LinesInv'  BY <1>3, StartKeeps
<1>4. ASSUME NEW s \in Shards, ShardStep(s) PROVE LinesInv'
  BY <1>4, ProcessLineKeeps, EndOfRangeKeeps, TakeOwnKeeps, TakeCommonKeeps, SetRangeKeeps, OthersKeep DEF ShardStep
<1>5. ASSUME NEW s \in Shards, EndingClean(s) PROVE LinesInv'  BY <1>5, OthersKeep
<1> QED BY <1>1, <1>2, <1>3, <1>4, <1>5 DEF Next

\* With a line in one place nobody counts it twice; when all is done that place is a count.
LEMMA LinesInvImplies == LinesInv => NoLineTwice /\ NoLineLost
<1> SUFFICES ASSUME LinesInv PROVE NoLineTwice /\ NoLineLost  OBVIOUS
<1>1. NoLineTwice
  <2> SUFFICES ASSUME NEW p \in Lines(newlines), NEW s \in Shards, NEW t \in Shards, counted[s][p] > 0
               PROVE  counted[s][p] = 1 /\ (counted[t][p] > 0 => s = t)
    BY DEF NoLineTwice
  <2>1. counted[s][p] \in {0, 1} /\ counted[t][p] \in {0, 1}  BY DEF LinesInv, Types
  <2>2. counted[s][p] = 1 /\ (counted[t][p] > 0 => counted[t][p] = 1)  BY <2>1
  <2>3. At("counted", s, p) /\ (counted[t][p] > 0 => At("counted", t, p))  BY <2>2 DEF At
  <2>4. "counted" \in Places /\ OnePlace(p)  BY DEF Places, LinesInv
  <2>5. counted[t][p] > 0 => s = t  BY <2>3, <2>4, Zenon DEF OnePlace
  <2> QED BY <2>2, <2>5
<1>2. NoLineLost
  <2> SUFFICES ASSUME built = NShards, \A s \in Shards : pc[s] = "done", NEW p \in Lines(newlines)
               PROVE  \E s \in Shards : counted[s][p] > 0
    BY DEF NoLineLost
  <2>1. PICK k \in Places, s \in Shards : At(k, s, p)  BY DEF LinesInv, OnePlace
  <2>2. Key(p) \in Nat /\ eff \in Nat  BY LineStarts, TailStart DEF LinesInv, Types, eff
  <2>3. ~InChunk(newlines, p, nextChunk[s], shardEnd[s])
    <3>1. chunksLeft[s] = 0 /\ nextChunk[s] + chunksLeft[s] * ChunkSize = shardEnd[s] /\ nextChunk[s] \in Nat
      BY DEF LinesInv, RangesAreChunks, ChunksAddUp, Types
    <3>2. nextChunk[s] = shardEnd[s]  BY <3>1, Sizes
    <3> QED BY <3>2, <3>1, <2>2 DEF InChunk
  <2>4. ~InChunk(newlines, p, commonPool, eff)
    <3>1. eff <= commonPool /\ commonPool \in Nat  BY DEF LinesInv, RangesAreChunks, Types
    <3> QED BY <3>1, <2>2 DEF InChunk
  <2>5. ~InChunk(newlines, p, currentStart, CommonPoolStart(newlines))
    <3>1. currentStart + remainingChunks * ChunkSize = CommonPoolStart(newlines) /\ remainingChunks = 0 /\ currentStart \in Nat
      BY DEF LinesInv, ChunksAddUp, Types
    <3>2. currentStart = CommonPoolStart(newlines)  BY <3>1, Sizes
    <3> QED BY <3>2, <3>1, <2>2 DEF InChunk
  <2>6. counted[s][p] = 1  BY <2>1, <2>3, <2>4, <2>5 DEF At, Taken, Reading
  <2> QED BY <2>6
<1> QED BY <1>1, <1>2

\* NoLineTwice: the shards of CalculateAverage_vemana count no line twice, for every file and any
\* sizes of chunks, buffers and reserved tail, unless own chunks are told not to advance.
THEOREM CountedOnce ==
  ASSUME FakeAdvance = FALSE PROVE Spec => []NoLineTwice
<1>1. LinesInv /\ [Next]_queueVars => LinesInv'  BY LinesStep
<1> QED BY <1>1, LinesInit, LinesInvImplies, PTL DEF Spec

\* NoLineLost: shards that all end without an exception have counted every line.
THEOREM CountedAll ==
  ASSUME FakeAdvance = FALSE PROVE Spec => []NoLineLost
<1>1. LinesInv /\ [Next]_queueVars => LinesInv'  BY LinesStep
<1> QED BY <1>1, LinesInit, LinesInvImplies, PTL DEF Spec

-----------------------------------------------------------------------------
(* The lock *)

Cleaning == {"clean", "release"}
Locked == (\A s \in Shards : pc[s] \in Cleaning => occupied) /\ OneCleaner

\* A step that lets nobody clean who did not, and leaves the lock alone.
LEMMA NoneEnters ==
  ASSUME Locked, occupied' = occupied, \A s \in Shards : pc'[s] \in Cleaning => pc[s] \in Cleaning
  PROVE  Locked'
BY DEF Locked, OneCleaner, Cleaning

\* Every step keeps the lock taken while a shard cleans, and one shard cleaning.
LEMMA LockedStep ==
  ASSUME LinesInv, Locked, [Next]_queueVars PROVE Locked'
<1> USE DEF lockVars
<1>1. CASE UNCHANGED queueVars \/ Distribute
  <2>1. pc' = pc /\ occupied' = occupied  BY <1>1 DEF queueVars, Distribute
  <2> QED BY <2>1, NoneEnters
<1>2. ASSUME NEW s \in Shards,
             \/ Start(s) \/ ProcessLine(s) \/ EndOfRange(s) \/ TakeOwn(s) \/ TakeCommon(s) \/ TryLock(s)
             \/ Clean(s) \/ CleanThrows(s) \/ SetRange(s) \/ MapThrows(s) \/ EndingClean(s)
      PROVE  Locked'
  <2>1. /\ occupied' = occupied
        /\ \/ pc' = pc
           \/ \E label : pc' = [pc EXCEPT ![s] = label] /\ (label \in Cleaning => pc[s] = "clean")
    BY <1>2 DEF Start, TailOfFile, ProcessLine, EndOfRange, TakeOwn, TakeCommon, TryLock, Clean, CleanThrows,
                SetRange, MapThrows, EndingClean, Goto, Cleaning
  <2>2. \A t \in Shards : pc'[t] \in Cleaning => pc[t] \in Cleaning
    BY <2>1 DEF LinesInv, Types, Cleaning
  <2> QED BY <2>1, <2>2, NoneEnters
<1>3. ASSUME NEW s \in Shards, CompareAndSet(s) PROVE Locked'
  <2>1. CASE occupied
    <3>1. occupied' = occupied /\ pc' = [pc EXCEPT ![s] = "map"]  BY <1>3, <2>1 DEF CompareAndSet, Goto
    <3>2. \A t \in Shards : pc'[t] \in Cleaning => pc[t] \in Cleaning  BY <3>1 DEF LinesInv, Types, Cleaning
    <3> QED BY <3>1, <3>2, NoneEnters
  <2>2. CASE ~occupied
    <3>1. occupied' = TRUE /\ pc' = [pc EXCEPT ![s] = "clean"]  BY <1>3, <2>2 DEF CompareAndSet, Goto
    <3>2. \A t \in Shards : pc[t] \notin Cleaning  BY <2>2 DEF Locked
    <3>3. \A t \in Shards : pc'[t] \in Cleaning => t = s  BY <3>1, <3>2 DEF LinesInv, Types
    <3> QED BY <3>1, <3>3 DEF Locked, OneCleaner, Cleaning
  <2> QED BY <2>1, <2>2
<1>4. ASSUME NEW s \in Shards, Release(s) PROVE Locked'
  <2>1. pc[s] = "release" /\ pc' = [pc EXCEPT ![s] = "map"]  BY <1>4 DEF Release, Goto
  <2>2. \A t \in Shards : pc[t] \in Cleaning => t = s  BY <2>1 DEF Locked, OneCleaner, Cleaning
  <2>3. \A t \in Shards : pc'[t] \notin Cleaning  BY <2>1, <2>2 DEF LinesInv, Types, Cleaning
  <2> QED BY <2>3 DEF Locked, OneCleaner, Cleaning
<1> QED BY <1>1, <1>2, <1>3, <1>4 DEF Next, ShardStep

\* At first nobody cleans.
LEMMA LockedInit == Init => Locked
BY DEF Init, Locked, OneCleaner, Cleaning

\* OneCleaner: between SeqLock's acquire and release there is one shard.
THEOREM CleansAlone ==
  ASSUME FakeAdvance = FALSE PROVE Spec => []OneCleaner
<1>1. LinesInv /\ [Next]_queueVars => LinesInv'  BY LinesStep
<1>2. LinesInv /\ Locked /\ [Next]_queueVars => Locked'  BY LockedStep
<1>3. Locked => OneCleaner  BY DEF Locked
<1> QED BY <1>1, <1>2, <1>3, LinesInit, LockedInit, PTL DEF Spec

-----------------------------------------------------------------------------
(* The buffers *)

Windows == Int \X Int
Buffers ==
  /\ window \in [Shards -> Windows] /\ buffer \in [Shards -> Windows \cup {NoBuffer}]
  /\ mapped \in [Shards -> SUBSET Windows] /\ unclosed \in [Shards -> SUBSET (Windows \cup {NoBuffer})]
  /\ NothingLeaked
  /\ \A s \in Shards :
       /\ pc[s] # "failed" => window[s] = NoWindow \/ (buffer[s] = window[s] /\ buffer[s] \in mapped[s])
       /\ pc[s] = "lines" =>
            buffer[s] = window[s] /\ buffer[s] \in mapped[s] /\ window[s][1] <= cursor[s] /\ stop[s] <= window[s][2]

\* A window is not mistaken for the missing buffer.
LEMMA NoBufferIsNoWindow == NoBuffer \notin Windows
BY DEF NoBuffer, Windows

\* At first nothing is mapped.
LEMMA BuffersInit == Init => Buffers
BY DEF Init, Buffers, NothingLeaked, NoWindow, NoBuffer, Windows

\* A step that changes no buffer and begins no range.
LEMMA SameBuffers ==
  ASSUME Buffers, UNCHANGED bufferVars,
         \A s \in Shards :
           /\ pc'[s] = "lines" => pc[s] = "lines" /\ cursor[s] <= cursor'[s] /\ stop'[s] = stop[s]
                                  /\ cursor[s] \in Int /\ cursor'[s] \in Int
           /\ pc[s] = "failed" => pc'[s] = "failed"
  PROVE  Buffers'
BY DEF Buffers, bufferVars, NothingLeaked, Windows

\* Closing leaves neither a buffer nor a mapping.
LEMMA CloseKeeps ==
  ASSUME Buffers, NEW s \in Shards, Close(s), pc[s] # "lines",
         \A t \in Shards : t # s => pc'[t] = pc[t], pc'[s] # "lines", UNCHANGED << cursor, stop >>
  PROVE  Buffers' /\ mapped'[s] = {}
<1>1. /\ mapped' = [mapped EXCEPT ![s] = @ \ (unclosed[s] \cup {buffer[s]})]
      /\ unclosed' = [unclosed EXCEPT ![s] = {}]
      /\ buffer' = [buffer EXCEPT ![s] = NoBuffer]
      /\ window' = [window EXCEPT ![s] = NoWindow]
  BY DEF Close
<1>2. NoWindow \in Windows  BY DEF NoWindow, Windows
<1>3. /\ window' \in [Shards -> Windows] /\ buffer' \in [Shards -> Windows \cup {NoBuffer}]
      /\ unclosed' \in [Shards -> SUBSET (Windows \cup {NoBuffer})] /\ mapped' \in [Shards -> SUBSET Windows]
  BY <1>1, <1>2 DEF Buffers
<1>4. mapped'[s] = {} /\ window'[s] = NoWindow  BY <1>1 DEF Buffers, NothingLeaked
<1>5. \A t \in Shards : t # s => /\ mapped'[t] = mapped[t] /\ unclosed'[t] = unclosed[t]
                                 /\ buffer'[t] = buffer[t] /\ window'[t] = window[t]
  BY <1>1 DEF Buffers
<1> QED BY <1>3, <1>4, <1>5 DEF Buffers, NothingLeaked
\* The line starts of a range lie in the buffer that setRange keeps or maps for it.
LEMMA SetRangeBuffers ==
  ASSUME LinesInv, Buffers, NEW s \in Shards, SetRange(s) PROVE Buffers'
<1> DEFINE a == range[s][1]
           b == range[s][2]
           from == LineStartFrom(a)
           to == LineEndFrom(b)
<1>0. /\ pc[s] = "map" /\ pc' = [pc EXCEPT ![s] = "lines"]
      /\ cursor' = [cursor EXCEPT ![s] = from] /\ stop' = [stop EXCEPT ![s] = to]
  BY DEF SetRange, Goto
<1>1. /\ newlines \in Files /\ a \in Nat /\ b \in Nat /\ a < b /\ a < eff
      /\ b + Slack <= a + BufSize /\ Slack \in Nat /\ BufSize \in Nat
  BY <1>0, Sizes, BuffersLargeEnough DEF LinesInv, Types, RangesAreChunks, Taken
<1>2. from \in Nat /\ to \in Nat /\ to <= FileSize(newlines) /\ a <= from /\ to <= b + Slack /\ FileSize(newlines) \in Nat
  <2> HIDE DEF a, b
  <2> QED BY <1>1, RangeEnds, LastByte DEF LineStartFrom, LineEndFrom, eff
<1> HIDE DEF from, to
<1>3. /\ \A t \in Shards : t # s => cursor'[t] = cursor[t] /\ stop'[t] = stop[t] /\ pc'[t] = pc[t]
      /\ cursor'[s] = from /\ stop'[s] = to /\ pc'[s] = "lines"
  BY <1>0 DEF LinesInv, Types
<1>4. CASE OutOfWindow(s) /\ Map(s)
  <2> DEFINE w == NewWindow(s)
  <2>1. w \in Windows /\ w[1] = a /\ to <= w[2]
    <3>1. w = << a, Min2(a + BufSize, FileSize(newlines)) >>  BY DEF NewWindow
    <3> HIDE DEF a, b, w
    <3> QED BY <3>1, <1>1, <1>2 DEF Windows, Min2
  <2>2. /\ window' = [window EXCEPT ![s] = w] /\ buffer' = [buffer EXCEPT ![s] = w]
        /\ mapped' = [mapped EXCEPT ![s] = @ \cup {w}]
        /\ unclosed' = [unclosed EXCEPT ![s] = (@ \cup {buffer[s]}) \ {NoBuffer}]
    BY <1>4 DEF Map
  <2> HIDE DEF w
  <2>3. /\ window' \in [Shards -> Windows] /\ buffer' \in [Shards -> Windows \cup {NoBuffer}]
        /\ mapped' \in [Shards -> SUBSET Windows] /\ unclosed' \in [Shards -> SUBSET (Windows \cup {NoBuffer})]
    BY <2>1, <2>2 DEF Buffers
  <2>4. /\ window'[s] = w /\ buffer'[s] = w /\ mapped'[s] = mapped[s] \cup {w}
        /\ unclosed'[s] = (unclosed[s] \cup {buffer[s]}) \ {NoBuffer}
        /\ \A t \in Shards : t # s => /\ window'[t] = window[t] /\ buffer'[t] = buffer[t]
                                      /\ mapped'[t] = mapped[t] /\ unclosed'[t] = unclosed[t]
    BY <2>2 DEF Buffers
  <2>5. NothingLeaked'
    <3>1. mapped'[s] \subseteq unclosed'[s] \cup {buffer'[s]}
      BY <2>4, NoBufferIsNoWindow DEF Buffers, NothingLeaked
    <3> QED BY <3>1, <2>4 DEF Buffers, NothingLeaked
  <2>6. buffer'[s] = window'[s] /\ buffer'[s] \in mapped'[s] /\ window'[s][1] <= cursor'[s] /\ stop'[s] <= window'[s][2]
    BY <2>1, <2>4, <1>2, <1>3
  <2> QED BY <2>3, <2>4, <2>5, <2>6, <1>3 DEF Buffers
<1>5. CASE ~OutOfWindow(s) /\ UNCHANGED bufferVars
  <2>1. window[s] \in Windows /\ b + Slack <= window[s][2] /\ window[s][1] <= a
    BY <1>5, <1>1 DEF OutOfWindow, Buffers, Windows
  <2>2. window[s] # NoWindow  BY <2>1, <1>1 DEF NoWindow
  <2>3. buffer[s] = window[s] /\ buffer[s] \in mapped[s]  BY <2>2, <1>0 DEF Buffers
  <2>4. window[s][1] \in Int /\ window[s][2] \in Int  BY <2>1 DEF Windows
  <2>5. window[s][1] <= from /\ to <= window[s][2]
    <3> HIDE DEF a, b
    <3> QED BY <2>1, <2>4, <1>1, <1>2
  <2> QED BY <2>3, <2>5, <1>3, <1>5 DEF Buffers, bufferVars, NothingLeaked
<1> QED BY <1>4, <1>5 DEF SetRange

\* An exception leaves what is mapped where the next close finds it.
LEMMA ThrowsKeep ==
  ASSUME LinesInv, Buffers, NEW s \in Shards, CleanThrows(s) \/ MapThrows(s) PROVE Buffers'
<1>1. /\ pc' = [pc EXCEPT ![s] = "failed"] /\ UNCHANGED << buffer, mapped, cursor, stop >>
      /\ window' = window \/ window' = [window EXCEPT ![s] = NewWindow(s)]
      /\ \E new \in {unclosed[s] \cup {buffer[s]}, (unclosed[s] \cup {buffer[s]}) \ {NoBuffer}} :
           unclosed' = [unclosed EXCEPT ![s] = new]
  BY DEF CleanThrows, MapThrows, Goto, lineVars
<1>2. NewWindow(s) \in Windows \/ window' = window
  <2>1. CASE CleanThrows(s)  BY <2>1 DEF CleanThrows
  <2>2. CASE MapThrows(s)
    <3>1. range[s][1] \in Nat /\ newlines \in Files /\ BufSize \in Nat  BY Sizes DEF LinesInv, Types
    <3>2. FileSize(newlines) \in Nat  BY <3>1, LastByte
    <3> QED BY <3>1, <3>2 DEF NewWindow, Windows, Min2
  <2> QED BY <2>1, <2>2
<1>3. /\ window' \in [Shards -> Windows] /\ unclosed' \in [Shards -> SUBSET (Windows \cup {NoBuffer})]
  BY <1>1, <1>2 DEF Buffers
<1>4. /\ unclosed[s] \ {NoBuffer} \subseteq unclosed'[s] /\ pc'[s] = "failed"
      /\ \A t \in Shards : t # s => window'[t] = window[t] /\ unclosed'[t] = unclosed[t] /\ pc'[t] = pc[t]
  BY <1>1 DEF Buffers, LinesInv, Types
<1>5. NothingLeaked'
  BY <1>1, <1>4, NoBufferIsNoWindow DEF Buffers, NothingLeaked
<1> QED BY <1>1, <1>3, <1>4, <1>5 DEF Buffers

\* Every step keeps a reading shard within its buffer, and every mapping where close finds it.
LEMMA BuffersStep ==
  ASSUME LinesInv, LinesInv', Buffers, [Next]_queueVars PROVE Buffers'
<1>1. CASE UNCHANGED queueVars \/ Distribute
  <2>1. UNCHANGED << bufferVars, cursor, stop, pc >>  BY <1>1 DEF queueVars, lineVars, Distribute
  <2> QED BY <2>1, SameBuffers DEF LinesInv, Types
<1>2. ASSUME NEW s \in Shards,
             \/ Start(s) \/ EndOfRange(s) \/ TakeOwn(s) \/ TakeCommon(s) \/ TryLock(s) \/ CompareAndSet(s) \/ Release(s)
      PROVE  Buffers'
  <2>1. /\ UNCHANGED bufferVars
        /\ \E label \in Labels \ {"lines"} : pc' = [pc EXCEPT ![s] = label]
        /\ pc[s] # "failed"
        /\ \A t \in Shards : t # s => cursor'[t] = cursor[t] /\ stop'[t] = stop[t]
    BY <1>2 DEF Start, TailOfFile, EndOfRange, TakeOwn, TakeCommon, TryLock, CompareAndSet, Release, Goto,
                Labels, lineVars, LinesInv, Types
  <2>2. \A t \in Shards : /\ pc'[t] = "lines" => t # s /\ pc[t] = "lines"
                          /\ pc[t] = "failed" => pc'[t] = "failed"
    BY <2>1 DEF LinesInv, Types
  <2> QED BY <2>1, <2>2, SameBuffers DEF LinesInv, Types
<1>3. ASSUME NEW s \in Shards, ProcessLine(s) PROVE Buffers'
  <2>1. UNCHANGED bufferVars /\ pc' = pc /\ stop' = stop  BY <1>3 DEF ProcessLine
  <2>2. \A t \in Shards : cursor[t] \in Nat /\ cursor'[t] \in Nat  BY DEF LinesInv, Types
  <2>3. cursor[s] < FileSize(newlines) /\ newlines \in Files /\ FileSize(newlines) \in Nat
    <3>1. cursor[s] < stop[s] /\ stop[s] <= FileSize(newlines) /\ newlines \in Files /\ stop[s] \in Nat
      BY <1>3 DEF ProcessLine, LinesInv, RangesAreChunks, Types, Reading
    <3>2. FileSize(newlines) \in Nat  BY <3>1, LastByte
    <3> QED BY <3>1, <3>2, <2>2
  <2>4. cursor' = [cursor EXCEPT ![s] = NextNewLine(newlines, cursor[s]) + 1]  BY <1>3 DEF ProcessLine
  <2>5. NextNewLine(newlines, cursor[s]) \in Nat /\ cursor[s] <= NextNewLine(newlines, cursor[s])
    <3>1. newlines \subseteq Nat  BY <2>3, FilesAreLines
    <3> QED BY <2>2, <2>3, <3>1, NextOne
  <2>6. \A t \in Shards : cursor[t] <= cursor'[t]
    <3>1. cursor'[s] = NextNewLine(newlines, cursor[s]) + 1  BY <2>4 DEF LinesInv, Types
    <3>2. \A t \in Shards : t # s => cursor'[t] = cursor[t]  BY <2>4 DEF LinesInv, Types
    <3> QED BY <3>1, <3>2, <2>2, <2>5
  <2> QED BY <2>1, <2>2, <2>6, SameBuffers
<1>4. ASSUME NEW s \in Shards, Clean(s) \/ EndingClean(s) PROVE Buffers'
  <2>1. /\ Close(s) /\ UNCHANGED << cursor, stop >> /\ pc[s] \in {"clean", "done", "failed"}
        /\ pc' = pc \/ pc' = [pc EXCEPT ![s] = "release"]
    BY <1>4 DEF Clean, EndingClean, IsDone, Goto, lineVars
  <2>2. pc'[s] # "lines" /\ \A t \in Shards : t # s => pc'[t] = pc[t]  BY <2>1 DEF LinesInv, Types
  <2> QED BY <2>1, <2>2, CloseKeeps
<1> QED BY <1>1, <1>2, <1>3, <1>4, SetRangeBuffers, ThrowsKeep DEF Next, ShardStep

\* What a shard still has to read of its range is between its cursor and the end of its buffer.
LEMMA BuffersImply == LinesInv /\ Buffers => ReadsMappedBytes /\ NothingLeaked
<1> SUFFICES ASSUME LinesInv, Buffers, NEW s \in Shards, pc[s] = "lines"
             PROVE  cursor[s] <= window[s][2]
  BY DEF Buffers, ReadsMappedBytes
<1>1. cursor[s] <= stop[s] /\ stop[s] <= window[s][2]  BY DEF LinesInv, RangesAreChunks, Reading, Buffers
<1>2. cursor[s] \in Int /\ stop[s] \in Int /\ window[s][2] \in Int  BY DEF LinesInv, Types, Buffers, Windows
<1> QED BY <1>1, <1>2

\* ReadsMappedBytes: no shard reads beyond or after its buffer, for every file whose lines fit the
\* slack and any chunks that fit a buffer with it (ByteRange.setRange, close).
THEOREM ReadsWithinBuffers ==
  ASSUME FakeAdvance = FALSE PROVE Spec => []ReadsMappedBytes
<1>1. LinesInv /\ [Next]_queueVars => LinesInv'  BY LinesStep
<1>2. LinesInv /\ LinesInv' /\ Buffers /\ [Next]_queueVars => Buffers'  BY BuffersStep
<1> QED BY <1>1, <1>2, LinesInit, BuffersInit, BuffersImply, PTL DEF Spec

\* NothingLeaked: whatever fails, what is mapped for a shard is what its next close unmaps.
THEOREM LeaksNothing ==
  ASSUME FakeAdvance = FALSE PROVE Spec => []NothingLeaked
<1>1. LinesInv /\ [Next]_queueVars => LinesInv'  BY LinesStep
<1>2. LinesInv /\ LinesInv' /\ Buffers /\ [Next]_queueVars => Buffers'  BY BuffersStep
<1> QED BY <1>1, <1>2, LinesInit, BuffersInit, BuffersImply, PTL DEF Spec
--------------------------------------------------------------------------------
(* The shards under the Runner *)

QueueInv == LinesInv /\ Locked /\ Buffers
RunnerOnly == << started, merge, merged, output, closer, closed, main >>
TaskStates == {"queued", "running", "done", "failed"}

\* The merge and the cleaner are the last two tasks, begun in that order.
Tasks ==
  /\ started \in 0 .. NShards + 2 /\ merge \in TaskStates /\ closer \in TaskStates
  /\ merge = "queued" <=> started <= MergeTask
  /\ closer = "queued" <=> started <= CloserTask

\* The merge has added up what the shards it has taken in have counted.
Merging ==
  /\ merged \subseteq Shards /\ \A s \in merged : IsDone(s)
  /\ merge # "failed" => \A s \in merged : pc[s] = "done"
  /\ merge = "done" => merged = Shards
  /\ output \in [Lines(newlines) -> {0, 1}]
  /\ \A p \in Lines(newlines) : output[p] = 1 <=> \E s \in merged : pc[s] = "done" /\ counted[s][p] = 1

\* A shard that the cleaner has closed is over and has nothing mapped, unless closing threw.
Closing ==
  /\ closed \subseteq Shards /\ \A s \in closed : IsDone(s)
  /\ closer # "failed" => \A s \in closed : mapped[s] = {}
  /\ closer = "done" => closed = Shards

Waiting ==
  /\ main \in {"get", "await", "returned", "threw"}
  /\ main \in {"await", "returned"} => merge = "done"
  /\ main = "returned" => Ended(closer)

RunnerInv == QueueInv /\ Tasks /\ Merging /\ Closing /\ Waiting

\* The result of merge() that main gets accounts for each line of the file exactly once.
ResultIsComplete == main = "returned" => \A p \in Lines(newlines) : output[p] = 1

-----------------------------------------------------------------------------
(* The queue under the runner *)

\* To the shards a step of the runner is one of theirs or the cleaner's exception.
LEMMA QueueSteps ==
  ASSUME Tasks, [RunnerNext]_runnerVars
  PROVE  [Next]_queueVars \/ \E s \in Shards : CloseBuffersThrows(s)
<1>1. CASE UNCHANGED runnerVars  BY <1>1 DEF runnerVars
<1>2. CASE MainStep  BY <1>2 DEF MainStep, Construct, GotMerge, Terminated, Next
<1>3. CASE StartTask
  <2>1. started < NShards => started \in Shards  BY Sizes DEF Tasks, Shards
  <2> QED BY <1>3, <2>1 DEF StartTask, Next
<1>4. CASE MergeStep  BY <1>4 DEF MergeStep, Merge
<1>5. CASE CloserStep  BY <1>5 DEF CloserStep, CloseBuffersOf, Next
<1>6. ASSUME NEW s \in Shards, Run(s) PROVE [Next]_queueVars  BY <1>6 DEF Run, Next
<1> QED BY <1>1, <1>2, <1>3, <1>4, <1>5, <1>6 DEF RunnerNext

\* The cleaner's exception hides no mapping from a later close and disturbs no shard.
LEMMA CloserThrowKeeps ==
  ASSUME QueueInv, NEW s \in Shards, CloseBuffersThrows(s) PROVE QueueInv'
<1>1. /\ UNCHANGED << newlines, ctorVars, takeVars, lineVars, pc, occupied, window, buffer, mapped, cursor, stop >>
      /\ unclosed' = [unclosed EXCEPT ![s] = (@ \cup {buffer[s]}) \ {NoBuffer}]
  BY DEF CloseBuffersThrows, lockVars, lineVars
<1>2. LinesInv'
  <2>1. pc' \in [Shards -> Labels]  BY <1>1 DEF QueueInv, LinesInv, Types
  <2> QED BY <1>1, <2>1, ElsewhereKeeps DEF QueueInv
<1>3. Locked'  BY <1>1, NoneEnters DEF QueueInv
<1>4. Buffers'
  <2>1. unclosed' \in [Shards -> SUBSET (Windows \cup {NoBuffer})]  BY <1>1 DEF QueueInv, Buffers
  <2>2. /\ unclosed[s] \ {NoBuffer} \subseteq unclosed'[s]
        /\ \A t \in Shards : t # s => unclosed'[t] = unclosed[t]
    BY <1>1 DEF QueueInv, Buffers
  <2>3. NothingLeaked'  BY <1>1, <2>2, NoBufferIsNoWindow DEF QueueInv, Buffers, NothingLeaked
  <2> QED BY <1>1, <2>1, <2>3 DEF QueueInv, Buffers
<1> QED BY <1>2, <1>3, <1>4 DEF QueueInv

\* The invariants of the queue hold under the runner.
LEMMA QueueKept ==
  ASSUME FakeAdvance = FALSE, QueueInv, Tasks, [RunnerNext]_runnerVars PROVE QueueInv'
<1>1. ASSUME [Next]_queueVars PROVE QueueInv'
  <2>1. LinesInv'  BY <1>1, LinesStep DEF QueueInv
  <2> QED BY <1>1, <2>1, LockedStep, BuffersStep DEF QueueInv
<1> QED BY <1>1, QueueSteps, CloserThrowKeeps

\* A shard that is over stays so, counts no more and maps nothing anew.
LEMMA DoneStays ==
  ASSUME QueueInv, Tasks, [RunnerNext]_runnerVars, NEW t \in Shards, IsDone(t)
  PROVE  /\ pc'[t] = pc[t] /\ counted'[t] = counted[t] /\ newlines' = newlines
         /\ mapped[t] = {} => mapped'[t] = {}
<1> USE DEF bufferVars, lineVars, IsDone
<1>1. CASE UNCHANGED queueVars \/ Distribute  BY <1>1 DEF queueVars, Distribute
<1>2. ASSUME NEW s \in Shards, ProcessLine(s)
      PROVE  pc'[t] = pc[t] /\ counted'[t] = counted[t] /\ newlines' = newlines /\ mapped' = mapped
  <2>1. s # t  BY <1>2 DEF ProcessLine
  <2>2. /\ counted' = [counted EXCEPT ![s] = [counted[s] EXCEPT ![cursor[s]] = @ + 1]]
        /\ UNCHANGED << newlines, bufferVars, pc >>
    BY <1>2 DEF ProcessLine
  <2> QED BY <2>1, <2>2 DEF QueueInv, LinesInv, Types
<1>3. ASSUME NEW s \in Shards,
             \/ Start(s) \/ EndOfRange(s) \/ TakeOwn(s) \/ TakeCommon(s) \/ TryLock(s) \/ CompareAndSet(s)
             \/ Clean(s) \/ CleanThrows(s) \/ Release(s) \/ SetRange(s) \/ MapThrows(s)
      PROVE  pc'[t] = pc[t] /\ counted'[t] = counted[t] /\ newlines' = newlines /\ mapped'[t] = mapped[t]
  <2>1. /\ s # t /\ UNCHANGED << newlines, counted >>
        /\ \E label : pc' = [pc EXCEPT ![s] = label]
        /\ mapped' = mapped \/ \E new : mapped' = [mapped EXCEPT ![s] = new]
    BY <1>3 DEF Start, TailOfFile, EndOfRange, TakeOwn, TakeCommon, TryLock, CompareAndSet, Clean, CleanThrows,
                Release, SetRange, MapThrows, Goto, Close, Map
  <2> QED BY <2>1 DEF QueueInv, LinesInv, Types, Buffers
<1>4. ASSUME NEW s \in Shards, EndingClean(s)
      PROVE  pc' = pc /\ counted' = counted /\ newlines' = newlines /\ mapped'[t] \subseteq mapped[t]
  <2>1. mapped' = [mapped EXCEPT ![s] = @ \ (unclosed[s] \cup {buffer[s]})]  BY <1>4 DEF EndingClean, Close
  <2>2. mapped'[t] \subseteq mapped[t]  BY <2>1 DEF QueueInv, Buffers
  <2> QED BY <1>4, <2>2 DEF EndingClean
<1>5. ASSUME NEW s \in Shards, CloseBuffersThrows(s)
      PROVE  pc' = pc /\ counted' = counted /\ newlines' = newlines /\ mapped' = mapped
  BY <1>5 DEF CloseBuffersThrows
<1> QED BY <1>1, <1>2, <1>3, <1>4, <1>5, QueueSteps DEF Next, ShardStep
-----------------------------------------------------------------------------
(* The runner's own tasks *)

\* Tasks begin first in first out, and what has begun does not begin again.
LEMMA TasksKept ==
  ASSUME Tasks, [RunnerNext]_runnerVars PROVE Tasks'
<1> USE Sizes DEF Tasks, TaskStates, MergeTask, CloserTask
<1>1. CASE UNCHANGED RunnerOnly  BY <1>1 DEF RunnerOnly
<1>2. CASE StartTask  BY <1>2 DEF StartTask
<1>3. ASSUME NEW s \in Shards, Merge(s) PROVE Tasks'  BY <1>3 DEF Merge
<1>4. ASSUME NEW s \in Shards, CloseBuffersOf(s) \/ CloseBuffersThrows(s) PROVE Tasks'
  BY <1>4 DEF CloseBuffersOf, CloseBuffersThrows
<1>5. CASE GotMerge \/ Terminated  BY <1>5 DEF GotMerge, Terminated
<1> QED BY <1>1, <1>2, <1>3, <1>4, <1>5
        DEF RunnerNext, MainStep, MergeStep, CloserStep, Construct, Run, RunnerOnly, runnerVars

\* The merge adds a line at most once: two shards that are over have not both counted it.
LEMMA MergingKept ==
  ASSUME QueueInv, Tasks, Merging, [RunnerNext]_runnerVars PROVE Merging'
<1>0. NoLineTwice /\ \A s \in Shards, p \in Lines(newlines) : counted[s][p] \in {0, 1}
  BY LinesInvImplies DEF QueueInv, LinesInv, Types
<1>1. \A s \in merged : /\ s \in Shards /\ pc'[s] = pc[s] /\ counted'[s] = counted[s]
                        /\ newlines' = newlines /\ IsDone(s)' = IsDone(s)
  BY DoneStays DEF Merging, IsDone
<1>2. newlines' = newlines
  <2>1. [Next]_queueVars => newlines' = newlines
    BY DEF Next, ShardStep, queueVars, Distribute, Start, ProcessLine, EndOfRange, TakeOwn, TakeCommon, TryLock,
           CompareAndSet, Clean, CleanThrows, Release, SetRange, MapThrows, EndingClean
  <2> QED BY <2>1, QueueSteps DEF CloseBuffersThrows
<1>3. CASE UNCHANGED << merged, output >> /\ (merge' = merge \/ (merge = "queued" /\ merge' = "running"))
  BY <1>1, <1>2, <1>3 DEF Merging
<1>4. ASSUME NEW s \in Shards, Merge(s) PROVE Merging'
  <2>0. /\ merge = "running" /\ s \notin merged /\ IsDone(s) /\ merged' = merged \cup {s}
        /\ pc' = pc /\ counted' = counted
    BY <1>4 DEF Merge, queueVars, lineVars
  <2>1. merged' \subseteq Shards /\ \A t \in merged' : IsDone(t)'
    BY <2>0 DEF Merging, IsDone
  <2>2. CASE pc[s] = "failed"
    <3>1. merge' = "failed" /\ output' = output  BY <1>4, <2>2 DEF Merge
    <3>2. \A p \in Lines(newlines) : (\E t \in merged' : pc'[t] = "done" /\ counted'[t][p] = 1)
                                     <=> (\E t \in merged : pc[t] = "done" /\ counted[t][p] = 1)
      BY <2>0, <2>2
    <3> QED BY <2>1, <3>1, <3>2, <1>2 DEF Merging
  <2>3. CASE pc[s] # "failed"
    <3>1. pc[s] = "done"  BY <2>0, <2>3 DEF IsDone
    <3>2. /\ output' = [p \in DOMAIN output |-> output[p] + counted[s][p]]
          /\ merge' = IF merged' = Shards THEN "done" ELSE merge
      BY <1>4, <2>3 DEF Merge
    <3>3. ASSUME NEW p \in Lines(newlines)
          PROVE  /\ output'[p] \in {0, 1}
                 /\ output'[p] = 1 <=> \E t \in merged' : pc'[t] = "done" /\ counted'[t][p] = 1
      <4>1. output'[p] = output[p] + counted[s][p] /\ output[p] \in {0, 1} /\ counted[s][p] \in {0, 1}
        BY <3>2, <1>0 DEF Merging
      <4>2. ~(output[p] = 1 /\ counted[s][p] = 1)
        <5>1. SUFFICES ASSUME output[p] = 1, counted[s][p] = 1 PROVE FALSE  OBVIOUS
        <5>2. PICK r \in merged : counted[r][p] = 1  BY <5>1 DEF Merging
        <5>3. r \in Shards /\ r # s  BY <2>0 DEF Merging
        <5> QED BY <5>1, <5>2, <5>3, <1>0 DEF NoLineTwice
      <4>3. output'[p] \in {0, 1} /\ (output'[p] = 1 <=> output[p] = 1 \/ counted[s][p] = 1)  BY <4>1, <4>2
      <4>4. output[p] = 1 <=> \E t \in merged : pc[t] = "done" /\ counted[t][p] = 1  BY DEF Merging
      <4> QED BY <4>3, <4>4, <2>0, <3>1
    <3>4. output' \in [Lines(newlines') -> {0, 1}]  BY <3>2, <3>3, <1>2 DEF Merging
    <3>5. merge' # "failed" /\ (merge' = "done" => merged' = Shards) /\ \A t \in merged' : pc'[t] = "done"
      BY <2>0, <3>1, <3>2 DEF Merging
    <3> QED BY <2>1, <3>3, <3>4, <3>5, <1>2 DEF Merging
  <2> QED BY <2>2, <2>3
<1>5. \/ UNCHANGED << merged, output >> /\ (merge' = merge \/ (merge = "queued" /\ merge' = "running"))
      \/ \E s \in Shards : Merge(s)
  BY Sizes DEF RunnerNext, MainStep, MergeStep, CloserStep, Construct, GotMerge, Terminated, StartTask, Run,
         CloseBuffersOf, CloseBuffersThrows, runnerVars, Tasks, MergeTask
<1> QED BY <1>3, <1>4, <1>5

\* Nothing is mapped for a shard once the cleaner has been there.
LEMMA ClosingKept ==
  ASSUME QueueInv, Tasks, Closing, [RunnerNext]_runnerVars PROVE Closing'
<1>1. \A s \in closed : /\ s \in Shards /\ pc'[s] = pc[s] /\ IsDone(s)' = IsDone(s)
                        /\ mapped[s] = {} => mapped'[s] = {}
  BY DoneStays DEF Closing, IsDone
<1>2. CASE closed' = closed /\ (closer' = closer \/ (closer = "queued" /\ closer' = "running"))
  BY <1>1, <1>2 DEF Closing
<1>3. ASSUME NEW s \in Shards, CloseBuffersOf(s) PROVE Closing'
  <2>1. /\ closer = "running" /\ IsDone(s) /\ Close(s) /\ pc' = pc /\ closed' = closed \cup {s}
        /\ closer' = IF closed' = Shards THEN "done" ELSE closer
    BY <1>3 DEF CloseBuffersOf, EndingClean
  <2>2. mapped'[s] = {}
    BY <2>1 DEF Close, QueueInv, Buffers, NothingLeaked
  <2> QED BY <1>1, <2>1, <2>2 DEF Closing, IsDone
<1>4. ASSUME NEW s \in Shards, CloseBuffersThrows(s) PROVE Closing'
  <2>1. closer' = "failed" /\ closed' = closed \cup {s} /\ pc' = pc /\ IsDone(s)
    BY <1>4 DEF CloseBuffersThrows
  <2> QED BY <1>1, <2>1 DEF Closing, IsDone
<1>5. \/ closed' = closed /\ (closer' = closer \/ (closer = "queued" /\ closer' = "running"))
      \/ \E s \in Shards : CloseBuffersOf(s) \/ CloseBuffersThrows(s)
  BY Sizes DEF RunnerNext, MainStep, MergeStep, CloserStep, Construct, GotMerge, Terminated, StartTask, Run,
         Merge, runnerVars, Tasks, CloserTask
<1> QED BY <1>2, <1>3, <1>4, <1>5

\* All tasks have ended only when the cleaner has: there are no more than NShards + 2.
LEMMA AllEnded ==
  ASSUME TasksEnded = NShards + 2 PROVE Ended(merge) /\ Ended(closer)
<1> DEFINE D == {s \in Shards : IsDone(s)}
           P == {<< "merge", merge >>, << "closer", closer >>}
           E == {t \in P : Ended(t[2])}
<1>1. IsFiniteSet(D) /\ Cardinality(D) \in Nat /\ Cardinality(D) <= NShards
  <2>1. NShards \in Nat  BY Sizes
  <2>2. IsFiniteSet(Shards) /\ Cardinality(Shards) = NShards
    <3>1. IsFiniteSet(0 .. NShards - 1)
          /\ Cardinality(0 .. NShards - 1) = IF 0 > NShards - 1 THEN 0 ELSE (NShards - 1) - 0 + 1
      BY <2>1, FS_Interval
    <3> QED BY <3>1, Sizes DEF Shards
  <2>3. D \in SUBSET Shards  OBVIOUS
  <2>4. IsFiniteSet(D) /\ Cardinality(D) <= Cardinality(Shards)  BY <2>2, <2>3, FS_Subset
  <2> QED BY <2>2, <2>4, FS_CardinalityType
<1>2. IsFiniteSet(P) /\ Cardinality(P) = 2
  <2>1. IsFiniteSet({<< "merge", merge >>}) /\ Cardinality({<< "merge", merge >>}) = 1  BY FS_Singleton
  <2>2. P = {<< "merge", merge >>} \cup {<< "closer", closer >>}
        /\ << "closer", closer >> \notin {<< "merge", merge >>}
    OBVIOUS
  <2>3. IsFiniteSet({<< "merge", merge >>} \cup {<< "closer", closer >>})
        /\ Cardinality({<< "merge", merge >>} \cup {<< "closer", closer >>}) = Cardinality({<< "merge", merge >>}) + 1
    BY <2>1, <2>2, FS_AddElement
  <2> QED BY <2>1, <2>2, <2>3
<1>3. E \in SUBSET P  OBVIOUS
<1>4. TasksEnded = Cardinality(D) + Cardinality(E)  BY DEF TasksEnded
<1> HIDE DEF D, E, P
<1>5. /\ IsFiniteSet(E) /\ Cardinality(E) <= Cardinality(P)
      /\ Cardinality(P) = Cardinality(E) => P = E
  BY <1>2, <1>3, FS_Subset
<1>6. Cardinality(E) \in Nat  BY <1>5, FS_CardinalityType
<1>7. P = E  BY <1>1, <1>2, <1>4, <1>5, <1>6, Sizes
<1>8. \A t \in E : Ended(t[2])  BY DEF E
<1>9. << "merge", merge >> \in P /\ << "closer", closer >> \in P  BY DEF P
<1> QED BY <1>7, <1>8, <1>9

\* main goes on only with a merged result, and returns only when the cleaner has ended.
LEMMA WaitingKept ==
  ASSUME Tasks, Waiting, [RunnerNext]_runnerVars PROVE Waiting'
<1> USE Sizes DEF Waiting, Ended, Tasks, TaskStates, MergeTask, CloserTask
<1>1. CASE UNCHANGED RunnerOnly  BY <1>1 DEF RunnerOnly
<1>2. CASE StartTask  BY <1>2 DEF StartTask
<1>3. ASSUME NEW s \in Shards, Merge(s) PROVE Waiting'  BY <1>3 DEF Merge
<1>4. ASSUME NEW s \in Shards, CloseBuffersOf(s) \/ CloseBuffersThrows(s) PROVE Waiting'
  BY <1>4 DEF CloseBuffersOf, CloseBuffersThrows
<1>5. CASE GotMerge  BY <1>5 DEF GotMerge
<1>6. CASE Terminated  BY <1>6, AllEnded DEF Terminated
<1> QED BY <1>1, <1>2, <1>3, <1>4, <1>5, <1>6
        DEF RunnerNext, MainStep, MergeStep, CloserStep, Construct, Run, RunnerOnly, runnerVars

-----------------------------------------------------------------------------
\* Nothing has begun.
LEMMA RunnerInvInit == RunnerInit => RunnerInv
<1> SUFFICES ASSUME RunnerInit PROVE RunnerInv  OBVIOUS
<1>1. QueueInv  BY LinesInit, LockedInit, BuffersInit DEF RunnerInit, QueueInv
<1>2. Tasks /\ Closing /\ Waiting
  BY Sizes DEF RunnerInit, Tasks, TaskStates, MergeTask, CloserTask, Closing, Waiting
<1>3. Merging  BY DEF RunnerInit, Merging
<1> QED BY <1>1, <1>2, <1>3 DEF RunnerInv

\* Every step of the runner keeps its invariant.
LEMMA RunnerInvStep ==
  ASSUME FakeAdvance = FALSE, RunnerInv, [RunnerNext]_runnerVars PROVE RunnerInv'
BY QueueKept, TasksKept, MergingKept, ClosingKept, WaitingKept DEF RunnerInv

\* What the invariant says of shards, mappings and the result.
LEMMA RunnerInvImplies ==
  RunnerInv => /\ NoLineTwice /\ NoLineLost /\ ReadsMappedBytes /\ NothingLeaked /\ OneCleaner
               /\ UnmappedBeforeExit /\ ResultIsComplete
<1> SUFFICES ASSUME RunnerInv
             PROVE  /\ NoLineTwice /\ NoLineLost /\ ReadsMappedBytes /\ NothingLeaked /\ OneCleaner
                    /\ UnmappedBeforeExit /\ ResultIsComplete
  OBVIOUS
<1>1. NoLineTwice /\ NoLineLost /\ ReadsMappedBytes /\ NothingLeaked /\ OneCleaner
  BY LinesInvImplies, BuffersImply DEF RunnerInv, QueueInv, Locked
<1>2. UnmappedBeforeExit
  BY DEF UnmappedBeforeExit, RunnerInv, Closing, Waiting, Ended
<1>3. ResultIsComplete
  <2> SUFFICES ASSUME main = "returned", NEW p \in Lines(newlines) PROVE output[p] = 1  BY DEF ResultIsComplete
  <2>1. merged = Shards /\ \A s \in Shards : pc[s] = "done"  BY DEF RunnerInv, Merging, Waiting
  <2>2. built = NShards  BY <2>1, ShardNumbers DEF RunnerInv, QueueInv, LinesInv, ChunksAddUp
  <2>3. PICK s \in Shards : counted[s][p] > 0  BY <1>1, <2>1, <2>2 DEF NoLineLost
  <2>4. counted[s][p] = 1  BY <1>1, <2>3 DEF NoLineTwice
  <2> QED BY <2>1, <2>4 DEF RunnerInv, Merging
<1> QED BY <1>1, <1>2, <1>3

\* RunnerInv is an invariant of the runner, and with it what it implies.
LEMMA RunnerInvariant ==
  ASSUME FakeAdvance = FALSE PROVE RunnerSpec => []RunnerInv
<1>1. RunnerInv /\ [RunnerNext]_runnerVars => RunnerInv'  BY RunnerInvStep
<1> QED BY <1>1, RunnerInvInit, PTL DEF RunnerSpec

\* What holds of the shards alone holds of them under the Runner, whatever throws.
THEOREM ShardsUnderRunner ==
  ASSUME FakeAdvance = FALSE
  PROVE  RunnerSpec => [](NoLineTwice /\ NoLineLost /\ ReadsMappedBytes /\ NothingLeaked /\ OneCleaner)
BY RunnerInvariant, RunnerInvImplies, PTL

\* A result that getSummaryStatistics returns accounts for every line of the file exactly once.
THEOREM ReturnsCompleteResult ==
  ASSUME FakeAdvance = FALSE PROVE RunnerSpec => []ResultIsComplete
BY RunnerInvariant, RunnerInvImplies, PTL

\* UnmappedBeforeExit: when main returns, closeByteBuffers has left nothing mapped, unless it threw.
THEOREM ExitsUnmapped ==
  ASSUME FakeAdvance = FALSE PROVE RunnerSpec => []UnmappedBeforeExit
BY RunnerInvariant, RunnerInvImplies, PTL
\* NoCloseUnderAShard: what is mapped for a shard grows, but in its own cleaning and when it is over
\* (attemptIntermediateClose, closeByteBuffers).
THEOREM ClosesNoRunningShard ==
  ASSUME FakeAdvance = FALSE PROVE RunnerSpec => NoCloseUnderAShard
<1> DEFINE Allowed(t) ==
      mapped'[t] # mapped[t] /\ ~(mapped[t] \subseteq mapped'[t]) => pc[t] \in {"clean", "done", "failed"}
<1>1. ASSUME RunnerInv, [RunnerNext]_runnerVars, NEW t \in Shards PROVE Allowed(t)
  <2> USE DEF bufferVars
  <2>1. mapped \in [Shards -> SUBSET Windows]  BY <1>1 DEF RunnerInv, QueueInv, Buffers
  <2>2. CASE mapped' = mapped  BY <2>2
  <2>3. ASSUME NEW s \in Shards, Clean(s) \/ EndingClean(s) PROVE Allowed(t)
    <3>1. /\ mapped' = [mapped EXCEPT ![s] = @ \ (unclosed[s] \cup {buffer[s]})]
          /\ pc[s] \in {"clean", "done", "failed"}
      BY <2>3 DEF Clean, EndingClean, Close, IsDone
    <3> QED BY <3>1, <2>1
  <2>4. ASSUME NEW s \in Shards, SetRange(s) PROVE Allowed(t)
    <3>1. mapped' = mapped \/ mapped' = [mapped EXCEPT ![s] = @ \cup {NewWindow(s)}]
      BY <2>4 DEF SetRange, Map
    <3> QED BY <3>1, <2>1
  <2>5. \/ mapped' = mapped
        \/ \E s \in Shards : Clean(s) \/ EndingClean(s) \/ SetRange(s)
    <3>1. [Next]_queueVars => mapped' = mapped \/ \E s \in Shards : Clean(s) \/ EndingClean(s) \/ SetRange(s)
      BY DEF Next, ShardStep, queueVars, Distribute, Start, ProcessLine, EndOfRange, TakeOwn, TakeCommon, TryLock,
             CompareAndSet, CleanThrows, Release, MapThrows
    <3>2. \A s \in Shards : CloseBuffersThrows(s) => mapped' = mapped  BY DEF CloseBuffersThrows
    <3> QED BY <1>1, <3>1, <3>2, QueueSteps DEF RunnerInv
  <2> QED BY <2>2, <2>3, <2>4, <2>5
<1>2. RunnerInv /\ [RunnerNext]_runnerVars =>
        [\A s \in Shards : mapped'[s] # mapped[s] /\ ~(mapped[s] \subseteq mapped'[s]) =>
           pc[s] \in {"clean", "done", "failed"}]_runnerVars
  BY <1>1
<1> QED BY <1>2, RunnerInvariant, PTL DEF RunnerSpec, NoCloseUnderAShard

-----------------------------------------------------------------------------
(* The runner implements EachLineOnce *)

\* A sum of which one summand is 1, or none, and the others 0.
LEMMA SumOfOne ==
  ASSUME NEW c \in [Shards -> {0, 1}], \A s, t \in Shards : c[s] = 1 /\ c[t] = 1 => s = t
  PROVE  SumFunction(c) = IF \E s \in Shards : c[s] = 1 THEN 1 ELSE 0
<1> DEFINE none == [s \in Shards |-> 0]
<1>1. IsFiniteSet(Shards)
  <2>1. NShards - 1 \in Int  BY Sizes
  <2> QED BY <2>1, FS_Interval DEF Shards
<1>2. SumFunction(none) = 0  BY <1>1, SumZero
<1>3. CASE \A s \in Shards : c[s] # 1
  <2>1. \A s \in Shards : c[s] = 0  BY <1>3
  <2>2. c = none  BY <2>1
  <2> QED BY <1>2, <1>3, <2>2
<1>4. ASSUME NEW s \in Shards, c[s] = 1 PROVE SumFunction(c) = 1
  <2>1. \A t \in Shards \ {s} : c[t] = 0  BY <1>4
  <2>2. /\ none \in [Shards -> Nat] /\ c \in [Shards -> Nat]
        /\ c[s] = none[s] + 1 /\ \A t \in Shards \ {s} : c[t] = none[t]
    BY <1>4, <2>1
  <2> HIDE DEF none
  <2>3. SumFunction(c) = SumFunction(none) + 1  BY <1>1, <2>2, SumChange
  <2> QED BY <1>2, <2>3
<1> QED BY <1>3, <1>4

\* How often the shards have counted each line.
TimesCounted == [p \in Lines(newlines) |-> SumFunction([s \in Shards |-> counted[s][p]])]
Totals == TimesCounted = [p \in Lines(newlines) |-> IF \E s \in Shards : counted[s][p] = 1 THEN 1 ELSE 0]

\* Each line counts once where some shard has counted it, and not at all otherwise.
LEMMA CountsAddUp == RunnerInv => Totals
<1> SUFFICES ASSUME RunnerInv, NEW p \in Lines(newlines)
             PROVE  SumFunction([s \in Shards |-> counted[s][p]])
                      = IF \E s \in Shards : counted[s][p] = 1 THEN 1 ELSE 0
  BY DEF Totals, TimesCounted
<1> DEFINE c == [s \in Shards |-> counted[s][p]]
<1>1. LinesInv /\ NoLineTwice  BY LinesInvImplies DEF RunnerInv, QueueInv
<1>2. \A s \in Shards : counted[s][p] \in {0, 1}  BY <1>1 DEF LinesInv, Types
<1>3. \A s, t \in Shards : counted[s][p] = 1 /\ counted[t][p] = 1 => s = t  BY <1>1 DEF NoLineTwice
<1>4. c \in [Shards -> {0, 1}] /\ \A s \in Shards : c[s] = counted[s][p]  BY <1>2
<1> HIDE DEF c
<1>5. SumFunction(c) = IF \E s \in Shards : c[s] = 1 THEN 1 ELSE 0  BY <1>3, <1>4, SumOfOne
<1> QED BY <1>4, <1>5 DEF c

\* The line at a cursor is counted for the first time.
LEMMA CountsFirst ==
  ASSUME LinesInv, NEW s \in Shards, ProcessLine(s)
  PROVE  /\ newlines' = newlines
         /\ \A t \in Shards : \A p \in Lines(newlines) :
              /\ p = cursor[s] => counted[t][p] = 0
              /\ counted'[t][p] = IF t = s /\ p = cursor[s] THEN 1 ELSE counted[t][p]
<1>1. /\ pc[s] \in Reading /\ cursor[s] < stop[s] /\ newlines' = newlines
      /\ counted' = [counted EXCEPT ![s][cursor[s]] = @ + 1]
  BY DEF ProcessLine, Reading
<1>2. ASSUME NEW t \in Shards, NEW p \in Lines(newlines), p = cursor[s] PROVE counted[t][p] = 0
  <2>1. SUFFICES ASSUME counted[t][p] = 1 PROVE FALSE  BY DEF LinesInv, Types
  <2>2. cursor[s] \in Nat  BY DEF LinesInv, Types
  <2>3. At("counted", t, p) /\ At("reading", s, p)  BY <1>1, <1>2, <2>1, <2>2 DEF At
  <2>4. OnePlace(p) /\ "counted" \in Places /\ "reading" \in Places  BY DEF LinesInv, Places
  <2>5. "counted" = "reading"  BY <2>3, <2>4, Zenon DEF OnePlace
  <2> QED BY <2>5
<1>3. ASSUME NEW t \in Shards, NEW p \in Lines(newlines)
      PROVE  counted'[t][p] = IF t = s /\ p = cursor[s] THEN 1 ELSE counted[t][p]
  <2>1. counted \in [Shards -> [Lines(newlines) -> {0, 1}]]  BY DEF LinesInv, Types
  <2> QED BY <1>1, <1>2, <2>1
<1> QED BY <1>1, <1>2, <1>3

\* CountsEachLineOnce: in every execution the Runner takes lines as EachLineOnce does, one at a time
\* and none twice, and what main gets is each of them once, or an exception.
THEOREM RunnerRefines ==
  ASSUME FakeAdvance = FALSE PROVE RunnerSpec => CountsEachLineOnce
<1>1. RunnerInit => Split!Init
  <2> SUFFICES ASSUME RunnerInit PROVE Split!Init  OBVIOUS
  <2>1. main = "get" /\ counted = [s \in Shards |-> [p \in Lines(newlines) |-> 0]]  BY DEF RunnerInit, Init
  <2>2. Totals  BY RunnerInvInit, CountsAddUp
  <2>3. TimesCounted = [p \in Lines(newlines) |-> 0]  BY <2>1, <2>2 DEF Totals
  <2> QED BY <2>1, <2>3 DEF Split!Init, TimesCounted
<1>2. RunnerInv /\ RunnerInv' /\ [RunnerNext]_runnerVars => [Split!Next]_(Split!vars)
  <2> SUFFICES ASSUME RunnerInv, RunnerInv', [RunnerNext]_runnerVars PROVE [Split!Next]_(Split!vars)  OBVIOUS
  <2>1. Totals /\ Totals'  BY CountsAddUp, PTL
  <2>2. /\ LinesInv /\ NoLineTwice /\ NoLineLost
        /\ main \in {"get", "await", "returned", "threw"}
        /\ main \in {"await", "returned"} => merge = "done" /\ \A s \in Shards : pc[s] = "done"
    BY RunnerInvImplies DEF RunnerInv, QueueInv, Waiting, Merging
  <2>3. ASSUME NEW s \in Shards, Run(s), ProcessLine(s) PROVE [Split!Next]_(Split!vars)
    <3>1. main' = main /\ output' = output /\ main # "returned"
      BY <2>2, <2>3 DEF Run, ProcessLine
    <3>2. newlines' = newlines  BY <2>2, <2>3, CountsFirst
    <3>3. CASE cursor[s] \in Lines(newlines)
      <4> DEFINE p == cursor[s]
      <4>1. TimesCounted[p] = 0  BY <2>1, <2>2, <2>3, <3>3, CountsFirst DEF Totals
      <4>2. TimesCounted' = [TimesCounted EXCEPT ![p] = 1]
        <5>1. \A q \in Lines(newlines) :
                (\E t \in Shards : counted'[t][q] = 1) <=> q = p \/ \E t \in Shards : counted[t][q] = 1
          BY <2>2, <2>3, CountsFirst
        <5> QED BY <2>1, <3>2, <5>1 DEF Totals
      <4> QED BY <3>1, <3>2, <3>3, <4>1, <4>2 DEF Split!Next, Split!Count, TimesCounted
    <3>4. CASE cursor[s] \notin Lines(newlines)
      <4>1. TimesCounted' = TimesCounted  BY <2>1, <2>2, <2>3, <3>2, <3>4, CountsFirst DEF Totals
      <4> QED BY <3>1, <3>2, <4>1 DEF Split!vars, TimesCounted
    <3> QED BY <3>3, <3>4
  <2>4. CASE GotMerge
    <3>1. /\ UNCHANGED <<newlines, counted, output>> /\ main = "get" /\ main' \in {"await", "threw"}
      BY <2>4 DEF GotMerge, queueVars, lineVars
    <3>2. TimesCounted' = TimesCounted  BY <3>1 DEF TimesCounted
    <3> QED BY <3>1, <3>2 DEF Split!vars, Split!Next, Split!Fail, TimesCounted
  <2>5. CASE Terminated
    <3>1. UNCHANGED <<newlines, counted, output>> /\ main = "await" /\ main' = "returned"
      BY <2>5 DEF Terminated, queueVars, lineVars
    <3>2. TimesCounted' = TimesCounted  BY <3>1 DEF TimesCounted
    <3>3. built = NShards  BY <2>2, <3>1, ShardNumbers DEF LinesInv, ChunksAddUp
    <3>4. ASSUME NEW p \in Lines(newlines) PROVE TimesCounted[p] = 1
      <4>1. PICK s \in Shards : counted[s][p] > 0  BY <2>2, <3>1, <3>3 DEF NoLineLost
      <4>2. counted[s][p] = 1  BY <2>2, <4>1 DEF NoLineTwice
      <4> QED BY <2>1, <4>2 DEF Totals
    <3>5. output' \in [Lines(newlines) -> {0, 1}] /\ \A p \in Lines(newlines) : output'[p] = 1
      <4>1. ResultIsComplete'  BY RunnerInvImplies, PTL
      <4> QED BY <3>1, <4>1 DEF ResultIsComplete, RunnerInv, Merging
    <3>6. output' = TimesCounted  BY <2>1, <3>4, <3>5 DEF Totals
    <3> QED BY <3>1, <3>2, <3>4, <3>6 DEF Split!Next, Split!GiveResult, TimesCounted
  <2>6. CASE UNCHANGED <<newlines, counted, main>> /\ (main = "returned" => output' = output)
    <3>1. TimesCounted' = TimesCounted  BY <2>6 DEF TimesCounted
    <3> QED BY <2>6, <3>1 DEF Split!vars, TimesCounted
  <2>7. \/ \E s \in Shards : Run(s) /\ ProcessLine(s)
        \/ GotMerge \/ Terminated
        \/ UNCHANGED <<newlines, counted, main>> /\ (main = "returned" => output' = output)
    <3>1. ASSUME NEW s \in Shards, Run(s), ~ProcessLine(s) PROVE UNCHANGED <<newlines, counted, main, output>>
      BY <3>1 DEF Run, ShardStep, EndOfRange, TakeOwn, TakeCommon, TryLock, CompareAndSet, Clean, CleanThrows,
                  Release, SetRange, MapThrows, lineVars
    <3>2. CASE Construct  BY <3>2 DEF Construct, Distribute, lineVars
    <3>3. CASE StartTask  BY <3>3 DEF StartTask, Start, queueVars, lineVars
    <3>4. ASSUME NEW s \in Shards, Merge(s) PROVE UNCHANGED <<newlines, counted, main>> /\ main # "returned"
      BY <2>2, <3>4 DEF Merge, queueVars, lineVars
    <3>5. ASSUME NEW s \in Shards, CloseBuffersOf(s) \/ CloseBuffersThrows(s)
          PROVE  UNCHANGED <<newlines, counted, main, output>>
      BY <3>5 DEF CloseBuffersOf, EndingClean, CloseBuffersThrows, lineVars
    <3>6. CASE UNCHANGED runnerVars  BY <3>6 DEF runnerVars, queueVars, lineVars
    <3> QED BY <3>1, <3>2, <3>3, <3>4, <3>5, <3>6 DEF RunnerNext, MainStep, MergeStep, CloserStep
  <2> QED BY <2>3, <2>4, <2>5, <2>6, <2>7
<1> QED BY <1>1, <1>2, RunnerInvariant, PTL DEF RunnerSpec, CountsEachLineOnce, Split!Spec

--------------------------------------------------------------------------------
(* Hashes *)

\* A power of two is a number.
LEMMA PowerType ==
  ASSUME NEW k \in Nat
  PROVE  PowerOfTwo(k) \in Nat \ {0}
<1> DEFINE After(f) == [n \in 0 .. k |-> IF n = 0 THEN 1 ELSE 2 * f[n - 1]]
           step == [p \in Nat \X (Nat \ {0}) |-> 2 * p[2]]
           shifted == CHOOSE f : f = After(f)
<1>1. PICK f \in [0 .. k -> Nat \ {0}] : Repeats(f, 1, step, k)
  <2>1. 1 \in Nat \ {0} /\ step \in [Nat \X (Nat \ {0}) -> Nat \ {0}]  OBVIOUS
  <2>2. StaysIn(Nat \ {0}, step)  BY <2>1 DEF StaysIn
  <2> HIDE DEF step
  <2> QED BY <2>1, <2>2, NumberedIteration
<1>2. f = After(f)
  <2>1. \A n \in 1 .. k : n - 1 \in 0 .. k /\ n \in Nat  OBVIOUS
  <2>2. \A n \in 1 .. k : f[n] = 2 * f[n - 1]  BY <1>1, <2>1 DEF Repeats
  <2>3. \A n \in 0 .. k : f[n] = (IF n = 0 THEN 1 ELSE 2 * f[n - 1])  BY <1>1, <2>2 DEF Repeats
  <2> QED BY <2>3
<1>3. shifted = After(shifted)  BY <1>2
<1>4. PowerOfTwo(k) = shifted[k]  BY DEF PowerOfTwo
<1> HIDE DEF shifted
<1>5. \A n \in 0 .. k : shifted[n] = IF n = 0 THEN 1 ELSE 2 * shifted[n - 1]  BY <1>3
<1> DEFINE P == {n \in Nat : n <= k => shifted[n] \in Nat \ {0}}
<1>6. 0 \in P  BY <1>5
<1>7. \A n \in Nat : n \in P => n + 1 \in P
  <2> SUFFICES ASSUME NEW n \in Nat, n \in P, n + 1 <= k PROVE shifted[n + 1] \in Nat \ {0}  OBVIOUS
  <2>1. shifted[n] \in Nat \ {0} /\ n + 1 \in 0 .. k /\ (n + 1) - 1 = n  OBVIOUS
  <2> QED BY <1>5, <2>1
<1> HIDE DEF P
<1>8. Nat \subseteq P  BY <1>6, <1>7, Induction
<1>9. k \in P  BY <1>8
<1> QED BY <1>4, <1>9 DEF P

\* There is a slot, and slots are the numbers below NSlots.
LEMMA SlotsType == NSlots \in Nat \ {0} /\ Slots = 0 .. NSlots - 1 /\ \A i \in Nat : Bit(i) \in Nat
<1>1. SlotsBits \in Nat  BY TableSizes
<1>2. NSlots \in Nat \ {0}  BY <1>1, PowerType DEF NSlots
<1> QED BY <1>1, <1>2, PowerType DEF Slots, Bit

LEMMA MinOfNumbers ==
  ASSUME NEW S, S \subseteq Nat, S # {}
  PROVE  Min(S) \in S /\ \A n \in S : Min(S) <= n
BY LeastNumber DEF Min

\* A word is a number, whatever its bytes.
LEMMA WordType ==
  ASSUME NEW bytes \in Seq(Nat)
  PROVE  Word(bytes) \in Nat
<1> DEFINE terms == [i \in 1 .. Len(bytes) |-> bytes[i] * Bit(8 * (i - 1))]
<1>1. Len(bytes) \in Nat  OBVIOUS
<1>2. terms \in [1 .. Len(bytes) -> Nat]
  <2> SUFFICES ASSUME NEW i \in 1 .. Len(bytes) PROVE bytes[i] * Bit(8 * (i - 1)) \in Nat  OBVIOUS
  <2>1. bytes[i] \in Nat /\ 8 * (i - 1) \in Nat  OBVIOUS
  <2>2. Bit(8 * (i - 1)) \in Nat  BY <2>1, SlotsType
  <2>3. \A a, b \in Nat : a * b \in Nat  OBVIOUS
  <2> QED BY <2>1, <2>2, <2>3
<1>3. IsFiniteSet(1 .. Len(bytes))  BY <1>1, FS_Interval
<1>4. SumFunction(terms) \in Nat
  <2> HIDE DEF terms
  <2> QED BY <1>2, <1>3, SumType
<1> QED BY <1>4, Zenon DEF Word

\* So is one whose bytes may be negative.
LEMMA WordSlowType ==
  ASSUME NEW bytes \in Seq(Nat)
  PROVE  WordSlow(bytes) \in Int
<1> DEFINE negative == {i \in 1 .. Len(bytes) : bytes[i] >= 128}
<1>1. CASE negative = {}
  BY <1>1, WordType DEF WordSlow
<1>2. CASE negative # {}
  <2>1. negative \subseteq Nat  OBVIOUS
  <2>2. Min(negative) \in negative  BY <1>2, <2>1, MinOfNumbers
  <2> DEFINE m == Min(negative)
  <2>3. m \in 1 .. Len(bytes) /\ m \in Nat /\ 8 * m \in Nat  BY <2>2
  <2>4. SubSeq(bytes, 1, m) \in Seq(Nat)
    <3> HIDE DEF m
    <3> QED BY <2>3
  <2>5. Word(SubSeq(bytes, 1, m)) \in Nat  BY <2>4, WordType
  <2>6. Bit(8 * m) \in Nat  BY <2>3, SlotsType
  <2>7. WordSlow(bytes) = Word(SubSeq(bytes, 1, m)) - Bit(8 * m)  BY <1>2 DEF WordSlow
  <2> HIDE DEF m
  <2> QED BY <2>5, <2>6, <2>7
<1> QED BY <1>1, <1>2

\* Whatever its words, a hash is a slot.
LEMMA HashType ==
  ASSUME NEW words \in Seq(Int)
  PROVE  Hash(words) \in Slots
<1> DEFINE k == Len(words)
           After(f) == [n \in 0 .. k |-> IF n = 0 THEN 0 ELSE (f[n - 1] * 31 + words[n]) % NSlots]
           step == [p \in Nat \X Slots |-> IF p[1] \in 1 .. k THEN (p[2] * 31 + words[p[1]]) % NSlots ELSE 0]
           hash == CHOOSE f : f = After(f)
<1>1. k \in Nat /\ \A n \in 1 .. k : words[n] \in Int  OBVIOUS
<1>2. NSlots \in Nat \ {0} /\ 0 \in Slots /\ \A i \in Slots : i \in Int  BY SlotsType
<1>3. \A i \in Slots, w \in Int : (i * 31 + w) % NSlots \in Slots
  <2> SUFFICES ASSUME NEW i \in Slots, NEW w \in Int PROVE (i * 31 + w) % NSlots \in Slots  OBVIOUS
  <2>1. i * 31 + w \in Int  BY <1>2
  <2> QED BY <1>2, <2>1, DivMod, SlotsType
<1>4. PICK f \in [0 .. k -> Slots] : Repeats(f, 0, step, k)
  <2>1. step \in [Nat \X Slots -> Slots]  BY <1>1, <1>2, <1>3
  <2>2. StaysIn(Slots, step)  BY <2>1 DEF StaysIn
  <2> HIDE DEF step, k
  <2> QED BY <1>1, <1>2, <2>2, NumberedIteration
<1>5. f = After(f)
  <2>1. ASSUME NEW n \in 1 .. k PROVE f[n] = (f[n - 1] * 31 + words[n]) % NSlots
    <3>1. n - 1 \in 0 .. k /\ n \in Nat  BY <1>1
    <3>2. f[n - 1] \in Slots  BY <1>4, <3>1
    <3>3. step[<<n, f[n - 1]>>] = (f[n - 1] * 31 + words[n]) % NSlots  BY <3>1, <3>2
    <3> HIDE DEF step, k
    <3> QED BY <1>4, <3>3 DEF Repeats
  <2>2. \A n \in 0 .. k : f[n] = (IF n = 0 THEN 0 ELSE (f[n - 1] * 31 + words[n]) % NSlots)
    BY <1>1, <1>4, <2>1 DEF Repeats
  <2> QED BY <2>2
<1>6. hash = After(hash)  BY <1>5
<1>7. Hash(words) = hash[k]  BY DEF Hash
<1> HIDE DEF hash
<1>8. \A n \in 0 .. k : hash[n] = IF n = 0 THEN 0 ELSE (hash[n - 1] * 31 + words[n]) % NSlots  BY <1>6
<1> DEFINE P == {n \in Nat : n <= k => hash[n] \in Slots}
<1>9. 0 \in P  BY <1>1, <1>2, <1>8
<1>10. \A n \in Nat : n \in P => n + 1 \in P
  <2> SUFFICES ASSUME NEW n \in Nat, n \in P, n + 1 <= k PROVE hash[n + 1] \in Slots  OBVIOUS
  <2>1. hash[n] \in Slots /\ n + 1 \in 1 .. k /\ (n + 1) - 1 = n  BY <1>1
  <2>2. hash[n + 1] = (hash[n] * 31 + words[n + 1]) % NSlots  BY <1>8, <2>1
  <2> QED BY <1>1, <1>3, <2>1, <2>2
<1> HIDE DEF P
<1>11. Nat \subseteq P  BY <1>9, <1>10, Induction
<1>12. k \in P  BY <1>1, <1>11
<1> QED BY <1>1, <1>7, <1>12 DEF P

LEMMA ElementsOfSeq ==
  ASSUME NEW S, NEW s \in Seq(S)
  PROVE  \A i \in 1 .. Len(s) : s[i] \in S
OBVIOUS

\* A sequence of what its elements are.
LEMMA SeqOfElements ==
  ASSUME NEW S, NEW s \in Seq(S), NEW T, \A i \in 1 .. Len(s) : s[i] \in T
  PROVE  s \in Seq(T)
<1>1. Len(s) \in Nat /\ s = [i \in 1 .. Len(s) |-> s[i]]  OBVIOUS
<1>2. [i \in 1 .. Len(s) |-> s[i]] \in Seq(T)  BY <1>1
<1> QED BY <1>1, <1>2

\* The words of a name are made of its bytes.
LEMMA WordsOfName ==
  ASSUME NEW B, B \subseteq Nat, NEW c \in Seq(B), NEW w \in DOMAIN WordsOf(c)
  PROVE  WordsOf(c)[w] \in Seq(B)
<1> DEFINE k == Len(c)
           end == Min({4 * w, k})
<1>1. k \in Nat /\ w \in 1 .. (k + 3) \div 4 /\ WordsOf(c)[w] = SubSeq(c, 4 * w - 3, end)
  <2>1. DOMAIN WordsOf(c) = 1 .. (k + 3) \div 4 /\ WordsOf(c)[w] = SubSeq(c, 4 * w - 3, end)
    BY Zenon DEF WordsOf
  <2>2. Len(c) \in Nat  OBVIOUS
  <2> HIDE DEF end
  <2> QED BY <2>1, <2>2
<1>2. w \in Nat /\ 1 <= 4 * w - 3  BY <1>1
<1>3. end \in {4 * w, k} /\ end <= k
  <2>1. {4 * w, k} \subseteq Nat /\ {4 * w, k} # {}  BY <1>1, <1>2
  <2> HIDE DEF k
  <2> QED BY <2>1, MinOfNumbers
<1>4. end \in Nat /\ end <= Len(c)  BY <1>1, <1>2, <1>3
<1> HIDE DEF end, k
<1>5. SubSeq(c, 4 * w - 3, end) \in Seq(B)  BY <1>2, <1>4
<1> QED BY <1>1, <1>5

\* The words of a name are sequences of bytes.
LEMMA NamesOfBytes ==
  ASSUME NEW c \in Cities, NEW w \in DOMAIN WordsOf(c)
  PROVE  WordsOf(c)[w] \in Seq(0 .. 255) /\ WordsOf(c)[w] \in Seq(Nat)
<1>1. c \in Seq(0 .. 255)  BY TableSizes
<1>2. 0 .. 255 \subseteq Nat  OBVIOUS
<1>3. WordsOf(c)[w] \in Seq(0 .. 255)  BY <1>1, <1>2, WordsOfName
<1>4. \A i \in 1 .. Len(WordsOf(c)[w]) : WordsOf(c)[w][i] \in 0 .. 255  BY <1>3, ElementsOfSeq
<1>5. \A i \in 1 .. Len(WordsOf(c)[w]) : WordsOf(c)[w][i] \in Nat
  <2>1. \A b \in 0 .. 255 : b \in Nat  OBVIOUS
  <2> QED BY <1>4, <2>1, Zenon
<1> QED BY <1>3, <1>5, SeqOfElements

\* Both computations of the hash of a name give a slot.
LEMMA HashesType == FastHash \in [Cities -> Slots] /\ SlowHash \in [Cities -> Slots]
<1> SUFFICES ASSUME NEW c \in Cities
             PROVE  /\ Hash([w \in DOMAIN WordsOf(c) |-> Word(WordsOf(c)[w])]) \in Slots
                    /\ Hash([w \in DOMAIN WordsOf(c) |-> WordSlow(WordsOf(c)[w])]) \in Slots
  BY DEF FastHash, SlowHash
<1> DEFINE n == (Len(c) + 3) \div 4
<1>1. c \in Seq(0 .. 255)  BY TableSizes
<1>2. DOMAIN WordsOf(c) = 1 .. n /\ n \in Nat
  <2>1. Len(c) \in Nat  BY <1>1
  <2> QED BY <2>1 DEF WordsOf
<1> HIDE DEF n
<1>3. \A w \in 1 .. n : Word(WordsOf(c)[w]) \in Int /\ WordSlow(WordsOf(c)[w]) \in Int
  BY <1>2, NamesOfBytes, WordType, WordSlowType
<1>4. /\ [w \in 1 .. n |-> Word(WordsOf(c)[w])] \in Seq(Int)
      /\ [w \in 1 .. n |-> WordSlow(WordsOf(c)[w])] \in Seq(Int)
  BY <1>2, <1>3
<1> QED BY <1>2, <1>4, HashType

\* The two computations agree.
HashesAgree == SlowHash = FastHash

\* They do on names in ASCII, where no byte is negative.
THEOREM AsciiNamesAgree ==
  ASSUME \A c \in Cities : \A i \in 1 .. Len(c) : c[i] < 128
  PROVE  HashesAgree
<1>1. ASSUME NEW c \in Cities, NEW w \in DOMAIN WordsOf(c)
      PROVE  WordSlow(WordsOf(c)[w]) = Word(WordsOf(c)[w])
  <2>1. c \in Seq(0 .. 255)  BY TableSizes
  <2> DEFINE Ascii == 0 .. 127
  <2>2. c \in Seq(Ascii)
    <3>1. \A i \in 1 .. Len(c) : c[i] \in 0 .. 255  BY <2>1, ElementsOfSeq
    <3>2. \A i \in 1 .. Len(c) : c[i] \in Ascii
      <4> SUFFICES ASSUME NEW i \in 1 .. Len(c) PROVE c[i] \in 0 .. 127  OBVIOUS
      <4>1. PICK b \in 0 .. 255 : b = c[i]  BY <3>1
      <4>2. b < 128  BY <4>1
      <4>3. b \in 0 .. 127  BY <4>2
      <4> QED BY <4>1, <4>3, Zenon
    <3> HIDE DEF Ascii
    <3> QED BY <2>1, <3>2, SeqOfElements
  <2>3. Ascii \subseteq Nat /\ \A b \in Ascii : ~(b >= 128)  OBVIOUS
  <2> HIDE DEF Ascii
  <2>4. WordsOf(c)[w] \in Seq(Ascii)  BY <2>2, <2>3, WordsOfName
  <2>5. PICK bytes \in Seq(Ascii) : bytes = WordsOf(c)[w]  BY <2>4
  <2>6. {i \in 1 .. Len(bytes) : bytes[i] >= 128} = {}  BY <2>3, ElementsOfSeq
  <2>7. WordSlow(bytes) = Word(bytes)  BY <2>6 DEF WordSlow
  <2> QED BY <2>5, <2>7
<1>2. ASSUME NEW c \in Cities
      PROVE  [w \in DOMAIN WordsOf(c) |-> WordSlow(WordsOf(c)[w])]
             = [w \in DOMAIN WordsOf(c) |-> Word(WordsOf(c)[w])]
  BY <1>1
<1>3. \A c \in Cities : SlowHash[c] = FastHash[c]  BY <1>2 DEF SlowHash, FastHash
<1> QED BY <1>3, HashesType DEF HashesAgree

--------------------------------------------------------------------------------
(* One table *)

Stats == [min : Temps, max : Temps, sum : Int, count : Nat]
Entries == [city : Cities, stat : Stats]
PartialTables == UNION {[used -> Entries] : used \in SUBSET Slots}

Holds(tab, c) == \E i \in DOMAIN tab : tab[i].city = c
StatIn(tab, c) == tab[CHOOSE i \in DOMAIN tab : tab[i].city = c].stat

\* A city has one slot, and from its hash to that slot none is free.
OneSlotEach(tab) == \A i, j \in DOMAIN tab : tab[i].city = tab[j].city => i = j
ReachedFirst(tab, c, i) ==
  \A n \in Slots : (\A m \in 0 .. n : Probed(FastHash[c], m) # i) => Probed(FastHash[c], n) \in DOMAIN tab
NoGaps(tab) == \A i \in DOMAIN tab : ReachedFirst(tab, tab[i].city, i)

TableOK(tab) == tab \in PartialTables /\ OneSlotEach(tab) /\ NoGaps(tab)

\* The parts of a table.
LEMMA PartsOfTable ==
  ASSUME NEW tab \in PartialTables
  PROVE  /\ DOMAIN tab \subseteq Slots
         /\ \A i \in DOMAIN tab : tab[i] \in Entries /\ tab[i].city \in Cities /\ tab[i].stat \in Stats
         /\ tab = [i \in DOMAIN tab |-> tab[i]]
<1>1. PICK used \in SUBSET Slots : tab \in [used -> Entries]  BY DEF PartialTables
<1>2. DOMAIN tab = used /\ \A i \in used : tab[i] \in Entries  BY <1>1
<1> QED BY <1>1, <1>2 DEF Entries

\* A probe is of a slot.
LEMMA ProbedType ==
  ASSUME NEW h \in Slots, NEW n \in Nat
  PROVE  Probed(h, n) \in Slots
<1>1. h + n \in Int /\ NSlots \in Nat \ {0}  BY SlotsType
<1> QED BY <1>1, DivMod, SlotsType DEF Probed

\* From anywhere, every slot is probed.
LEMMA AllProbed ==
  ASSUME NEW h \in Slots, NEW i \in Slots
  PROVE  \E n \in Slots : Probed(h, n) = i
<1>1. NSlots \in Nat \ {0} /\ h \in 0 .. NSlots - 1 /\ i \in 0 .. NSlots - 1  BY SlotsType
<1> DEFINE n == (i - h) % NSlots
<1>2. n \in Slots
  <2>1. i - h \in Int  BY <1>1
  <2> QED BY <1>1, <2>1, DivMod, SlotsType
<1>3. (((i - h) % NSlots) + h) % NSlots = ((i - h) + h) % NSlots
  <2>1. i - h \in Int /\ h \in Int  BY <1>1
  <2> QED BY <1>1, <2>1, WrappedAdvance
<1>4. (i - h) + h = i /\ i % NSlots = i
  <2>1. i \in Int /\ 0 \in Int /\ i = NSlots * 0 + i  BY <1>1
  <2> QED BY <1>1, <2>1, ModUnique
<1>5. n + h = h + n  BY <1>1, <1>2, SlotsType
<1> HIDE DEF n
<1>6. (h + n) % NSlots = i  BY <1>3, <1>4, <1>5 DEF n
<1> QED BY <1>2, <1>6 DEF Probed

\* A city's stat is that of its slot.
LEMMA StatOfSlot ==
  ASSUME NEW tab, OneSlotEach(tab), NEW i \in DOMAIN tab
  PROVE  StatIn(tab, tab[i].city) = tab[i].stat
<1> DEFINE j == CHOOSE k \in DOMAIN tab : tab[k].city = tab[i].city
<1>1. j \in DOMAIN tab /\ tab[j].city = tab[i].city  OBVIOUS
<1>2. j = i  BY <1>1 DEF OneSlotEach
<1>3. StatIn(tab, tab[i].city) = tab[j].stat  BY DEF StatIn
<1> QED BY <1>2, <1>3

LEMMA StatInType ==
  ASSUME NEW tab \in PartialTables, OneSlotEach(tab), NEW c, Holds(tab, c)
  PROVE  StatIn(tab, c) \in Stats
<1>1. PICK i \in DOMAIN tab : tab[i].city = c  BY DEF Holds
<1> QED BY <1>1, StatOfSlot, PartsOfTable

\* Putting a city's stat into its slot, or into the free slot that probing for it meets first, changes
\* the stat of that city alone.
LEMMA WithReading ==
  ASSUME NEW tab, TableOK(tab), NEW c \in Cities, NEW i \in Slots, NEW stat \in Stats,
         NEW new, new = With(tab, i, [city |-> c, stat |-> stat]),
         Holds(tab, c) => i \in DOMAIN tab /\ tab[i].city = c,
         ~Holds(tab, c) => i \notin DOMAIN tab,
         ReachedFirst(tab, c, i)
  PROVE  /\ TableOK(new) /\ Holds(new, c) /\ StatIn(new, c) = stat
         /\ \A d \in Cities \ {c} : /\ Holds(new, d) <=> Holds(tab, d)
                                    /\ Holds(tab, d) => StatIn(new, d) = StatIn(tab, d)
<1> DEFINE entry == [city |-> c, stat |-> stat]
<1>0. tab \in PartialTables /\ OneSlotEach(tab) /\ NoGaps(tab)  BY DEF TableOK
<1>1. /\ DOMAIN new = DOMAIN tab \cup {i}
      /\ new[i] = entry
      /\ \A j \in DOMAIN tab : j # i => new[j] = tab[j]
      /\ new = [j \in DOMAIN tab \cup {i} |-> IF j = i THEN entry ELSE tab[j]]
  <2> HIDE DEF entry
  <2> QED BY DEF With, entry
<1>2. DOMAIN tab \subseteq Slots /\ \A j \in DOMAIN tab : tab[j] \in Entries  BY <1>0, PartsOfTable
<1>3. entry \in Entries /\ entry.city = c /\ entry.stat = stat  BY DEF Entries
<1> HIDE DEF entry
<1>4. new \in PartialTables
  <2>1. new \in [DOMAIN tab \cup {i} -> Entries] /\ DOMAIN tab \cup {i} \in SUBSET Slots
    BY <1>1, <1>2, <1>3
  <2> QED BY <2>1 DEF PartialTables
<1>5. \A j \in DOMAIN tab : new[j].city = tab[j].city
  <2>1. \A j \in DOMAIN tab : j = i => tab[j].city = c  BY DEF Holds
  <2> QED BY <1>1, <1>3, <2>1
<1>6. \A j \in DOMAIN new : new[j].city = c => j = i
  <2> SUFFICES ASSUME NEW j \in DOMAIN tab, j # i, tab[j].city = c PROVE FALSE  BY <1>1, <1>5
  <2>1. Holds(tab, c)  BY DEF Holds
  <2> QED BY <1>0, <2>1 DEF OneSlotEach
<1>7. OneSlotEach(new)
  <2> SUFFICES ASSUME NEW j \in DOMAIN new, NEW k \in DOMAIN new, new[j].city = new[k].city PROVE j = k
    BY DEF OneSlotEach
  <2>1. CASE j = i \/ k = i  BY <1>1, <1>3, <1>6, <2>1
  <2>2. CASE j # i /\ k # i
    <3>1. j \in DOMAIN tab /\ k \in DOMAIN tab /\ tab[j].city = tab[k].city  BY <1>1, <1>5, <2>2
    <3> QED BY <1>0, <3>1 DEF OneSlotEach
  <2> QED BY <2>1, <2>2
<1>8. NoGaps(new)
  <2> SUFFICES ASSUME NEW j \in DOMAIN new PROVE ReachedFirst(new, new[j].city, j)  BY DEF NoGaps
  <2>1. CASE j = i
    <3>1. ReachedFirst(new, c, i)  BY <1>1 DEF ReachedFirst
    <3> QED BY <1>1, <1>3, <2>1, <3>1
  <2>2. CASE j # i
    <3>1. j \in DOMAIN tab /\ new[j].city = tab[j].city  BY <1>1, <1>5, <2>2
    <3>2. ReachedFirst(tab, tab[j].city, j)  BY <1>0, <3>1 DEF NoGaps
    <3>3. ReachedFirst(new, tab[j].city, j)  BY <1>1, <3>2 DEF ReachedFirst
    <3> QED BY <3>1, <3>3
  <2> QED BY <2>1, <2>2
<1>9. Holds(new, c) /\ StatIn(new, c) = stat
  <2>1. i \in DOMAIN new /\ new[i].city = c /\ new[i].stat = stat  BY <1>1, <1>3
  <2> QED BY <1>7, <2>1, StatOfSlot DEF Holds
<1>10. ASSUME NEW d \in Cities \ {c}
       PROVE  (Holds(new, d) <=> Holds(tab, d)) /\ (Holds(tab, d) => StatIn(new, d) = StatIn(tab, d))
  <2>1. ASSUME Holds(new, d) PROVE Holds(tab, d)
    <3>1. PICK j \in DOMAIN new : new[j].city = d  BY <2>1 DEF Holds
    <3>2. j # i  BY <1>1, <1>3, <3>1
    <3> QED BY <1>1, <1>5, <3>1, <3>2 DEF Holds
  <2>2. ASSUME Holds(tab, d) PROVE Holds(new, d) /\ StatIn(new, d) = StatIn(tab, d)
    <3>1. PICK j \in DOMAIN tab : tab[j].city = d  BY <2>2 DEF Holds
    <3>2. j \in DOMAIN new /\ new[j].city = d  BY <1>1, <1>5, <3>1
    <3>3. j # i  BY <1>1, <1>3, <3>2
    <3>4. new[j] = tab[j]  BY <1>1, <3>1, <3>3
    <3>5. StatIn(new, d) = new[j].stat /\ StatIn(tab, d) = tab[j].stat
      BY <1>0, <1>7, <3>1, <3>2, StatOfSlot
    <3> QED BY <3>2, <3>4, <3>5 DEF Holds
  <2> QED BY <2>1, <2>2
<1>11. TableOK(new)  BY <1>4, <1>7, <1>8 DEF TableOK
<1> QED BY <1>9, <1>10, <1>11

--------------------------------------------------------------------------------
(* A city in all tables *)

SumsIn(tabs, c) == [s \in Tables |-> IF Holds(tabs[s], c) THEN StatIn(tabs[s], c).sum ELSE 0]
CountsIn(tabs, c) == [s \in Tables |-> IF Holds(tabs[s], c) THEN StatIn(tabs[s], c).count ELSE 0]
Covers(stat, t) == stat.min <= t /\ t <= stat.max

\* The tables' stats of a city account for its readings: counts tells how many there are of each
\* temperature.
Accounts(tabs, counts, c) ==
  /\ SumFunction(SumsIn(tabs, c)) = SumFunction([t \in Temps |-> t * counts[t]])
  /\ SumFunction(CountsIn(tabs, c)) = SumFunction(counts)
  /\ \A s \in Tables : Holds(tabs[s], c) =>
       /\ counts[StatIn(tabs[s], c).min] > 0 /\ counts[StatIn(tabs[s], c).max] > 0
       /\ StatIn(tabs[s], c).min <= StatIn(tabs[s], c).max
  /\ \A t \in Temps : counts[t] > 0 => \E s \in Tables : Holds(tabs[s], c) /\ Covers(StatIn(tabs[s], c), t)

AllOK(tabs) == \A s \in Tables : TableOK(tabs[s])

LEMMA FiniteTables == IsFiniteSet(Tables)
<1>1. NTables \in Nat \ {0}  BY TableSizes
<1> QED BY <1>1, FS_Interval DEF Tables

LEMMA StatParts ==
  ASSUME NEW stat \in Stats
  PROVE  /\ stat.min \in Temps /\ stat.max \in Temps /\ stat.sum \in Int /\ stat.count \in Nat
         /\ stat.min \in Int /\ stat.max \in Int
BY TableSizes DEF Stats

\* What a reading makes of a stat, whose minimum is no greater than its maximum.
LEMMA ReadingMerged ==
  ASSUME NEW stat \in Stats, stat.min <= stat.max, NEW t \in Temps, NEW new, new = MergeReading(stat, t)
  PROVE  /\ new \in Stats /\ new.sum = stat.sum + t /\ new.count = stat.count + 1
         /\ new.min \in {stat.min, t} /\ new.max \in {stat.max, t} /\ new.min <= new.max
         /\ Covers(new, t) /\ \A u \in Temps : Covers(stat, u) => Covers(new, u)
<1>1. stat.min \in Temps /\ stat.max \in Temps /\ stat.sum \in Int /\ stat.count \in Nat  BY StatParts
<1>2. Temps \subseteq Int  BY TableSizes
<1>3. /\ new.min = (IF t > stat.min THEN stat.min ELSE t)
      /\ new.max = (IF t > stat.min /\ t > stat.max THEN t ELSE stat.max)
      /\ new.sum = stat.sum + t /\ new.count = stat.count + 1
      /\ new = [min |-> new.min, max |-> new.max, sum |-> new.sum, count |-> new.count]
  BY DEF MergeReading
<1>4. new.min \in Temps /\ new.max \in Temps /\ new.sum \in Int /\ new.count \in Nat
  BY <1>1, <1>2, <1>3
<1>5. new \in Stats  BY <1>3, <1>4 DEF Stats
<1>6. new.min \in {stat.min, t} /\ new.max \in {stat.max, t} /\ new.min <= new.max
      /\ new.min <= t /\ t <= new.max /\ new.min <= stat.min /\ stat.max <= new.max
  BY <1>1, <1>2, <1>3
<1>7. \A u \in Temps : Covers(stat, u) => Covers(new, u)
  <2> SUFFICES ASSUME NEW u \in Temps, stat.min <= u, u <= stat.max PROVE new.min <= u /\ u <= new.max
    BY DEF Covers
  <2>1. /\ u \in Int /\ new.min \in Int /\ new.max \in Int /\ stat.min \in Int /\ stat.max \in Int
    BY <1>1, <1>2, <1>4
  <2> QED BY <1>6, <2>1
<1> QED BY <1>3, <1>5, <1>6, <1>7 DEF Covers

LEMMA ReadingFirst ==
  ASSUME NEW t \in Temps, NEW new, new = FirstReading(t)
  PROVE  /\ new \in Stats /\ new.sum = t /\ new.count = 1
         /\ new.min = t /\ new.max = t /\ Covers(new, t)
BY TableSizes DEF FirstReading, Stats, Covers

LEMMA SumsType ==
  ASSUME NEW tabs, AllOK(tabs), NEW c
  PROVE  SumsIn(tabs, c) \in [Tables -> Int] /\ CountsIn(tabs, c) \in [Tables -> Nat]
<1> SUFFICES ASSUME NEW s \in Tables, Holds(tabs[s], c)
             PROVE  StatIn(tabs[s], c).sum \in Int /\ StatIn(tabs[s], c).count \in Nat
  BY DEF SumsIn, CountsIn
<1>1. tabs[s] \in PartialTables /\ OneSlotEach(tabs[s])  BY DEF AllOK, TableOK
<1> QED BY <1>1, StatInType, StatParts

\* Sums over the readings of a city, of which there is one more.
LEMMA OneMoreCounted ==
  ASSUME NEW counts \in [Temps -> Nat], NEW more \in [Temps -> Nat], NEW t \in Temps,
         more[t] = counts[t] + 1, \A u \in Temps \ {t} : more[u] = counts[u]
  PROVE  SumFunction(more) = SumFunction(counts) + 1
<1>1. counts \in [Temps -> Int] /\ more \in [Temps -> Int]  OBVIOUS
<1>2. IsFiniteSet(Temps) /\ 1 \in Int  BY TableSizes
<1> QED BY <1>1, <1>2, SumChange

LEMMA OneMoreWeighed ==
  ASSUME NEW counts \in [Temps -> Nat], NEW more \in [Temps -> Nat], NEW t \in Temps,
         more[t] = counts[t] + 1, \A u \in Temps \ {t} : more[u] = counts[u]
  PROVE  SumFunction([u \in Temps |-> u * more[u]]) = SumFunction([u \in Temps |-> u * counts[u]]) + t
<1> DEFINE weighed == [u \in Temps |-> u * counts[u]]
           moreWeighed == [u \in Temps |-> u * more[u]]
<1>1. \A u \in Temps : more[u] \in Int /\ counts[u] \in Int  OBVIOUS
<1>2. IsFiniteSet(Temps) /\ t \in Int /\ \A u \in Temps : u \in Int  BY TableSizes
<1>3. \A a, b \in Int : a * b \in Int /\ a * (b + 1) = a * b + a  OBVIOUS
<1>4. weighed \in [Temps -> Int] /\ moreWeighed \in [Temps -> Int]  BY <1>1, <1>2, <1>3
<1>5. t * more[t] = t * counts[t] + t  BY <1>1, <1>2, <1>3
<1>6. moreWeighed[t] = weighed[t] + t /\ \A u \in Temps \ {t} : moreWeighed[u] = weighed[u]
  BY <1>5
<1> HIDE DEF weighed, moreWeighed
<1>7. SumFunction(moreWeighed) = SumFunction(weighed) + t
  <2>1. PICK k \in Int : k = t  BY <1>2
  <2>2. moreWeighed[t] = weighed[t] + k  BY <1>6, <2>1
  <2>3. IsFiniteSet(Temps) /\ \A u \in Temps \ {t} : moreWeighed[u] = weighed[u]  BY <1>2, <1>6
  <2>4. SumFunction(moreWeighed) = SumFunction(weighed) + k  BY <1>4, <2>2, <2>3, SumChange
  <2> QED BY <2>1, <2>4
<1> QED BY <1>7 DEF weighed, moreWeighed

\* Another reading of c, in the table of s.
LEMMA AnotherReading ==
  ASSUME NEW tabs, AllOK(tabs), NEW more, AllOK(more), NEW c \in Cities, NEW s \in Tables, NEW t \in Temps,
         NEW counts \in [Temps -> Nat], NEW moreCounts \in [Temps -> Nat],
         moreCounts[t] = counts[t] + 1, \A u \in Temps \ {t} : moreCounts[u] = counts[u],
         \A r \in Tables \ {s} : more[r] = tabs[r],
         Holds(more[s], c),
         StatIn(more[s], c) = IF Holds(tabs[s], c) THEN MergeReading(StatIn(tabs[s], c), t) ELSE FirstReading(t),
         Accounts(tabs, counts, c)
  PROVE  Accounts(more, moreCounts, c)
<1> DEFINE old == StatIn(tabs[s], c)
           new == StatIn(more[s], c)
<1>0. t \in Int /\ Temps \subseteq Int /\ IsFiniteSet(Temps)  BY TableSizes
<1>1. /\ moreCounts[t] = counts[t] + 1
      /\ \A u \in Temps \ {t} : moreCounts[u] = counts[u]
      /\ \A u \in Temps : counts[u] > 0 => moreCounts[u] > 0
      /\ moreCounts[t] > 0
  OBVIOUS
<1>2. Holds(tabs[s], c) => old \in Stats /\ counts[old.min] > 0 /\ counts[old.max] > 0 /\ old.min <= old.max
  <2>1. tabs[s] \in PartialTables /\ OneSlotEach(tabs[s])  BY DEF AllOK, TableOK
  <2> QED BY <2>1, StatInType DEF Accounts
<1>3. /\ new \in Stats
      /\ new.sum = (IF Holds(tabs[s], c) THEN old.sum ELSE 0) + t
      /\ new.count = (IF Holds(tabs[s], c) THEN old.count ELSE 0) + 1
      /\ new.min = t \/ (Holds(tabs[s], c) /\ new.min = old.min)
      /\ new.max = t \/ (Holds(tabs[s], c) /\ new.max = old.max)
      /\ new.min <= new.max
      /\ Covers(new, t)
      /\ \A u \in Temps : Holds(tabs[s], c) /\ Covers(old, u) => Covers(new, u)
  <2>1. CASE Holds(tabs[s], c)
    <3>1. new = MergeReading(old, t)  BY <2>1
    <3> HIDE DEF old, new
    <3>2. old \in Stats /\ old.min <= old.max  BY <1>2, <2>1
    <3>3. /\ new \in Stats /\ new.sum = old.sum + t /\ new.count = old.count + 1
          /\ new.min \in {old.min, t} /\ new.max \in {old.max, t} /\ new.min <= new.max
          /\ Covers(new, t) /\ \A u \in Temps : Covers(old, u) => Covers(new, u)
      BY <3>1, <3>2, ReadingMerged
    <3> QED BY <2>1, <3>3
  <2>2. CASE ~Holds(tabs[s], c)
    <3>1. new = FirstReading(t)  BY <2>2
    <3> HIDE DEF old, new
    <3> QED BY <1>0, <2>2, <3>1, ReadingFirst
  <2> QED BY <2>1, <2>2
<1>4. SumFunction(SumsIn(more, c)) = SumFunction([u \in Temps |-> u * moreCounts[u]])
  <2> DEFINE weighed == [u \in Temps |-> u * counts[u]]
             moreWeighed == [u \in Temps |-> u * moreCounts[u]]
  <2>1. SumFunction(moreWeighed) = SumFunction(weighed) + t  BY <1>1, OneMoreWeighed
  <2>2. SumFunction(SumsIn(more, c)) = SumFunction(SumsIn(tabs, c)) + t
    <3> DEFINE a == SumsIn(tabs, c)
               b == SumsIn(more, c)
    <3>1. a \in [Tables -> Int] /\ b \in [Tables -> Int]  BY SumsType
    <3>2. b[s] = a[s] + t  BY <1>3 DEF SumsIn
    <3>3. \A r \in Tables \ {s} : b[r] = a[r]  BY DEF SumsIn
    <3> HIDE DEF a, b
    <3>4. SumFunction(b) = SumFunction(a) + t  BY <1>0, <3>1, <3>2, <3>3, FiniteTables, SumChange
    <3> QED BY <3>4 DEF a, b
  <2> QED BY <2>1, <2>2 DEF Accounts
<1>5. SumFunction(CountsIn(more, c)) = SumFunction(moreCounts)
  <2>1. SumFunction(moreCounts) = SumFunction(counts) + 1  BY <1>1, OneMoreCounted
  <2>2. SumFunction(CountsIn(more, c)) = SumFunction(CountsIn(tabs, c)) + 1
    <3> DEFINE a == CountsIn(tabs, c)
               b == CountsIn(more, c)
    <3>1. a \in [Tables -> Nat] /\ b \in [Tables -> Nat]  BY SumsType
    <3>2. b[s] = a[s] + 1  BY <1>3 DEF CountsIn
    <3>3. \A r \in Tables \ {s} : b[r] = a[r]  BY DEF CountsIn
    <3> HIDE DEF a, b
    <3>5. a \in [Tables -> Int] /\ b \in [Tables -> Int] /\ 1 \in Int  BY <3>1
    <3>4. SumFunction(b) = SumFunction(a) + 1  BY <3>5, <3>2, <3>3, FiniteTables, SumChange
    <3> QED BY <3>4 DEF a, b
  <2> QED BY <2>1, <2>2 DEF Accounts
<1>6. ASSUME NEW r \in Tables, Holds(more[r], c)
      PROVE  /\ moreCounts[StatIn(more[r], c).min] > 0 /\ moreCounts[StatIn(more[r], c).max] > 0
             /\ StatIn(more[r], c).min <= StatIn(more[r], c).max
  <2>1. CASE r = s
    <3> HIDE DEF old
    <3>1. new.min \in Temps /\ new.max \in Temps  BY <1>3, StatParts
    <3>2. Holds(tabs[s], c) => old.min \in Temps /\ old.max \in Temps  BY <1>2, StatParts
    <3>3. moreCounts[new.min] > 0 /\ moreCounts[new.max] > 0 /\ new.min <= new.max
      <4> HIDE DEF new
      <4> QED BY <1>1, <1>2, <1>3, <3>2
    <3> QED BY <2>1, <3>3
  <2>2. CASE r # s
    <3>1. more[r] = tabs[r]  BY <2>2
    <3>2. tabs[r] \in PartialTables /\ OneSlotEach(tabs[r])  BY DEF AllOK, TableOK
    <3>3. StatIn(tabs[r], c) \in Stats  BY <1>6, <3>1, <3>2, StatInType
    <3>4. StatIn(tabs[r], c).min \in Temps /\ StatIn(tabs[r], c).max \in Temps  BY <3>3, StatParts
    <3> QED BY <1>1, <1>6, <3>1, <3>4 DEF Accounts
  <2> QED BY <2>1, <2>2
<1>7. ASSUME NEW u \in Temps, moreCounts[u] > 0
      PROVE  \E r \in Tables : Holds(more[r], c) /\ Covers(StatIn(more[r], c), u)
  <2>1. CASE u = t  BY <1>3, <2>1
  <2>2. CASE u # t
    <3>1. counts[u] > 0  BY <1>1, <1>7, <2>2
    <3>2. PICK r \in Tables : Holds(tabs[r], c) /\ Covers(StatIn(tabs[r], c), u)  BY <3>1 DEF Accounts
    <3>3. CASE r = s  BY <1>3, <3>2, <3>3
    <3>4. CASE r # s
      <4>1. more[r] = tabs[r]  BY <3>4
      <4> QED BY <3>2, <4>1
    <3> QED BY <3>3, <3>4
  <2> QED BY <2>1, <2>2
<1> HIDE DEF old, new
<1> QED BY <1>4, <1>5, <1>6, <1>7 DEF Accounts

\* Readings of other cities change nothing.
LEMMA OtherReadings ==
  ASSUME NEW tabs, NEW more, NEW c, NEW counts,
         \A s \in Tables : /\ Holds(more[s], c) <=> Holds(tabs[s], c)
                           /\ Holds(tabs[s], c) => StatIn(more[s], c) = StatIn(tabs[s], c),
         Accounts(tabs, counts, c)
  PROVE  Accounts(more, counts, c)
<1>1. SumsIn(more, c) = SumsIn(tabs, c) /\ CountsIn(more, c) = CountsIn(tabs, c)  BY DEF SumsIn, CountsIn
<1> QED BY <1>1 DEF Accounts

--------------------------------------------------------------------------------
(* Merging the stats of a city *)

LEMMA StatMergeParts ==
  ASSUME NEW a \in Stats, NEW b \in Stats, NEW m, m = StatMerge(a, b)
  PROVE  /\ m \in Stats /\ m.sum = a.sum + b.sum /\ m.count = a.count + b.count
         /\ m.min \in {a.min, b.min} /\ m.min <= a.min /\ m.min <= b.min
         /\ m.max \in {a.max, b.max} /\ a.max <= m.max /\ b.max <= m.max
<1>1. /\ a.min \in Temps /\ b.min \in Temps /\ a.max \in Temps /\ b.max \in Temps
      /\ a.min \in Int /\ b.min \in Int /\ a.max \in Int /\ b.max \in Int
      /\ a.sum \in Int /\ b.sum \in Int /\ a.count \in Nat /\ b.count \in Nat
  BY StatParts
<1>2. m = [min |-> m.min, max |-> m.max, sum |-> m.sum, count |-> m.count]
      /\ m.min = Min({a.min, b.min}) /\ m.max = Max({a.max, b.max})
      /\ m.sum = a.sum + b.sum /\ m.count = a.count + b.count
  BY DEF StatMerge
<1>3. m.min \in {a.min, b.min} /\ m.min <= a.min /\ m.min <= b.min
  <2>1. \E x \in {a.min, b.min} : \A y \in {a.min, b.min} : x <= y  BY <1>1
  <2>2. m.min \in {a.min, b.min} /\ \A y \in {a.min, b.min} : m.min <= y  BY <1>2, <2>1 DEF Min
  <2> QED BY <2>2
<1>4. m.max \in {a.max, b.max} /\ a.max <= m.max /\ b.max <= m.max
  <2>1. \E x \in {a.max, b.max} : \A y \in {a.max, b.max} : x >= y  BY <1>1
  <2>2. m.max \in {a.max, b.max} /\ \A y \in {a.max, b.max} : m.max >= y  BY <1>2, <2>1 DEF Max
  <2>3. m.max \in Int  BY <1>1, <2>2
  <2> QED BY <1>1, <2>2, <2>3
<1>5. m.min \in Temps /\ m.max \in Temps /\ m.sum \in Int /\ m.count \in Nat  BY <1>1, <1>2, <1>3, <1>4
<1>6. m \in Stats  BY <1>2, <1>5 DEF Stats
<1> QED BY <1>2, <1>3, <1>4, <1>6

\* The running merges of the stats in of, over subsets of D.
IsMerges(merges, base, of, D) ==
  merges = [s \in SUBSET D |-> IF s = {} THEN base
              ELSE StatMerge(of[CHOOSE x \in s : TRUE], merges[s \ {CHOOSE x \in s : TRUE}])]

\* They exist,
LEMMA MergesExist ==
  ASSUME NEW E, NEW of \in [E -> Stats], NEW D \in SUBSET E, IsFiniteSet(D), NEW base \in Stats
  PROVE  \E merges : IsMerges(merges, base, of, D)
<1> DEFINE step == [p \in D \X Stats |-> StatMerge(of[p[1]], p[2])]
           one == [s \in SUBSET D |-> CHOOSE x \in s : TRUE]
<1>1. step \in [D \X Stats -> Stats]
  <2> SUFFICES ASSUME NEW x \in D, NEW stat \in Stats PROVE StatMerge(of[x], stat) \in Stats  OBVIOUS
  <2>1. of[x] \in Stats  OBVIOUS
  <2> QED BY <2>1, StatMergeParts
<1>2. PicksFrom(one, D)  BY DEF PicksFrom
<1>3. PICK merges \in [SUBSET D -> Stats] : IsFolds(merges, D, base, step, one)
  <2> HIDE DEF step, one
  <2> QED BY <1>1, <1>2, FoldsExist
<1>4. \A s \in SUBSET D : merges[s] = IF s = {} THEN base ELSE StatMerge(of[one[s]], merges[s \ {one[s]}])
  <2>1. \A s \in SUBSET D : s # {} => one[s] \in D /\ s \ {one[s]} \in SUBSET D  BY <1>2 DEF PicksFrom
  <2> HIDE DEF one
  <2> QED BY <1>3, <2>1 DEF IsFolds
<1>5. merges = [s \in SUBSET D |-> IF s = {} THEN base
                  ELSE StatMerge(of[CHOOSE x \in s : TRUE], merges[s \ {CHOOSE x \in s : TRUE}])]
  BY <1>4
<1> QED BY <1>5, Zenon DEF IsMerges

\* and the fold is the last of them.
LEMMA FoldIsMerge ==
  ASSUME NEW E, NEW of \in [E -> Stats], NEW D \in SUBSET E, IsFiniteSet(D), NEW base \in Stats
  PROVE  \E merges : IsMerges(merges, base, of, D) /\ FoldFunctionOnSet(StatMerge, base, of, D) = merges[D]
<1> DEFINE iter == CHOOSE merges : IsMerges(merges, base, of, D)
<1>1. IsMerges(iter, base, of, D)  BY MergesExist
<1>2. FoldFunctionOnSet(StatMerge, base, of, D) = iter[D]
  BY Zenon DEF FoldFunctionOnSet, MapThenFoldSet, IsMerges
<1> QED BY <1>1, <1>2

\* The sum over those in s, of All.
SumOver(All, val, s) == SumFunction([y \in All |-> IF y \in s THEN val[y] ELSE 0])

LEMMA SumOverMore ==
  ASSUME NEW All, IsFiniteSet(All), NEW val, NEW s \in SUBSET All, \A y \in s : val[y] \in Int,
         NEW x \in All \ s, val[x] \in Int
  PROVE  SumOver(All, val, s) \in Int /\ SumOver(All, val, s \cup {x}) = SumOver(All, val, s) + val[x]
<1> DEFINE f == [y \in All |-> IF y \in s THEN val[y] ELSE 0]
           g == [y \in All |-> IF y \in s \cup {x} THEN val[y] ELSE 0]
<1>1. f \in [All -> Int] /\ g \in [All -> Int]  OBVIOUS
<1>2. f[x] = 0 /\ g[x] = val[x] /\ \A y \in All \ {x} : g[y] = f[y]  OBVIOUS
<1>3. PICK k \in Int : k = val[x]  OBVIOUS
<1>4. g[x] = f[x] + k  BY <1>2, <1>3
<1>5. \A y \in All \ {x} : g[y] = f[y]  BY <1>2
<1> HIDE DEF f, g
<1>6. SumFunction(f) \in Int /\ SumFunction(g) = SumFunction(f) + k  BY <1>1, <1>4, <1>5, SumChange
<1> QED BY <1>3, <1>6 DEF f, g, SumOver

LEMMA SumOverNone ==
  ASSUME NEW All, IsFiniteSet(All), NEW val
  PROVE  SumOver(All, val, {}) = 0
<1>1. [y \in All |-> IF y \in {} THEN val[y] ELSE 0] = [y \in All |-> 0]  OBVIOUS
<1> QED BY <1>1, SumZero, Zenon DEF SumOver

LEMMA SumOverOne ==
  ASSUME NEW All, IsFiniteSet(All), NEW val, NEW x \in All, val[x] \in Int
  PROVE  SumOver(All, val, {x}) = val[x]
<1>1. SumOver(All, val, {}) = 0  BY SumOverNone
<1> DEFINE none == {}
<1>2. none \in SUBSET All /\ x \in All \ none /\ none \cup {x} = {x} /\ \A y \in none : val[y] \in Int  OBVIOUS
<1> HIDE DEF none
<1>3. SumOver(All, val, none \cup {x}) = SumOver(All, val, none) + val[x]  BY <1>2, SumOverMore
<1> QED BY <1>1, <1>2, <1>3 DEF none

\* A merge has the least minimum, the greatest maximum, and the sums of what it merges.
Summarises(m, of, s, All) ==
  /\ m \in Stats
  /\ \E x \in s : m.min = of[x].min
  /\ \E x \in s : m.max = of[x].max
  /\ \A x \in s : m.min <= of[x].min /\ of[x].max <= m.max
  /\ m.sum = SumOver(All, [x \in All |-> of[x].sum], s)
  /\ m.count = SumOver(All, [x \in All |-> of[x].count], s)

\* A stat is a summary of itself.
LEMMA SummaryOfOne ==
  ASSUME NEW All, IsFiniteSet(All), NEW E \in SUBSET All, NEW of \in [E -> Stats], NEW x \in E
  PROVE  Summarises(of[x], of, {x}, All)
<1>1. of[x] \in Stats /\ of[x].sum \in Int /\ of[x].count \in Int /\ of[x].min \in Int /\ of[x].max \in Int
  BY StatParts
<1> DEFINE sums == [y \in All |-> of[y].sum]
           counts == [y \in All |-> of[y].count]
<1>2. sums[x] = of[x].sum /\ counts[x] = of[x].count /\ x \in All  OBVIOUS
<1> HIDE DEF sums, counts
<1>3. SumOver(All, sums, {x}) = of[x].sum /\ SumOver(All, counts, {x}) = of[x].count
  <2>1. x \in All /\ sums[x] \in Int /\ counts[x] \in Int  BY <1>1, <1>2
  <2>2. SumOver(All, sums, {x}) = sums[x]  BY <2>1, SumOverOne
  <2>3. SumOver(All, counts, {x}) = counts[x]  BY <2>1, SumOverOne
  <2> QED BY <1>2, <2>2, <2>3
<1> QED BY <1>1, <1>3 DEF Summarises, sums, counts

\* Merging one more stat into a summary makes it a summary of that one too.
LEMMA SummaryGrows ==
  ASSUME NEW All, IsFiniteSet(All), NEW E \in SUBSET All, NEW of \in [E -> Stats],
         NEW s \in SUBSET E, NEW x \in E \ s, NEW acc, Summarises(acc, of, s, All)
  PROVE  Summarises(StatMerge(of[x], acc), of, s \cup {x}, All)
<1> DEFINE m == StatMerge(of[x], acc)
<1>1. of[x] \in Stats /\ acc \in Stats  BY DEF Summarises
<1>2. /\ m \in Stats /\ m.sum = of[x].sum + acc.sum /\ m.count = of[x].count + acc.count
      /\ m.min \in {of[x].min, acc.min} /\ m.min <= of[x].min /\ m.min <= acc.min
      /\ m.max \in {of[x].max, acc.max} /\ of[x].max <= m.max /\ acc.max <= m.max
  BY <1>1, StatMergeParts
<1>3. /\ m.min \in Int /\ m.max \in Int /\ acc.min \in Int /\ acc.max \in Int
      /\ of[x].sum \in Int /\ of[x].count \in Int /\ acc.sum \in Int /\ acc.count \in Int
      /\ \A y \in s : of[y].min \in Int /\ of[y].max \in Int /\ of[y].sum \in Int /\ of[y].count \in Int
  BY <1>1, <1>2, StatParts
<1> HIDE DEF m
<1>4. /\ \E y \in s \cup {x} : m.min = of[y].min
      /\ \E y \in s \cup {x} : m.max = of[y].max
  BY <1>2 DEF Summarises
<1>5. \A y \in s \cup {x} : m.min <= of[y].min /\ of[y].max <= m.max
  <2> SUFFICES ASSUME NEW y \in s PROVE m.min <= of[y].min /\ of[y].max <= m.max  BY <1>2
  <2>1. acc.min <= of[y].min /\ of[y].max <= acc.max  BY DEF Summarises
  <2> QED BY <1>2, <1>3, <2>1
<1> DEFINE sums == [y \in All |-> of[y].sum]
           counts == [y \in All |-> of[y].count]
<1>6. /\ s \in SUBSET All /\ x \in All \ s
      /\ \A y \in s : sums[y] \in Int /\ counts[y] \in Int
      /\ sums[x] = of[x].sum /\ counts[x] = of[x].count
      /\ sums[x] \in Int /\ counts[x] \in Int
  BY <1>3
<1>7. acc.sum = SumOver(All, sums, s) /\ acc.count = SumOver(All, counts, s)  BY DEF Summarises
<1> HIDE DEF sums, counts
<1>8. SumOver(All, sums, s \cup {x}) = acc.sum + of[x].sum  BY <1>6, <1>7, SumOverMore
<1>9. SumOver(All, counts, s \cup {x}) = acc.count + of[x].count  BY <1>6, <1>7, SumOverMore
<1>10. m.sum = SumOver(All, sums, s \cup {x}) /\ m.count = SumOver(All, counts, s \cup {x})
  BY <1>2, <1>3, <1>8, <1>9
<1>11. Summarises(m, of, s \cup {x}, All)  BY <1>2, <1>4, <1>5, <1>10 DEF Summarises, sums, counts
<1> QED BY <1>11 DEF m

\* So does that of all of them, in whatever order.
LEMMA MergeSummarises ==
  ASSUME NEW All, IsFiniteSet(All), NEW E \in SUBSET All, NEW of \in [E -> Stats], NEW first \in E
  PROVE  Summarises(FoldFunctionOnSet(StatMerge, of[first], of, E \ {first}), of, E, All)
<1> DEFINE D == E \ {first}
<1>1. D \in SUBSET E /\ IsFiniteSet(D) /\ of[first] \in Stats /\ D \cup {first} = E
  <2>1. D \in SUBSET All /\ D \in SUBSET E /\ D \cup {first} = E  OBVIOUS
  <2> HIDE DEF D
  <2> QED BY <2>1, FS_Subset
<1> HIDE DEF D
<1>2. PICK merges : /\ IsMerges(merges, of[first], of, D)
                    /\ FoldFunctionOnSet(StatMerge, of[first], of, D) = merges[D]
  BY <1>1, FoldIsMerge
<1> DEFINE one(s) == CHOOSE x \in s : TRUE
           P == {s \in SUBSET D : Summarises(merges[s], of, s \cup {first}, All)}
<1>3. \A s \in SUBSET D :
        merges[s] = IF s = {} THEN of[first] ELSE StatMerge(of[one(s)], merges[s \ {one(s)}])
  BY <1>2 DEF IsMerges
<1>4. \A s \in SUBSET D : s # {} => one(s) \in s  OBVIOUS
<1> HIDE DEF one
<1>5. {} \in P
  <2>1. merges[{}] = of[first] /\ {} \cup {first} = {first} /\ {} \in SUBSET D  BY <1>3
  <2>2. Summarises(of[first], of, {first}, All)  BY SummaryOfOne
  <2> QED BY <2>1, <2>2
<1>6. \A s \in SUBSET D : s # {} /\ (\A x \in s : s \ {x} \in P) => s \in P
  <2> SUFFICES ASSUME NEW s \in SUBSET D, s # {}, \A x \in s : s \ {x} \in P
               PROVE  Summarises(merges[s], of, s \cup {first}, All)
    OBVIOUS
  <2>1. PICK x \in s : x = one(s)  BY <1>4
  <2> DEFINE r == (s \ {x}) \cup {first}
  <2>2. Summarises(merges[s \ {x}], of, r, All)  OBVIOUS
  <2>3. r \in SUBSET E /\ x \in E \ r /\ r \cup {x} = s \cup {first}
    <3>1. D \subseteq E /\ first \notin D /\ first \in E  BY <1>1 DEF D
    <3> QED BY <3>1
  <2>4. merges[s] = StatMerge(of[x], merges[s \ {x}])  BY <1>3, <2>1
  <2> HIDE DEF r, P
  <2>5. Summarises(StatMerge(of[x], merges[s \ {x}]), of, r \cup {x}, All)  BY <2>2, <2>3, SummaryGrows
  <2> QED BY <2>3, <2>4, <2>5
<1>7. SUBSET D \subseteq P
  <2> HIDE DEF P
  <2> QED BY <1>1, <1>5, <1>6, SubsetInduction
<1>8. Summarises(merges[D], of, D \cup {first}, All)  BY <1>7
<1> HIDE DEF P
<1> QED BY <1>1, <1>2, <1>8 DEF D

--------------------------------------------------------------------------------
(* The invariant *)

\* Every table is one that probing made, and all of them account for what has been read.
StatsInv ==
  /\ table = [s \in Tables |-> table[s]] /\ AllOK(table)
  /\ read \in [Cities -> [Temps -> Nat]]
  /\ \A c \in Cities : Accounts(table, read[c], c)

\* linearProbe ends in the slot of the city, or takes the first free one.
LEMMA ProbeLands ==
  ASSUME StatsInv, NEW s \in Tables, NEW c \in Cities, NEW t \in Temps,
         LinearProbe(s, FastHash[c], c, t)
  PROVE  \E i \in Slots, stat \in Stats :
           /\ table' = [table EXCEPT ![s] = With(table[s], i, [city |-> c, stat |-> stat])]
           /\ Holds(table[s], c) => i \in DOMAIN table[s] /\ table[s][i].city = c
           /\ ~Holds(table[s], c) => i \notin DOMAIN table[s]
           /\ ReachedFirst(table[s], c, i)
           /\ stat = IF Holds(table[s], c) THEN MergeReading(StatIn(table[s], c), t) ELSE FirstReading(t)
<1> DEFINE h == FastHash[c]
           tab == table[s]
           n == Min(Probes(s, h, c))
           i == Probed(h, n)
           stat == IF Free(s, i) THEN FirstReading(t) ELSE MergeReading(table[s][i].stat, t)
<1>0. h \in Slots  BY HashesType
<1>1. TableOK(tab) /\ tab \in PartialTables /\ OneSlotEach(tab) /\ NoGaps(tab)
  BY DEF StatsInv, AllOK, TableOK
<1>2. Probes(s, h, c) # {} /\ table' = [table EXCEPT ![s] = With(table[s], i, [city |-> c, stat |-> stat])]
  <2> HIDE DEF stat
  <2> QED BY DEF LinearProbe, stat
<1>3. n \in Probes(s, h, c) /\ \A m \in Probes(s, h, c) : n <= m
  <2>1. Probes(s, h, c) \subseteq Nat  BY SlotsType DEF Probes
  <2> QED BY <1>2, <2>1, MinOfNumbers
<1>4. n \in Slots /\ n \in Nat /\ StopsAt(s, i, c)  BY <1>3, SlotsType DEF Probes
<1> HIDE DEF n
<1>5. i \in Slots  BY <1>0, <1>4, ProbedType
<1>6. i \notin DOMAIN tab \/ (i \in DOMAIN tab /\ tab[i].city = c)  BY <1>4 DEF StopsAt, Free
\* Before the n-th slot are only other cities.
<1>7. ASSUME NEW m \in Slots, m < n
      PROVE  Probed(h, m) \in DOMAIN tab /\ tab[Probed(h, m)].city # c
  <2>1. m \notin Probes(s, h, c)  BY <1>3, <1>4, <1>7, SlotsType
  <2> QED BY <2>1 DEF Probes, StopsAt, Free
<1>8. ReachedFirst(tab, c, i)
  <2> SUFFICES ASSUME NEW m \in Slots, \A k \in 0 .. m : Probed(h, k) # i PROVE Probed(h, m) \in DOMAIN tab
    BY DEF ReachedFirst
  <2>1. m \in Nat /\ ~(n <= m)
    <3>1. m \in Nat  BY SlotsType
    <3>2. ASSUME n <= m PROVE FALSE
      <4>1. n \in 0 .. m  BY <1>4, <3>1, <3>2
      <4> QED BY <4>1
    <3> QED BY <3>1, <3>2
  <2> QED BY <1>4, <1>7, <2>1
<1>9. ASSUME Holds(tab, c) PROVE i \in DOMAIN tab /\ tab[i].city = c
  <2>1. PICK j \in DOMAIN tab : tab[j].city = c  BY <1>9 DEF Holds
  <2> SUFFICES ASSUME i \notin DOMAIN tab PROVE FALSE  BY <1>6
  <2>2. ReachedFirst(tab, c, j)  BY <1>1, <2>1 DEF NoGaps
  <2>3. PICK m \in 0 .. n : Probed(h, m) = j  BY <1>4, <2>2 DEF ReachedFirst
  <2>4. m \in Slots /\ m \in Nat  BY <1>4, SlotsType
  <2>5. CASE m < n  BY <1>7, <2>1, <2>3, <2>4, <2>5
  <2>6. CASE m = n  BY <2>1, <2>3, <2>6
  <2> QED BY <1>4, <2>3, <2>4, <2>5, <2>6
<1>10. ASSUME ~Holds(tab, c) PROVE i \notin DOMAIN tab  BY <1>6, <1>10 DEF Holds
<1>11. stat = IF Holds(tab, c) THEN MergeReading(StatIn(tab, c), t) ELSE FirstReading(t)
  <2>1. CASE Holds(tab, c)
    <3>1. i \in DOMAIN tab /\ tab[i].city = c  BY <1>9, <2>1
    <3>2. StatIn(tab, c) = tab[i].stat  BY <1>1, <3>1, StatOfSlot
    <3> HIDE DEF i
    <3> QED BY <2>1, <3>1, <3>2 DEF Free
  <2>2. CASE ~Holds(tab, c)
    <3>1. i \notin DOMAIN tab  BY <1>10, <2>2
    <3> HIDE DEF i
    <3> QED BY <2>2, <3>1 DEF Free
  <2> QED BY <2>1, <2>2
<1> HIDE DEF stat, i
<1>12. stat \in Stats
  <2>1. CASE Holds(tab, c)
    <3>1. StatIn(tab, c) \in Stats  BY <1>1, <2>1, StatInType
    <3>2. StatIn(tab, c).min <= StatIn(tab, c).max  BY <2>1 DEF StatsInv, Accounts
    <3> QED BY <1>11, <2>1, <3>1, <3>2, ReadingMerged
  <2>2. CASE ~Holds(tab, c)  BY <1>11, <2>2, ReadingFirst
  <2> QED BY <2>1, <2>2
<1> QED BY <1>2, <1>5, <1>8, <1>9, <1>10, <1>11, <1>12

\* Empty tables account for an input of no lines.
LEMMA StatsInitHolds == StatsInit => StatsInv
<1> SUFFICES ASSUME StatsInit PROVE StatsInv  OBVIOUS
<1>1. table = [s \in Tables |-> <<>>] /\ read = [c \in Cities |-> [t \in Temps |-> 0]]  BY DEF StatsInit
<1>2. \A s \in Tables : table[s] = <<>> /\ DOMAIN table[s] = {}  BY <1>1
<1>3. ASSUME NEW s \in Tables PROVE TableOK(table[s])
  <2> DEFINE tab == table[s]
  <2>1. DOMAIN tab = {} /\ tab = [i \in {} |-> tab[i]]  BY <1>2
  <2> HIDE DEF tab
  <2>2. {} \in SUBSET Slots /\ tab \in [{} -> Entries]  BY <2>1
  <2>3. tab \in PartialTables  BY <2>2 DEF PartialTables
  <2>4. OneSlotEach(tab) /\ NoGaps(tab)  BY <2>1 DEF OneSlotEach, NoGaps
  <2>5. TableOK(tab)  BY <2>3, <2>4 DEF TableOK
  <2> QED BY <2>5 DEF tab
<1>4. ASSUME NEW c \in Cities PROVE Accounts(table, read[c], c)
  <2>1. \A s \in Tables : ~Holds(table[s], c)  BY <1>2 DEF Holds
  <2>2. read[c] = [t \in Temps |-> 0]  BY <1>1
  <2>3. \A t \in Temps : read[c][t] = 0  BY <2>2
  <2>4. IsFiniteSet(Temps) /\ \A t \in Temps : t \in Int /\ t * 0 = 0  BY TableSizes
  <2>5. [t \in Temps |-> t * read[c][t]] = [t \in Temps |-> 0]  BY <2>3, <2>4
  <2>6. SumsIn(table, c) = [s \in Tables |-> 0] /\ CountsIn(table, c) = [s \in Tables |-> 0]
    BY <2>1 DEF SumsIn, CountsIn
  <2>7. SumFunction([t \in Temps |-> t * read[c][t]]) = 0 /\ SumFunction(read[c]) = 0
    BY <2>2, <2>4, <2>5, SumZero, Zenon
  <2>8. SumFunction(SumsIn(table, c)) = 0 /\ SumFunction(CountsIn(table, c)) = 0
    BY <2>6, FiniteTables, SumZero, Zenon
  <2> QED BY <2>1, <2>3, <2>7, <2>8 DEF Accounts
<1>5. read \in [Cities -> [Temps -> Nat]]  BY <1>1
<1>6. table = [s \in Tables |-> table[s]]  BY <1>1
<1> QED BY <1>3, <1>4, <1>5, <1>6 DEF StatsInv, AllOK

\* One line, taken by any shard.
LEMMA LineHolds ==
  ASSUME StatsInv, NEW s \in Tables, NEW c \in Cities, NEW t \in Temps,
         Input(c, t), LinearProbe(s, FastHash[c], c, t)
  PROVE  StatsInv'
<1>1. PICK i \in Slots, stat \in Stats :
           /\ table' = [table EXCEPT ![s] = With(table[s], i, [city |-> c, stat |-> stat])]
           /\ Holds(table[s], c) => i \in DOMAIN table[s] /\ table[s][i].city = c
           /\ ~Holds(table[s], c) => i \notin DOMAIN table[s]
           /\ ReachedFirst(table[s], c, i)
           /\ stat = IF Holds(table[s], c) THEN MergeReading(StatIn(table[s], c), t) ELSE FirstReading(t)
  BY ProbeLands
<1>2. /\ table = [r \in Tables |-> table[r]] /\ AllOK(table)
      /\ read \in [Cities -> [Temps -> Nat]]
      /\ \A d \in Cities : Accounts(table, read[d], d)
  BY DEF StatsInv
<1> DEFINE new == table'[s]
<1>3. /\ table' = [r \in Tables |-> table'[r]]
      /\ new = With(table[s], i, [city |-> c, stat |-> stat])
      /\ \A r \in Tables \ {s} : table'[r] = table[r]
  BY <1>1, <1>2
<1>4. /\ TableOK(new) /\ Holds(new, c) /\ StatIn(new, c) = stat
      /\ \A d \in Cities \ {c} : /\ Holds(new, d) <=> Holds(table[s], d)
                                 /\ Holds(table[s], d) => StatIn(new, d) = StatIn(table[s], d)
  <2>1. TableOK(table[s])  BY <1>2 DEF AllOK
  <2> HIDE DEF new
  <2> QED BY <1>1, <1>3, <2>1, WithReading
<1> HIDE DEF new
<1>5. AllOK(table')  BY <1>2, <1>3, <1>4 DEF AllOK, new
<1>6. /\ read' \in [Cities -> [Temps -> Nat]]
      /\ read'[c][t] = read[c][t] + 1 /\ \A u \in Temps \ {t} : read'[c][u] = read[c][u]
      /\ \A d \in Cities \ {c} : read'[d] = read[d]
  <2>1. read' = [read EXCEPT ![c][t] = @ + 1]  BY DEF Input
  <2> QED BY <1>2, <2>1
<1>7. ASSUME NEW d \in Cities PROVE Accounts(table', read'[d], d)
  <2>1. CASE d = c
    <3>1. PICK counts, more : counts = read[c] /\ more = read'[c]  OBVIOUS
    <3>2. /\ counts \in [Temps -> Nat] /\ more \in [Temps -> Nat]
          /\ more[t] = counts[t] + 1 /\ \A u \in Temps \ {t} : more[u] = counts[u]
          /\ Accounts(table, counts, c)
      BY <1>2, <1>6, <3>1
    <3>3. PICK tabs : tabs = table'  OBVIOUS
    <3>4. /\ AllOK(table) /\ AllOK(tabs) /\ \A r \in Tables \ {s} : tabs[r] = table[r]
          /\ Holds(tabs[s], c)
          /\ StatIn(tabs[s], c) = IF Holds(table[s], c) THEN MergeReading(StatIn(table[s], c), t)
                                  ELSE FirstReading(t)
      BY <1>1, <1>2, <1>3, <1>4, <1>5, <3>3 DEF new
    <3>5. Accounts(tabs, more, c)  BY <3>2, <3>4, AnotherReading
    <3> QED BY <2>1, <3>1, <3>3, <3>5
  <2>2. CASE d # c
    <3>1. \A r \in Tables : /\ Holds(table'[r], d) <=> Holds(table[r], d)
                            /\ Holds(table[r], d) => StatIn(table'[r], d) = StatIn(table[r], d)
      BY <1>3, <1>4, <2>2 DEF new
    <3>2. read'[d] = read[d] /\ Accounts(table, read[d], d)  BY <1>2, <1>6, <2>2
    <3>3. Accounts(table', read[d], d)  BY <3>1, <3>2, OtherReadings
    <3> QED BY <3>2, <3>3
  <2> QED BY <2>1, <2>2
<1> QED BY <1>3, <1>5, <1>6, <1>7 DEF StatsInv

\* Every line keeps the tables in order.
LEMMA StatsInvStep ==
  ASSUME HashesAgree, StatsInv, [StatsNext]_statsVars PROVE StatsInv'
<1>1. ASSUME NEW c \in Cities, NEW t \in Temps, ProcessLineSlow(c, t) PROVE StatsInv'
  <2>1. 0 \in Tables  BY TableSizes DEF Tables
  <2>2. Input(c, t) /\ LinearProbe(0, FastHash[c], c, t)  BY <1>1 DEF ProcessLineSlow, HashesAgree
  <2> QED BY <2>1, <2>2, LineHolds
<1>2. ASSUME NEW c \in Cities, NEW t \in Temps, NEW s \in Tables, ProcessLineFast(s, c, t) PROVE StatsInv'
  BY <1>2, LineHolds DEF ProcessLineFast
<1>3. CASE UNCHANGED statsVars
  <2>1. table' = table /\ read' = read  BY <1>3 DEF statsVars
  <2> QED BY <2>1, Zenon DEF StatsInv
<1> QED BY <1>1, <1>2, <1>3 DEF StatsNext

\* Every shard's table is in order, and together they account for the input, at any time.
THEOREM TablesInvariant == ASSUME HashesAgree PROVE StatsSpec => []StatsInv
BY StatsInitHolds, StatsInvStep, PTL DEF StatsSpec

--------------------------------------------------------------------------------
(* Results *)

\* A shard's result has every city of its table, with the stat of its slot.
LEMMA ResultOfTable ==
  ASSUME StatsInv, NEW s \in Tables
  PROVE  /\ \A c : c \in DOMAIN Result(s) <=> Holds(table[s], c)
         /\ \A c \in DOMAIN Result(s) : Result(s)[c] = StatIn(table[s], c)
<1>1. TableOK(table[s]) /\ table[s] \in PartialTables /\ OneSlotEach(table[s])
  BY DEF StatsInv, AllOK, TableOK
<1>2. \A c : c \in DOMAIN Result(s) <=> Holds(table[s], c)  BY DEF Result, Holds
<1>3. ASSUME NEW c \in DOMAIN Result(s) PROVE Result(s)[c] = StatIn(table[s], c)
  <2>1. PICK i \in DOMAIN table[s] : table[s][i].city = c  BY <1>2, <1>3 DEF Holds
  <2>2. SlotsOf(s, c) = {i}  BY <1>1, <2>1 DEF SlotsOf, OneSlotEach
  <2>3. i \in Int  BY <1>1, <2>1, PartsOfTable, SlotsType
  <2>4. Max({i}) = i  BY <2>3 DEF Max
  <2>5. Result(s)[c] = table[s][Max(SlotsOf(s, c))].stat  BY <1>3 DEF Result
  <2>6. StatIn(table[s], c) = table[s][i].stat  BY <1>1, <2>1, StatOfSlot
  <2> QED BY <2>2, <2>4, <2>5, <2>6
<1> QED BY <1>2, <1>3

LEMMA MinIs ==
  ASSUME NEW S, S \subseteq Int, NEW m \in S, \A x \in S : m <= x
  PROVE  Min(S) = m
<1>1. Min(S) \in S /\ \A x \in S : Min(S) <= x  BY DEF Min
<1>2. Min(S) <= m /\ m <= Min(S) /\ m \in Int /\ Min(S) \in Int  BY <1>1
<1> QED BY <1>2

LEMMA MaxIs ==
  ASSUME NEW S, S \subseteq Int, NEW m \in S, \A x \in S : x <= m
  PROVE  Max(S) = m
<1>0. \A x \in S : m >= x  OBVIOUS
<1>1. Max(S) \in S /\ \A x \in S : Max(S) >= x  BY <1>0 DEF Max
<1>2. Max(S) >= m /\ m >= Max(S) /\ m \in Int /\ Max(S) \in Int  BY <1>0, <1>1
<1> QED BY <1>2

\* What a merge of all the stats of a city gives is what is expected of its readings.
LEMMA SummaryIsExpected ==
  ASSUME StatsInv, NEW c \in Cities, NEW of, NEW E,
         E = {s \in Tables : Holds(table[s], c)}, of = [s \in E |-> StatIn(table[s], c)],
         NEW m, Summarises(m, of, E, Tables)
  PROVE  m = ExpectedStat(read, c)
<1>1. /\ \A s \in E : s \in Tables /\ Holds(table[s], c) /\ of[s] = StatIn(table[s], c) /\ of[s] \in Stats
      /\ Accounts(table, read[c], c)
  <2>1. \A s \in Tables : table[s] \in PartialTables /\ OneSlotEach(table[s])
    BY DEF StatsInv, AllOK, TableOK
  <2> QED BY <2>1, StatInType DEF StatsInv
<1>2. /\ m \in Stats /\ \A s \in E : m.min <= of[s].min /\ of[s].max <= m.max
      /\ m.sum = SumOver(Tables, [s \in Tables |-> of[s].sum], E)
      /\ m.count = SumOver(Tables, [s \in Tables |-> of[s].count], E)
  BY DEF Summarises
<1>3. Seen(read, c) \subseteq Temps /\ Temps \subseteq Int /\ \A t : t \in Seen(read, c) <=> t \in Temps /\ read[c][t] > 0
  BY TableSizes DEF Seen
<1>4. m.min \in Seen(read, c) /\ m.max \in Seen(read, c)
  <2>1. PICK a \in E, b \in E : m.min = of[a].min /\ m.max = of[b].max  BY DEF Summarises
  <2>2. read[c][of[a].min] > 0 /\ read[c][of[b].max] > 0  BY <1>1 DEF Accounts
  <2>3. of[a].min \in Temps /\ of[b].max \in Temps  BY <1>1, StatParts
  <2> QED BY <1>3, <2>1, <2>2, <2>3
<1>5. \A t \in Seen(read, c) : m.min <= t /\ t <= m.max
  <2> SUFFICES ASSUME NEW t \in Seen(read, c) PROVE m.min <= t /\ t <= m.max  OBVIOUS
  <2>1. PICK s \in Tables : Holds(table[s], c) /\ Covers(StatIn(table[s], c), t)  BY <1>1, <1>3 DEF Accounts
  <2>2. s \in E /\ of[s].min <= t /\ t <= of[s].max  BY <1>1, <2>1 DEF Covers
  <2>3. m.min <= of[s].min /\ of[s].max <= m.max  BY <1>2, <2>2
  <2>4. t \in Int /\ m.min \in Int /\ m.max \in Int /\ of[s].min \in Int /\ of[s].max \in Int
    BY <1>1, <1>2, <1>3, <2>2, StatParts
  <2> QED BY <2>2, <2>3, <2>4
<1>6. m.min = Min(Seen(read, c)) /\ m.max = Max(Seen(read, c))
  <2>1. Seen(read, c) \subseteq Int  BY <1>3
  <2> QED BY <1>4, <1>5, <2>1, MinIs, MaxIs
<1>7. m.sum = SumFunction([t \in Temps |-> t * read[c][t]])
  <2>1. [s \in Tables |-> IF s \in E THEN [r \in Tables |-> of[r].sum][s] ELSE 0] = SumsIn(table, c)
    BY <1>1 DEF SumsIn
  <2>2. m.sum = SumFunction(SumsIn(table, c))  BY <1>2, <2>1 DEF SumOver
  <2> QED BY <1>1, <2>2 DEF Accounts
<1>8. m.count = SumFunction(read[c])
  <2>1. [s \in Tables |-> IF s \in E THEN [r \in Tables |-> of[r].count][s] ELSE 0] = CountsIn(table, c)
    BY <1>1 DEF CountsIn
  <2>2. m.count = SumFunction(CountsIn(table, c))  BY <1>2, <2>1 DEF SumOver
  <2> QED BY <1>1, <2>2 DEF Accounts
<1>9. m = [min |-> m.min, max |-> m.max, sum |-> m.sum, count |-> m.count]  BY <1>2 DEF Stats
<1> QED BY <1>6, <1>7, <1>8, <1>9, Zenon DEF ExpectedStat

\* A city is in the tables when it has been read.
LEMMA FoundIfSeen ==
  ASSUME StatsInv, NEW c \in Cities
  PROVE  Seen(read, c) # {} <=> \E s \in Tables : Holds(table[s], c)
<1>1. Accounts(table, read[c], c)  BY DEF StatsInv
<1>2. ASSUME NEW s \in Tables, Holds(table[s], c) PROVE Seen(read, c) # {}
  <2>1. table[s] \in PartialTables /\ OneSlotEach(table[s])  BY DEF StatsInv, AllOK, TableOK
  <2>2. StatIn(table[s], c).min \in Temps  BY <1>2, <2>1, StatInType, StatParts
  <2>3. read[c][StatIn(table[s], c).min] > 0  BY <1>1, <1>2 DEF Accounts
  <2> QED BY <2>2, <2>3 DEF Seen
<1>3. ASSUME NEW t \in Seen(read, c) PROVE \E s \in Tables : Holds(table[s], c)
  BY <1>1, <1>3 DEF Accounts, Seen
<1> QED BY <1>2, <1>3

\* Every city read is in the result of some table, and the merge of its stats is what is expected.
LEMMA MergedIsExpected == StatsInv => ResultIsExpected
<1> SUFFICES ASSUME StatsInv PROVE ResultIsExpected  OBVIOUS
<1> DEFINE found == UNION {DOMAIN Result(s) : s \in Tables}
           of(c) == [s \in {s \in Tables : c \in DOMAIN Result(s)} |-> Result(s)[c]]
           first(c) == CHOOSE s \in DOMAIN of(c) : TRUE
           mergeOf(c) == FoldFunctionOnSet(StatMerge, of(c)[first(c)], of(c), DOMAIN of(c) \ {first(c)})
<1>1. Merged = [c \in found |-> mergeOf(c)]  BY Zenon DEF Merged
<1>2. found = {d \in Cities : Seen(read, d) # {}}
  <2>1. \A c \in found : c \in Cities /\ \E s \in Tables : Holds(table[s], c)
    <3> SUFFICES ASSUME NEW s \in Tables, NEW c \in DOMAIN Result(s)
                 PROVE  c \in Cities /\ \E r \in Tables : Holds(table[r], c)
      OBVIOUS
    <3>1. Holds(table[s], c)  BY ResultOfTable
    <3>2. table[s] \in PartialTables  BY DEF StatsInv, AllOK, TableOK
    <3> QED BY <3>1, <3>2, PartsOfTable DEF Holds
  <2>3. \A c \in Cities, s \in Tables : Holds(table[s], c) => c \in found
    <3> SUFFICES ASSUME NEW c \in Cities, NEW s \in Tables, Holds(table[s], c) PROVE c \in found  OBVIOUS
    <3>1. c \in DOMAIN Result(s)  BY ResultOfTable
    <3> QED BY <3>1
  <2> HIDE DEF found
  <2> QED BY <2>1, <2>3, FoundIfSeen
<1> HIDE DEF found
<1>3. ASSUME NEW c \in found PROVE mergeOf(c) = ExpectedStat(read, c)
  <2> DEFINE E == {s \in Tables : Holds(table[s], c)}
             stats == [s \in E |-> StatIn(table[s], c)]
  <2>1. c \in Cities /\ E # {}  BY <1>2, <1>3, FoundIfSeen
  <2>2. of(c) = stats
    <3>1. {s \in Tables : c \in DOMAIN Result(s)} = E  BY ResultOfTable
    <3>2. \A s \in E : Result(s)[c] = StatIn(table[s], c)  BY ResultOfTable
    <3> QED BY <3>1, <3>2
  <2>3. stats \in [E -> Stats]
    <3>1. \A s \in Tables : table[s] \in PartialTables /\ OneSlotEach(table[s])
      BY DEF StatsInv, AllOK, TableOK
    <3> QED BY <3>1, StatInType
  <2>4. DOMAIN of(c) = E  BY <2>2
  <2>5. first(c) \in E  BY <2>1, <2>4
  <2>6. E \in SUBSET Tables  OBVIOUS
  <2>7. PICK x \in E : x = first(c)  BY <2>5
  <2>8. PICK m : m = FoldFunctionOnSet(StatMerge, stats[x], stats, E \ {x})  OBVIOUS
  <2>9. Summarises(m, stats, E, Tables)
    <3> HIDE DEF stats, E
    <3> QED BY <2>3, <2>6, <2>8, FiniteTables, MergeSummarises
  <2>10. m = ExpectedStat(read, c)
    <3>1. PICK e, st : e = E /\ st = stats  OBVIOUS
    <3>2. e = {s \in Tables : Holds(table[s], c)} /\ st = [s \in e |-> StatIn(table[s], c)]  BY <3>1
    <3> HIDE DEF stats, E
    <3> QED BY <2>1, <2>9, <3>1, <3>2, SummaryIsExpected
  <2> HIDE DEF of, first, stats, E
  <2> QED BY <2>2, <2>4, <2>7, <2>8, <2>10
<1> HIDE DEF mergeOf
<1>4. Merged = [c \in found |-> ExpectedStat(read, c)]  BY <1>1, <1>3
<1> QED BY <1>2, <1>4, Zenon DEF ResultIsExpected, Expected

\* A table with more slots than cities other than c has a slot that is free or has c, and probing
\* from anywhere comes to it.
LEMMA ProbingStops ==
  ASSUME StatsInv, Cardinality(Cities) <= NSlots, NEW s \in Tables, NEW c \in Cities, NEW h \in Slots
  PROVE  Probes(s, h, c) # {}
<1> SUFFICES ASSUME Probes(s, h, c) = {} PROVE FALSE  OBVIOUS
<1> DEFINE tab == table[s]
           others == Cities \ {c}
           cityAt == [i \in Slots |-> tab[i].city]
<1>1. tab \in PartialTables /\ OneSlotEach(tab)  BY DEF StatsInv, AllOK, TableOK
<1>2. \A i \in Slots : i \in DOMAIN tab /\ tab[i].city # c
  <2> SUFFICES ASSUME NEW i \in Slots PROVE i \in DOMAIN tab /\ tab[i].city # c  OBVIOUS
  <2>1. PICK n \in Slots : Probed(h, n) = i  BY AllProbed
  <2> QED BY <2>1 DEF Probes, StopsAt, Free
<1>3. \A i \in Slots : tab[i].city \in Cities  BY <1>1, <1>2, PartsOfTable
<1> HIDE DEF tab
<1>4. cityAt \in [Slots -> others]  BY <1>2, <1>3
<1>5. \A i, j \in Slots : cityAt[i] = cityAt[j] => i = j  BY <1>1, <1>2 DEF OneSlotEach
<1>6. IsFiniteSet(Cities)  BY TableSizes
<1>7. /\ IsFiniteSet(others) /\ Cardinality(others) = Cardinality(Cities) - 1
      /\ Cardinality(Cities) \in Nat
  BY <1>6, FS_RemoveElement, FS_CardinalityType
<1>8. IsFiniteSet(Slots) /\ Cardinality(Slots) = NSlots
  <2>1. 0 \in Int /\ NSlots - 1 \in Int /\ NSlots \in Nat \ {0}  BY SlotsType
  <2>2. /\ IsFiniteSet(0 .. NSlots - 1)
        /\ Cardinality(0 .. NSlots - 1) = (IF 0 > NSlots - 1 THEN 0 ELSE (NSlots - 1) - 0 + 1)
    BY <2>1, FS_Interval
  <2> QED BY <2>1, <2>2 DEF Slots
<1>9. Cardinality(others) < Cardinality(Slots)
  <2>1. NSlots \in Nat  BY SlotsType
  <2> HIDE DEF others
  <2> QED BY <1>7, <1>8, <2>1
<1> HIDE DEF cityAt, others
<1>10. \E i, j \in Slots : i # j /\ cityAt[i] = cityAt[j]  BY <1>4, <1>7, <1>8, <1>9, FS_PigeonHole
<1> QED BY <1>5, <1>10

\* The merged result is what is expected of the input read so far, whichever shards and slots its
\* lines went to: for any number of shards and slots, and any names of which the two computations of
\* the hash make the same slot (ResultIsExpected).
THEOREM ResultExpected == ASSUME HashesAgree PROVE StatsSpec => []ResultIsExpected
<1>1. StatsSpec => []StatsInv  BY TablesInvariant
<1>2. StatsInv => ResultIsExpected  BY MergedIsExpected
<1> QED BY <1>1, <1>2, PTL

\* linearProbe ends for any next line, where there are no more names than slots (ProbeEnds).
THEOREM ProbingEnds ==
  ASSUME HashesAgree, Cardinality(Cities) <= NSlots PROVE StatsSpec => []ProbeEnds
<1>1. StatsSpec => []StatsInv  BY TablesInvariant
<1>2. StatsInv => ProbeEnds  BY ProbingStops, HashesType DEF ProbeEnds
<1> QED BY <1>1, <1>2, PTL

--------------------------------------------------------------------------------
(* The program as a whole *)

\* The lines that say that c had t, among those that some shard has counted.
LinesRead(c, t) == {p \in Lines(newlines) : text[p] = << c, t >> /\ \E s \in Shards : counted[s][p] = 1}
AllRead == {p \in Lines(newlines) : \E s \in Shards : counted[s][p] = 1}

\* The lines of the reserved tail that shard 0 has not read yet.
TailLeft == {p \in TailLinesOf(newlines) : pc[0] = "queued" \/ (pc[0] = "tail" /\ cursor[0] <= p)}

\* A shard reads at line starts, and what has been read is what the counted lines say.
ReadingInv ==
  /\ text \in Texts(newlines)
  /\ \A s \in Shards : pc[s] \in Reading /\ cursor[s] < stop[s] => cursor[s] \in Lines(newlines)
  /\ \A s \in Shards : pc[s] = "tail" => s = 0 /\ stop[s] = FileSize(newlines) /\ eff <= cursor[s]
  /\ tail = Cardinality(TailLeft)
  /\ \A c \in Cities, t \in Temps : read[c][t] = Cardinality(LinesRead(c, t))
  /\ NumRead = Cardinality(AllRead)

\* The merged shards that have a stat of c, and all that have one.
MergedHolders(c) == {s \in merged : pc[s] = "done" /\ Holds(table[s], c)}
Holders(c) == {s \in Tables : Holds(table[s], c)}
StatsOf(c) == [s \in Holders(c) |-> StatIn(table[s], c)]

\* The result so far summarises, city by city, the tables of the shards that have been merged.
ResultInv ==
  /\ tempStats = [c \in {d \in Cities : MergedHolders(d) # {}} |-> tempStats[c]]
  /\ \A c \in Cities : MergedHolders(c) # {} => Summarises(tempStats[c], StatsOf(c), MergedHolders(c), Tables)

OneBrcInv == RunnerInv /\ StatsInv /\ ReadingInv /\ ResultInv

\* There is a table for each shard, and with it StatsInv speaks of shards.
LEMMA ShardTables == Tables = Shards
BY OneTableEach DEF Tables, Shards

\* A newline that is not the last is followed by a line.
LEMMA LineAfter ==
  ASSUME NEW file \in Files, NEW n \in file, n + 1 < FileSize(file)
  PROVE  n + 1 \in Lines(file)
BY LastByte DEF Lines

\* The lines of the tail are those that shard 0 is to read first.
LEMMA TailIs ==
  ASSUME NEW file \in Files, NEW p \in Lines(file)
  PROVE  p \in TailLinesOf(file) <=> InTail(file, p)
<1>1. p \in Nat /\ (p = 0 \/ Key(p) = p - 1) /\ EffectiveFileSize(file) \in Nat  BY LineStarts, TailStart
<1>2. EffectiveFileSize(file) # 1  BY TailStart, LastByte
<1>3. p = 0 => Key(p) = 0  BY DEF Key
<1> QED BY <1>1, <1>2, <1>3 DEF TailLinesOf, InTail

\* A file has finitely many lines.
LEMMA LinesFinite ==
  ASSUME NEW file \in Files
  PROVE  IsFiniteSet(Lines(file))
<1>1. /\ LastNewLine(file) \in Nat /\ \A n \in file : n \in Nat /\ n <= LastNewLine(file)
  BY LastByte
<1>2. Lines(file) \subseteq 0 .. LastNewLine(file) + 1  BY <1>1 DEF Lines
<1>3. IsFiniteSet(0 .. LastNewLine(file) + 1)  BY <1>1, FS_Interval
<1> QED BY <1>2, <1>3, FS_Subset

-----------------------------------------------------------------------------
(* The two parts of the program take their own steps *)

\* A step of the program is one of the Runner,
LEMMA RunnerSteps == ASSUME [OneBrcNext]_oneBrcVars PROVE [RunnerNext]_runnerVars
<1>1. CASE UNCHANGED oneBrcVars  BY <1>1 DEF oneBrcVars
<1>2. CASE OtherStep  BY <1>2 DEF OtherStep, RunnerNext
<1>3. ASSUME NEW s \in Shards, ReadLine(s) PROVE RunnerNext  BY <1>3 DEF ReadLine, RunnerNext
<1>4. ASSUME NEW s \in Shards, MergeResult(s) PROVE RunnerNext
  BY <1>4 DEF MergeResult, RunnerNext, MergeStep
<1> QED BY <1>1, <1>2, <1>3, <1>4 DEF OneBrcNext

\* and one of the tables: what a shard reads is a line, of a city and with a temperature.
LEMMA TextIs ==
  ASSUME NEW file \in Files, NEW tx \in Texts(file), NEW p \in Lines(file)
  PROVE  tx[p] = << tx[p][1], tx[p][2] >> /\ tx[p][1] \in Cities /\ tx[p][2] \in Temps
<1>1. tx \in [Lines(file) -> Cities \X Temps]  BY TextsOfFiles
<1> QED BY <1>1

\* Only a reading step concerns the tables.
LEMMA TableSteps ==
  ASSUME RunnerInv, ReadingInv, [OneBrcNext]_oneBrcVars
  PROVE  [StatsNext]_statsVars
<1>1. CASE UNCHANGED oneBrcVars  BY <1>1 DEF oneBrcVars
<1>2. CASE OtherStep  BY <1>2 DEF OtherStep
<1>3. ASSUME NEW s \in Shards, ReadLine(s) PROVE StatsNext
  <2>1. cursor[s] \in Lines(newlines) /\ newlines \in Files /\ text \in Texts(newlines)
    BY <1>3 DEF ReadLine, ProcessLine, Reading, ReadingInv, RunnerInv, QueueInv, LinesInv, Types
  <2> DEFINE c == text[cursor[s]][1]
             t == text[cursor[s]][2]
  <2>2. c \in Cities /\ t \in Temps  BY <2>1, TextIs
  <2>3. ProcessLineSlow(c, t) \/ ProcessLineFast(s, c, t)  BY <1>3 DEF ReadLine
  <2> HIDE DEF c, t
  <2> QED BY <2>2, <2>3, ShardTables DEF StatsNext
<1>4. ASSUME NEW s \in Shards, MergeResult(s) PROVE UNCHANGED statsVars  BY <1>4 DEF MergeResult
<1> QED BY <1>1, <1>2, <1>3, <1>4 DEF OneBrcNext

-----------------------------------------------------------------------------
(* Reading *)

\* A finite part of the file.
LEMMA TailLeftFinite == ASSUME newlines \in Files PROVE IsFiniteSet(TailLeft)
<1>1. TailLeft \subseteq Lines(newlines)  BY DEF TailLeft, TailLinesOf
<1> QED BY <1>1, LinesFinite, FS_Subset

\* A step that neither begins, ends nor reads a range.
LEMMA QuietReading ==
  ASSUME ReadingInv, UNCHANGED << newlines, cursor, stop, counted, text, tail, read >>,
         \A s \in Shards : pc'[s] = pc[s] \/ (pc[s] \notin Reading \cup {"queued"} /\ pc'[s] \notin Reading \cup {"queued"})
  PROVE  ReadingInv'
<1>1. 0 \in Shards  BY ShardNumbers
<1>2. TailLeft' = TailLeft  BY <1>1 DEF TailLeft, Reading
<1>3. /\ \A c \in Cities, t \in Temps : LinesRead(c, t)' = LinesRead(c, t)
      /\ AllRead' = AllRead /\ NumRead' = NumRead
  BY DEF LinesRead, AllRead, NumRead
<1>4. \A s \in Shards : pc'[s] \in Reading => pc'[s] = pc[s]  OBVIOUS
<1> QED BY <1>2, <1>3, <1>4 DEF ReadingInv, Reading, eff

\* What is left of a range at its end is nothing.
LEMMA EndOfRangeReading ==
  ASSUME LinesInv, ReadingInv, NEW s \in Shards, EndOfRange(s), UNCHANGED << text, tail, read >>
  PROVE  ReadingInv'
<1>1. /\ pc[s] \in Reading /\ cursor[s] >= stop[s] /\ pc' = [pc EXCEPT ![s] = "take"]
      /\ UNCHANGED << newlines, cursor, stop, counted >>
  BY DEF EndOfRange, Goto, lineVars, Reading
<1>2. /\ newlines \in Files /\ pc \in [Shards -> Labels] /\ 0 \in Shards
      /\ cursor \in [Shards -> Nat] /\ stop \in [Shards -> Nat]
  BY ShardNumbers DEF LinesInv, Types
<1>3. pc'[s] = "take" /\ \A u \in Shards \ {s} : pc'[u] = pc[u]  BY <1>1, <1>2
<1>4. TailLeft' = TailLeft
  <2>1. CASE s # 0 \/ pc[s] # "tail"
    <3>1. pc[s] # "queued" /\ pc'[s] \notin {"queued", "tail"}  BY <1>1, <1>3 DEF Reading
    <3> QED BY <1>1, <1>2, <1>3, <2>1, <3>1 DEF TailLeft
  <2>2. CASE s = 0 /\ pc[s] = "tail"
    <3>1. FileSize(newlines) <= cursor[0]  BY <1>1, <2>2 DEF ReadingInv
    <3>2. \A p \in TailLinesOf(newlines) : p \in Nat /\ p < FileSize(newlines) /\ FileSize(newlines) \in Nat
      BY <1>2, LineStarts, LastByte DEF TailLinesOf
    <3>3. \A p \in TailLinesOf(newlines) : ~(cursor[0] <= p)  BY <1>2, <3>1, <3>2
    <3> QED BY <1>1, <1>3, <2>2, <3>3 DEF TailLeft
  <2> QED BY <2>1, <2>2
<1>5. /\ \A c \in Cities, t \in Temps : LinesRead(c, t)' = LinesRead(c, t)
      /\ AllRead' = AllRead /\ NumRead' = NumRead
  BY <1>1 DEF LinesRead, AllRead, NumRead
<1>6. \A u \in Shards : pc'[u] \in Reading => pc'[u] = pc[u]  BY <1>3 DEF Reading
<1> QED BY <1>1, <1>4, <1>5, <1>6 DEF ReadingInv, Reading, eff

\* The first range of shard 0 is the tail.
LEMMA StartReading ==
  ASSUME LinesInv, ReadingInv, NEW s \in Shards, Start(s), UNCHANGED << text, tail, read >>
  PROVE  ReadingInv'
<1>1. /\ newlines \in Files /\ pc \in [Shards -> Labels] /\ 0 \in Shards
      /\ cursor \in [Shards -> Nat] /\ stop \in [Shards -> Nat]
  BY ShardNumbers DEF LinesInv, Types
<1>2. pc[s] = "queued" /\ TailOfFile(s) /\ UNCHANGED << newlines, counted >>  BY DEF Start
<1>3. /\ \A c \in Cities, t \in Temps : LinesRead(c, t)' = LinesRead(c, t)
      /\ AllRead' = AllRead /\ NumRead' = NumRead
  BY <1>2 DEF LinesRead, AllRead, NumRead
<1>4. eff \in Nat /\ FileSize(newlines) \in Nat /\ eff' = eff  BY <1>1, <1>2, TailStart, LastByte DEF eff
<1>5. CASE s = 0 /\ eff < FileSize(newlines)
  <2> DEFINE from == IF eff = 0 THEN 0 ELSE NextNewLine(newlines, eff - 1) + 1
  <2>1. /\ cursor' = [cursor EXCEPT ![s] = from] /\ stop' = [stop EXCEPT ![s] = FileSize(newlines)]
        /\ pc' = [pc EXCEPT ![s] = "tail"]
    BY <1>2, <1>5 DEF TailOfFile, Goto
  <2>2. /\ pc'[s] = "tail" /\ cursor'[s] = from /\ stop'[s] = FileSize(newlines)
        /\ \A u \in Shards \ {s} : pc'[u] = pc[u] /\ cursor'[u] = cursor[u] /\ stop'[u] = stop[u]
    BY <1>1, <2>1
  <2>3. eff <= from /\ (from < FileSize(newlines) => from \in Lines(newlines))
    <3>1. CASE eff = 0  BY <3>1 DEF Lines
    <3>2. CASE eff # 0
      <4>1. eff - 1 \in Nat /\ eff - 1 < FileSize(newlines)  BY <1>4, <1>5, <3>2
      <4>2. /\ NextNewLine(newlines, eff - 1) \in newlines /\ NextNewLine(newlines, eff - 1) \in Nat
            /\ eff - 1 <= NextNewLine(newlines, eff - 1)
        BY <1>1, <4>1, NextOne
      <4>3. from = NextNewLine(newlines, eff - 1) + 1  BY <3>2
      <4> QED BY <1>1, <1>4, <4>2, <4>3, LineAfter
    <3> QED BY <3>1, <3>2
  <2>4. TailLeft' = TailLeft
    <3>1. \A p \in TailLinesOf(newlines) : from <= p
      BY <1>1, <1>5, TailIs, TailLines DEF TailLinesOf, eff
    <3> QED BY <1>2, <1>5, <2>2, <3>1 DEF TailLeft
  <2> HIDE DEF from
  <2>5. \A u \in Shards : pc'[u] \in Reading /\ cursor'[u] < stop'[u] => cursor'[u] \in Lines(newlines')
    BY <1>2, <2>2, <2>3 DEF ReadingInv
  <2>6. \A u \in Shards : pc'[u] = "tail" => u = 0 /\ stop'[u] = FileSize(newlines') /\ eff' <= cursor'[u]
    BY <1>2, <1>4, <1>5, <2>2, <2>3 DEF ReadingInv
  <2> QED BY <1>2, <1>3, <2>4, <2>5, <2>6 DEF ReadingInv
<1>6. CASE ~(s = 0 /\ eff < FileSize(newlines))
  <2>1. pc' = [pc EXCEPT ![s] = "take"] /\ UNCHANGED << cursor, stop >>  BY <1>2, <1>6 DEF TailOfFile, Goto
  <2>2. pc'[s] = "take" /\ \A u \in Shards \ {s} : pc'[u] = pc[u]  BY <1>1, <2>1
  <2>3. TailLeft' = TailLeft
    <3>1. CASE s # 0  BY <1>1, <1>2, <2>1, <2>2, <3>1 DEF TailLeft
    <3>2. CASE s = 0
      <4>1. TailLinesOf(newlines) = {}
        BY <1>1, <1>6, <3>2, TailIs, NoTail DEF TailLinesOf, eff
      <4> QED BY <1>2, <4>1 DEF TailLeft
    <3> QED BY <3>1, <3>2
  <2>4. \A u \in Shards : pc'[u] \in Reading => pc'[u] = pc[u]  BY <2>2 DEF Reading
  <2> QED BY <1>2, <1>3, <1>4, <2>1, <2>3, <2>4 DEF ReadingInv, Reading
<1> QED BY <1>5, <1>6

\* setRange begins at a line start.
LEMMA SetRangeReading ==
  ASSUME LinesInv, ReadingInv, NEW s \in Shards, SetRange(s), UNCHANGED << text, tail, read >>
  PROVE  ReadingInv'
<1>1. /\ newlines \in Files /\ pc \in [Shards -> Labels] /\ 0 \in Shards /\ range \in [Shards -> Nat \X Nat]
      /\ cursor \in [Shards -> Nat] /\ stop \in [Shards -> Nat]
  BY ShardNumbers DEF LinesInv, Types
<1> DEFINE from == LineStartFrom(range[s][1])
           to == LineEndFrom(range[s][2])
<1>2. /\ pc[s] = "map" /\ UNCHANGED << newlines, counted >> /\ pc' = [pc EXCEPT ![s] = "lines"]
      /\ cursor' = [cursor EXCEPT ![s] = from] /\ stop' = [stop EXCEPT ![s] = to]
  BY DEF SetRange, Goto
<1>3. /\ pc'[s] = "lines" /\ cursor'[s] = from /\ stop'[s] = to
      /\ \A u \in Shards \ {s} : pc'[u] = pc[u] /\ cursor'[u] = cursor[u] /\ stop'[u] = stop[u]
  BY <1>1, <1>2
<1>4. from < to => from \in Lines(newlines)
  <2>1. LinesInv'  BY SetRangeKeeps
  <2>2. to <= FileSize(newlines) /\ to \in Nat /\ FileSize(newlines) \in Nat
    <3>1. stop'[s] <= FileSize(newlines') /\ stop'[s] \in Nat
      BY <1>3, <2>1, Zenon DEF LinesInv, RangesAreChunks, Types, Reading
    <3> QED BY <1>1, <1>2, <1>3, <3>1, LastByte
  <2>3. range[s][1] \in Nat /\ range[s][1] < eff  BY <1>1, <1>2 DEF LinesInv, RangesAreChunks, Taken
  <2>4. CASE range[s][1] = 0  BY <2>4 DEF LineStartFrom, Lines
  <2>5. CASE range[s][1] > 0
    <3>1. range[s][1] < FileSize(newlines)  BY <1>1, <2>3, TailStart, LastByte DEF eff
    <3>2. NextNewLine(newlines, range[s][1]) \in newlines /\ NextNewLine(newlines, range[s][1]) \in Nat
      BY <1>1, <2>3, <3>1, NextOne
    <3>3. from = NextNewLine(newlines, range[s][1]) + 1  BY <2>5 DEF LineStartFrom
    <3> HIDE DEF to, from
    <3> QED BY <1>1, <2>2, <3>2, <3>3, LineAfter
  <2> QED BY <2>3, <2>4, <2>5
<1> HIDE DEF from, to
<1>5. TailLeft' = TailLeft  BY <1>1, <1>2, <1>3 DEF TailLeft
<1>6. /\ \A c \in Cities, t \in Temps : LinesRead(c, t)' = LinesRead(c, t)
      /\ AllRead' = AllRead /\ NumRead' = NumRead
  BY <1>2 DEF LinesRead, AllRead, NumRead
<1>7. \A u \in Shards : pc'[u] \in Reading /\ cursor'[u] < stop'[u] => cursor'[u] \in Lines(newlines')
  BY <1>2, <1>3, <1>4 DEF ReadingInv
<1>8. \A u \in Shards : pc'[u] = "tail" => u = 0 /\ stop'[u] = FileSize(newlines') /\ eff' <= cursor'[u]
  BY <1>2, <1>3 DEF ReadingInv, eff
<1> QED BY <1>2, <1>5, <1>6, <1>7, <1>8 DEF ReadingInv

\* What is counted when a line is: the line at the cursor, and no other.
LEMMA CountedMore ==
  ASSUME RunnerInv, ReadingInv, NEW s \in Shards, ProcessLine(s), text' = text
  PROVE  /\ cursor[s] \in Lines(newlines) /\ newlines' = newlines
         /\ \A c \in Cities, t \in Temps :
              /\ text[cursor[s]] # << c, t >> => LinesRead(c, t)' = LinesRead(c, t)
              /\ text[cursor[s]] = << c, t >> =>
                   Cardinality(LinesRead(c, t)') = Cardinality(LinesRead(c, t)) + 1
         /\ Cardinality(AllRead') = Cardinality(AllRead) + 1
<1>1. LinesInv /\ newlines \in Files  BY DEF RunnerInv, QueueInv, LinesInv, Types
<1>2. cursor[s] \in Lines(newlines)  BY DEF ProcessLine, ReadingInv, Reading
<1>3. /\ newlines' = newlines
      /\ \A r \in Shards : \A p \in Lines(newlines) :
           /\ p = cursor[s] => counted[r][p] = 0
           /\ counted'[r][p] = IF r = s /\ p = cursor[s] THEN 1 ELSE counted[r][p]
  BY <1>1, CountsFirst
<1>4. \A p \in Lines(newlines) :
        (\E r \in Shards : counted'[r][p] = 1) <=> p = cursor[s] \/ \E r \in Shards : counted[r][p] = 1
  BY <1>3
<1>5. ~\E r \in Shards : counted[r][cursor[s]] = 1  BY <1>2, <1>3
<1>6. ASSUME NEW c \in Cities, NEW t \in Temps
      PROVE  /\ text[cursor[s]] # << c, t >> => LinesRead(c, t)' = LinesRead(c, t)
             /\ text[cursor[s]] = << c, t >> => LinesRead(c, t)' = LinesRead(c, t) \cup {cursor[s]}
             /\ cursor[s] \notin LinesRead(c, t)
             /\ IsFiniteSet(LinesRead(c, t))
  <2>1. LinesRead(c, t)' = {p \in Lines(newlines) :
          text[p] = << c, t >> /\ (p = cursor[s] \/ \E r \in Shards : counted[r][p] = 1)}
    BY <1>3, <1>4 DEF LinesRead
  <2>2. IsFiniteSet(LinesRead(c, t))
    <3>1. LinesRead(c, t) \subseteq Lines(newlines)  BY DEF LinesRead
    <3> QED BY <1>1, <3>1, LinesFinite, FS_Subset
  <2> QED BY <1>2, <1>5, <2>1, <2>2 DEF LinesRead
<1>7. ASSUME NEW c \in Cities, NEW t \in Temps, text[cursor[s]] = << c, t >>
      PROVE  Cardinality(LinesRead(c, t)') = Cardinality(LinesRead(c, t)) + 1
  BY <1>6, <1>7, FS_AddElement
<1>8. Cardinality(AllRead') = Cardinality(AllRead) + 1
  <2>1. AllRead' = AllRead \cup {cursor[s]} /\ cursor[s] \notin AllRead /\ AllRead \subseteq Lines(newlines)
    BY <1>2, <1>3, <1>4, <1>5 DEF AllRead
  <2>2. IsFiniteSet(AllRead)  BY <1>1, <2>1, LinesFinite, FS_Subset
  <2> QED BY <2>1, <2>2, FS_AddElement
<1> QED BY <1>2, <1>3, <1>6, <1>7, <1>8

\* One more line has been read.
LEMMA InputCounts ==
  ASSUME StatsInv, NEW c \in Cities, NEW t \in Temps, read' = [read EXCEPT ![c][t] = @ + 1]
  PROVE  NumRead' = NumRead + 1
<1> DEFINE of == [d \in Cities |-> SumFunction(read[d])]
           more == [d \in Cities |-> SumFunction(read'[d])]
<1>1. /\ read \in [Cities -> [Temps -> Nat]] /\ read' \in [Cities -> [Temps -> Nat]]
      /\ read'[c][t] = read[c][t] + 1 /\ \A u \in Temps \ {t} : read'[c][u] = read[c][u]
      /\ \A d \in Cities \ {c} : read'[d] = read[d]
  BY DEF StatsInv
<1>2. IsFiniteSet(Cities) /\ IsFiniteSet(Temps)  BY TableSizes
<1>3. SumFunction(read'[c]) = SumFunction(read[c]) + 1
  <2>1. read[c] \in [Temps -> Nat] /\ read'[c] \in [Temps -> Nat]  BY <1>1
  <2> QED BY <1>1, <2>1, OneMoreCounted
<1>4. \A d \in Cities : SumFunction(read[d]) \in Nat /\ SumFunction(read'[d]) \in Nat
  <2>1. \A d \in Cities : read[d] \in [Temps -> Nat] /\ read'[d] \in [Temps -> Nat]  BY <1>1
  <2> QED BY <1>2, <2>1, SumType
<1>5. /\ of \in [Cities -> Int] /\ more \in [Cities -> Int]
      /\ more[c] = of[c] + 1 /\ \A d \in Cities \ {c} : more[d] = of[d]
  BY <1>1, <1>3, <1>4
<1> HIDE DEF of, more
<1>6. SumFunction(more) = SumFunction(of) + 1  BY <1>2, <1>5, SumChange
<1> QED BY <1>6 DEF NumRead, of, more

\* The line that a shard reads is the one at its cursor, which was not read before.
LEMMA LineReading ==
  ASSUME RunnerInv, StatsInv, ReadingInv, NEW s \in Shards, ReadLine(s)
  PROVE  ReadingInv'
<1>1. /\ newlines \in Files /\ pc \in [Shards -> Labels] /\ 0 \in Shards /\ LinesInv
      /\ cursor \in [Shards -> Nat] /\ stop \in [Shards -> Nat]
  BY ShardNumbers DEF RunnerInv, QueueInv, LinesInv, Types
<1>2. /\ ProcessLine(s) /\ text' = text
      /\ pc[s] \in Reading /\ cursor[s] < stop[s] /\ UNCHANGED << newlines, stop, pc >>
      /\ cursor' = [cursor EXCEPT ![s] = NextNewLine(newlines, cursor[s]) + 1]
  BY DEF ReadLine, ProcessLine, Reading
<1> DEFINE q == cursor[s]
           c0 == text[q][1]
           t0 == text[q][2]
           next == NextNewLine(newlines, q) + 1
<1>3. /\ q \in Lines(newlines)
      /\ \A c \in Cities, t \in Temps :
           /\ text[q] # << c, t >> => LinesRead(c, t)' = LinesRead(c, t)
           /\ text[q] = << c, t >> => Cardinality(LinesRead(c, t)') = Cardinality(LinesRead(c, t)) + 1
      /\ Cardinality(AllRead') = Cardinality(AllRead) + 1
  BY <1>2, CountedMore
<1>4. text[q] = << c0, t0 >> /\ c0 \in Cities /\ t0 \in Temps
  BY <1>1, <1>3, TextIs DEF ReadingInv
<1>5. q \in Nat /\ q < FileSize(newlines)  BY <1>1, <1>3, LineStarts
<1>6. /\ next - 1 \in newlines /\ next \in Nat /\ q < next
      /\ next < FileSize(newlines) => next \in Lines(newlines)
  <2>1. /\ NextNewLine(newlines, q) \in newlines /\ NextNewLine(newlines, q) \in Nat
        /\ q <= NextNewLine(newlines, q)
    BY <1>1, <1>5, NextOne
  <2> QED BY <1>1, <1>5, <2>1, LineAfter
<1>7. cursor'[s] = next /\ \A u \in Shards \ {s} : cursor'[u] = cursor[u]  BY <1>1, <1>2
<1>8. IF pc[s] = "tail" THEN ProcessLineSlow(c0, t0) ELSE ProcessLineFast(s, c0, t0)
  BY DEF ReadLine
<1>9. read' = [read EXCEPT ![c0][t0] = @ + 1]
  <2> HIDE DEF c0, t0, q
  <2> QED BY <1>8 DEF ProcessLineSlow, ProcessLineFast, Input
<1>10. ASSUME NEW c \in Cities, NEW t \in Temps PROVE read'[c][t] = Cardinality(LinesRead(c, t)')
  <2>1. read \in [Cities -> [Temps -> Nat]] /\ read[c][t] = Cardinality(LinesRead(c, t))
    BY DEF StatsInv, ReadingInv
  <2> HIDE DEF c0, t0, q
  <2>2. CASE c = c0 /\ t = t0  BY <1>3, <1>4, <1>9, <2>1, <2>2
  <2>3. CASE ~(c = c0 /\ t = t0)
    <3>1. text[q] # << c, t >>  BY <1>4, <2>3
    <3>2. read'[c][t] = read[c][t]  BY <1>4, <1>9, <2>1, <2>3
    <3> QED BY <1>3, <2>1, <3>1, <3>2
  <2> QED BY <2>2, <2>3
<1>11. tail' = Cardinality(TailLeft')
  <2>1. IsFiniteSet(TailLeft)  BY <1>1, TailLeftFinite
  <2>2. tail = Cardinality(TailLeft)  BY DEF ReadingInv
  <2>3. CASE pc[s] = "tail"
    <3>1. s = 0 /\ eff <= q  BY <1>2, <2>3 DEF ReadingInv
    <3>2. tail' = tail - 1
      <4> HIDE DEF c0, t0, q
      <4> QED BY <1>8, <2>3 DEF ProcessLineSlow
    <3>3. q \in TailLinesOf(newlines)  BY <1>3, <3>1 DEF TailLinesOf, eff
    <3>4. \A p \in TailLinesOf(newlines) : q <= p <=> p = q \/ next <= p
      BY <1>1, <1>5, NextLine DEF TailLinesOf
    <3> HIDE DEF next
    <3>5. TailLeft = {p \in TailLinesOf(newlines) : q <= p}  BY <2>3, <3>1 DEF TailLeft
    <3>6. TailLeft' = {p \in TailLinesOf(newlines) : next <= p}  BY <1>2, <1>7, <2>3, <3>1 DEF TailLeft
    <3>7. TailLeft' = TailLeft \ {q} /\ q \in TailLeft
      <4>1. ~(next <= q) /\ q <= q  BY <1>5, <1>6
      <4> QED BY <3>3, <3>4, <3>5, <3>6, <4>1
    <3>8. Cardinality(TailLeft') = Cardinality(TailLeft) - 1  BY <2>1, <3>7, FS_RemoveElement
    <3> QED BY <2>2, <3>2, <3>8
  <2>4. CASE pc[s] # "tail"
    <3>1. tail' = tail
      <4> HIDE DEF c0, t0, q
      <4> QED BY <1>8, <2>4 DEF ProcessLineFast
    <3>2. TailLeft' = TailLeft
      <4>1. CASE s = 0  BY <1>2, <2>4, <4>1 DEF TailLeft, Reading
      <4>2. CASE s # 0  BY <1>1, <1>2, <1>7, <4>2 DEF TailLeft
      <4> QED BY <4>1, <4>2
    <3> QED BY <2>2, <3>1, <3>2
  <2> QED BY <2>3, <2>4
<1>12. ASSUME NEW u \in Shards, pc'[u] \in Reading, cursor'[u] < stop'[u]
       PROVE  cursor'[u] \in Lines(newlines')
  <2>1. CASE u # s  BY <1>2, <1>7, <1>12, <2>1 DEF ReadingInv
  <2>2. CASE u = s
    <3>1. stop[s] <= FileSize(newlines) /\ FileSize(newlines) \in Nat
      BY <1>1, <1>2, LastByte DEF LinesInv, RangesAreChunks
    <3>2. next < FileSize(newlines)
      <4> HIDE DEF next
      <4> QED BY <1>1, <1>2, <1>6, <1>7, <1>12, <2>2, <3>1
    <3> QED BY <1>2, <1>6, <1>7, <2>2, <3>2
  <2> QED BY <2>1, <2>2
<1>13. ASSUME NEW u \in Shards, pc'[u] = "tail"
       PROVE  u = 0 /\ stop'[u] = FileSize(newlines') /\ eff' <= cursor'[u]
  <2>1. u = 0 /\ stop'[u] = FileSize(newlines') /\ eff <= cursor[u] /\ eff' = eff
    BY <1>2, <1>13 DEF ReadingInv, eff
  <2>2. eff \in Nat  BY <1>1, TailStart DEF eff
  <2>3. cursor[u] <= cursor'[u] /\ cursor[u] \in Nat /\ cursor'[u] \in Nat
    <3> HIDE DEF next
    <3>1. cursor[u] \in Nat /\ (u = s => cursor[u] = q)  BY <1>1
    <3> QED BY <1>5, <1>6, <1>7, <3>1
  <2> QED BY <2>1, <2>2, <2>3
<1>14. NumRead' = Cardinality(AllRead')
  <2>1. NumRead' = NumRead + 1
    <3> HIDE DEF c0, t0
    <3> QED BY <1>4, <1>9, InputCounts
  <2> QED BY <1>3, <2>1 DEF ReadingInv
<1> QED BY <1>2, <1>10, <1>11, <1>12, <1>13, <1>14 DEF ReadingInv

\* Every step leaves what has been read what the counted lines say.
LEMMA ReadingKept ==
  ASSUME RunnerInv, StatsInv, ReadingInv, [OneBrcNext]_oneBrcVars
  PROVE  ReadingInv'
<1>0. /\ LinesInv /\ pc \in [Shards -> Labels] /\ started \in 0 .. NShards + 2
  BY DEF RunnerInv, QueueInv, LinesInv, Types, Tasks
<1>1. CASE UNCHANGED oneBrcVars
  <2>1. /\ UNCHANGED << newlines, cursor, stop, counted, text, tail, read, pc >>
    BY <1>1 DEF oneBrcVars, runnerVars, queueVars, lineVars, statsVars
  <2> QED BY <2>1, QuietReading
<1>2. ASSUME NEW s \in Shards, ReadLine(s) PROVE ReadingInv'  BY <1>2, LineReading
<1>3. ASSUME NEW s \in Shards, MergeResult(s) PROVE ReadingInv'
  <2>1. UNCHANGED << newlines, cursor, stop, counted, text, tail, read, pc >>
    BY <1>3 DEF MergeResult, Merge, queueVars, lineVars, statsVars
  <2> QED BY <2>1, QuietReading
<1>4. CASE OtherStep
  <2>0. UNCHANGED << text, tail, read >>  BY <1>4 DEF OtherStep, statsVars
  <2>1. CASE MainStep \/ CloserStep
    <3>1. UNCHANGED << newlines, cursor, stop, counted, pc >>
      BY <2>1 DEF MainStep, Construct, Distribute, GotMerge, Terminated, CloserStep, CloseBuffersOf, EndingClean,
                  CloseBuffersThrows, queueVars, lineVars
    <3> QED BY <2>0, <3>1, QuietReading
  <2>2. CASE StartTask
    <3>1. CASE started < NShards
      <4>1. started \in Shards /\ Start(started)  BY <1>0, <2>2, <3>1, Sizes DEF StartTask, Shards
      <4> QED BY <1>0, <2>0, <4>1, StartReading
    <3>2. CASE ~(started < NShards)
      <4>1. UNCHANGED << newlines, cursor, stop, counted, pc >>
        BY <2>2, <3>2 DEF StartTask, queueVars, lineVars
      <4> QED BY <2>0, <4>1, QuietReading
    <3> QED BY <3>1, <3>2
  <2>3. ASSUME NEW s \in Shards, Run(s), counted' = counted PROVE ReadingInv'
    <3>1. CASE EndOfRange(s)  BY <1>0, <2>0, <3>1, EndOfRangeReading
    <3>2. CASE SetRange(s)  BY <1>0, <2>0, <3>2, SetRangeReading
    <3>3. CASE ProcessLine(s)
      <4>1. /\ pc[s] \in Reading /\ cursor[s] < stop[s]  BY <3>3 DEF ProcessLine, Reading
      <4>2. cursor[s] \in Lines(newlines)  BY <4>1 DEF ReadingInv
      <4>3. counted[s][cursor[s]] = 0 /\ counted'[s][cursor[s]] = 1  BY <1>0, <3>3, <4>2, CountsFirst
      <4> QED BY <2>3, <4>3
    <3>4. CASE \/ TakeOwn(s) \/ TakeCommon(s) \/ TryLock(s) \/ CompareAndSet(s) \/ Clean(s) \/ CleanThrows(s)
               \/ Release(s) \/ MapThrows(s)
      <4>1. /\ UNCHANGED << newlines, cursor, stop, counted >>
            /\ pc[s] \in {"take", "taken", "cas", "clean", "release", "map"}
            /\ \E label \in Labels : label \notin {"queued", "tail", "lines"} /\ pc' = [pc EXCEPT ![s] = label]
        BY <3>4 DEF TakeOwn, TakeCommon, TryLock, CompareAndSet, Clean, CleanThrows, Release, MapThrows, Goto,
                    lineVars, Labels
      <4>2. \A u \in Shards : pc'[u] = pc[u]
              \/ (pc[u] \notin Reading \cup {"queued"} /\ pc'[u] \notin Reading \cup {"queued"})
        BY <1>0, <4>1 DEF Reading
      <4> QED BY <2>0, <4>1, <4>2, QuietReading
    <3> QED BY <2>3, <3>1, <3>2, <3>3, <3>4 DEF Run, ShardStep
  <2> QED BY <1>4, <2>1, <2>2, <2>3 DEF OtherStep
<1> QED BY <1>1, <1>2, <1>3, <1>4 DEF OneBrcNext

-----------------------------------------------------------------------------
(* Merging results *)

\* Which of two stats comes first makes no difference.
LEMMA StatMergeCommutes ==
  ASSUME NEW a, NEW b, a.sum \in Int, b.sum \in Int, a.count \in Int, b.count \in Int
  PROVE  StatMerge(a, b) = StatMerge(b, a)
<1>1. {a.min, b.min} = {b.min, a.min} /\ {a.max, b.max} = {b.max, a.max}  OBVIOUS
<1>2. a.sum + b.sum = b.sum + a.sum /\ a.count + b.count = b.count + a.count  OBVIOUS
<1> QED BY <1>1, <1>2 DEF StatMerge

\* A summary depends on the stats it summarises only.
LEMMA SummaryOfSame ==
  ASSUME NEW All, NEW of, NEW other, NEW s \in SUBSET All, \A x \in s : other[x] = of[x],
         NEW m, Summarises(m, of, s, All)
  PROVE  Summarises(m, other, s, All)
<1>1. SumOver(All, [x \in All |-> other[x].sum], s) = SumOver(All, [x \in All |-> of[x].sum], s)
  <2>1. [y \in All |-> IF y \in s THEN [x \in All |-> other[x].sum][y] ELSE 0]
        = [y \in All |-> IF y \in s THEN [x \in All |-> of[x].sum][y] ELSE 0]
    OBVIOUS
  <2> QED BY <2>1 DEF SumOver
<1>2. SumOver(All, [x \in All |-> other[x].count], s) = SumOver(All, [x \in All |-> of[x].count], s)
  <2>1. [y \in All |-> IF y \in s THEN [x \in All |-> other[x].count][y] ELSE 0]
        = [y \in All |-> IF y \in s THEN [x \in All |-> of[x].count][y] ELSE 0]
    OBVIOUS
  <2> QED BY <2>1 DEF SumOver
<1>3. /\ m \in Stats
      /\ \E x \in s : m.min = other[x].min
      /\ \E x \in s : m.max = other[x].max
      /\ \A x \in s : m.min <= other[x].min /\ other[x].max <= m.max
  BY DEF Summarises
<1> QED BY <1>1, <1>2, <1>3 DEF Summarises

\* The stats of a city in the tables.
LEMMA StatsOfType ==
  ASSUME StatsInv, NEW c
  PROVE  StatsOf(c) \in [Holders(c) -> Stats] /\ Holders(c) \in SUBSET Tables
<1>1. \A s \in Tables : table[s] \in PartialTables /\ OneSlotEach(table[s])
  BY DEF StatsInv, AllOK, TableOK
<1> QED BY <1>1, StatInType DEF StatsOf, Holders

\* While no other shard is merged and those merged keep their tables, the result stays.
LEMMA ResultKept ==
  ASSUME RunnerInv, ResultInv, merged' = merged, tempStats' = tempStats,
         \A s \in merged : (pc'[s] = "done" <=> pc[s] = "done") /\ (pc[s] = "done" => table'[s] = table[s])
  PROVE  ResultInv'
<1>1. merged \subseteq Tables  BY ShardTables DEF RunnerInv, Merging
<1>2. \A c \in Cities : MergedHolders(c)' = MergedHolders(c)  BY DEF MergedHolders
<1>3. ASSUME NEW c \in Cities, MergedHolders(c) # {}
      PROVE  Summarises(tempStats[c], StatsOf(c)', MergedHolders(c), Tables)
  <2>1. Summarises(tempStats[c], StatsOf(c), MergedHolders(c), Tables)  BY <1>3 DEF ResultInv
  <2>2. MergedHolders(c) \in SUBSET Tables  BY <1>1 DEF MergedHolders
  <2>3. \A s \in MergedHolders(c) : StatsOf(c)'[s] = StatsOf(c)[s]
    <3> SUFFICES ASSUME NEW s \in MergedHolders(c) PROVE StatsOf(c)'[s] = StatsOf(c)[s]  OBVIOUS
    <3>1. s \in Tables /\ Holds(table[s], c) /\ table'[s] = table[s]  BY <2>2 DEF MergedHolders
    <3>2. s \in Holders(c) /\ s \in Holders(c)'  BY <3>1 DEF Holders
    <3> QED BY <3>1, <3>2 DEF StatsOf
  <2> QED BY <2>1, <2>2, <2>3, SummaryOfSame
<1>4. {d \in Cities : MergedHolders(d)' # {}} = {d \in Cities : MergedHolders(d) # {}}  BY <1>2
<1> QED BY <1>2, <1>3, <1>4 DEF ResultInv

\* Merging a shard's result makes the result so far a summary of its table too.
LEMMA MergeKeepsResult ==
  ASSUME RunnerInv, StatsInv, ResultInv, NEW s \in Shards, MergeResult(s)
  PROVE  ResultInv'
<1>1. /\ s \notin merged /\ merged' = merged \cup {s} /\ pc' = pc /\ table' = table
      /\ tempStats' = IF pc[s] = "failed" THEN tempStats ELSE Combined(tempStats, Result(s))
      /\ pc[s] \in {"done", "failed"}
  BY DEF MergeResult, Merge, IsDone, queueVars, statsVars
<1>2. merged \subseteq Tables /\ s \in Tables  BY ShardTables DEF RunnerInv, Merging
<1>3. \A c \in Cities : StatsOf(c)' = StatsOf(c)  BY <1>1 DEF StatsOf, Holders
<1>4. CASE pc[s] = "failed"
  <2>1. \A c \in Cities : MergedHolders(c)' = MergedHolders(c)  BY <1>1, <1>4 DEF MergedHolders
  <2>2. {d \in Cities : MergedHolders(d)' # {}} = {d \in Cities : MergedHolders(d) # {}}  BY <2>1
  <2>3. tempStats' = tempStats  BY <1>1, <1>4
  <2> QED BY <1>3, <2>1, <2>2, <2>3 DEF ResultInv
<1>5. CASE pc[s] = "done"
  <2> DEFINE of == Result(s)
  <2>1. /\ \A c : c \in DOMAIN of <=> Holds(table[s], c)
        /\ \A c \in DOMAIN of : of[c] = StatIn(table[s], c) /\ c \in Cities
    <3>1. table[s] \in PartialTables  BY <1>2 DEF StatsInv, AllOK, TableOK
    <3>2. \A c : Holds(table[s], c) => c \in Cities  BY <3>1, PartsOfTable DEF Holds
    <3> QED BY <1>2, <3>2, ResultOfTable
  <2>2. \A c \in Cities : MergedHolders(c)' = IF c \in DOMAIN of THEN MergedHolders(c) \cup {s} ELSE MergedHolders(c)
    BY <1>1, <1>5, <2>1 DEF MergedHolders
  <2>3. DOMAIN tempStats = {d \in Cities : MergedHolders(d) # {}}  BY DEF ResultInv
  <2>4. tempStats' = Combined(tempStats, of)  BY <1>1, <1>5
  <2> HIDE DEF of
  <2>5. DOMAIN tempStats' = {d \in Cities : MergedHolders(d)' # {}}
    <3>1. DOMAIN tempStats' = DOMAIN tempStats \cup DOMAIN of  BY <2>4 DEF Combined
    <3> QED BY <2>1, <2>2, <2>3, <3>1
  <2>6. tempStats' = [c \in {d \in Cities : MergedHolders(d)' # {}} |-> tempStats'[c]]
    BY <2>4, <2>5 DEF Combined
  <2>7. ASSUME NEW c \in Cities, MergedHolders(c)' # {}
        PROVE  Summarises(tempStats'[c], StatsOf(c), MergedHolders(c)', Tables)
    <3>0. /\ StatsOf(c) \in [Holders(c) -> Stats] /\ Holders(c) \in SUBSET Tables
          /\ MergedHolders(c) \in SUBSET Holders(c) /\ s \notin MergedHolders(c)
      BY <1>1, <1>2, StatsOfType DEF MergedHolders, Holders
    <3>1. c \in DOMAIN tempStats'  BY <2>5, <2>7
    <3>2. tempStats'[c] = IF c \notin DOMAIN tempStats THEN of[c]
                          ELSE IF c \notin DOMAIN of THEN tempStats[c]
                          ELSE StatMerge(tempStats[c], of[c])
      BY <2>4, <3>1 DEF Combined
    <3>3. MergedHolders(c) # {} => Summarises(tempStats[c], StatsOf(c), MergedHolders(c), Tables)
      BY DEF ResultInv
    <3>4. CASE c \notin DOMAIN of
      <4>1. MergedHolders(c)' = MergedHolders(c)  BY <2>2, <3>4
      <4>2. c \in DOMAIN tempStats  BY <2>3, <2>7, <4>1
      <4> QED BY <2>7, <3>2, <3>3, <3>4, <4>1, <4>2
    <3>5. CASE c \in DOMAIN of
      <4>1. s \in Holders(c) /\ StatsOf(c)[s] = of[c]  BY <1>2, <2>1, <3>5 DEF StatsOf, Holders
      <4>2. CASE MergedHolders(c) = {}
        <5>1. c \notin DOMAIN tempStats  BY <2>3, <4>2
        <5>2. tempStats'[c] = StatsOf(c)[s]  BY <3>2, <4>1, <5>1
        <5>3. MergedHolders(c)' = {s}  BY <2>2, <3>5, <4>2
        <5>4. Summarises(StatsOf(c)[s], StatsOf(c), {s}, Tables)
          BY <3>0, <4>1, FiniteTables, SummaryOfOne
        <5> QED BY <5>2, <5>3, <5>4
      <4>3. CASE MergedHolders(c) # {}
        <5>1. c \in DOMAIN tempStats  BY <2>3, <4>3
        <5>2. tempStats'[c] = StatMerge(tempStats[c], StatsOf(c)[s])  BY <3>2, <3>5, <4>1, <5>1
        <5>3. tempStats[c] \in Stats /\ StatsOf(c)[s] \in Stats
          BY <3>0, <3>3, <4>1, <4>3 DEF Summarises
        <5>4. StatMerge(tempStats[c], StatsOf(c)[s]) = StatMerge(StatsOf(c)[s], tempStats[c])
          <6>1. /\ tempStats[c].sum \in Int /\ tempStats[c].count \in Int
                /\ StatsOf(c)[s].sum \in Int /\ StatsOf(c)[s].count \in Int
            BY <5>3, StatParts
          <6> QED BY <6>1, StatMergeCommutes
        <5>5. Summarises(StatMerge(StatsOf(c)[s], tempStats[c]), StatsOf(c), MergedHolders(c) \cup {s}, Tables)
          BY <3>0, <3>3, <4>1, <4>3, FiniteTables, SummaryGrows
        <5>6. MergedHolders(c)' = MergedHolders(c) \cup {s}  BY <2>2, <3>5
        <5> QED BY <5>2, <5>4, <5>5, <5>6
      <4> QED BY <4>2, <4>3
    <3> QED BY <3>4, <3>5
  <2> QED BY <1>3, <2>6, <2>7 DEF ResultInv
<1> QED BY <1>1, <1>4, <1>5

\* No step but a merge changes the result, or the table of a shard that has been merged.
LEMMA ResultStep ==
  ASSUME RunnerInv, StatsInv, ReadingInv, ResultInv, [OneBrcNext]_oneBrcVars
  PROVE  ResultInv'
<1>0. /\ QueueInv /\ Tasks /\ merged \subseteq Shards /\ \A s \in merged : IsDone(s)
  BY DEF RunnerInv, Merging
<1>1. \A s \in merged : pc'[s] = pc[s]
  <2>1. [RunnerNext]_runnerVars  BY RunnerSteps
  <2> QED BY <1>0, <2>1, DoneStays
<1>2. CASE UNCHANGED oneBrcVars
  <2>1. merged' = merged /\ table' = table /\ tempStats' = tempStats
    BY <1>2 DEF oneBrcVars, runnerVars, statsVars
  <2> QED BY <1>1, <2>1, ResultKept
<1>3. CASE OtherStep
  <2>1. merged' = merged /\ table' = table /\ tempStats' = tempStats
    BY <1>3 DEF OtherStep, MainStep, Construct, GotMerge, Terminated, StartTask, CloserStep, CloseBuffersOf,
                CloseBuffersThrows, Run, statsVars
  <2> QED BY <1>1, <2>1, ResultKept
<1>4. ASSUME NEW s \in Shards, ReadLine(s) PROVE ResultInv'
  <2>1. merged' = merged /\ tempStats' = tempStats  BY <1>4 DEF ReadLine, Run
  <2>2. s \notin merged  BY <1>0, <1>4 DEF ReadLine, ProcessLine, IsDone
  <2>3. \A r \in merged : table'[r] = table[r]
    <3>1. \A r, h, c, t : LinearProbe(r, h, c, t) => \E entry : table' = [table EXCEPT ![r] = entry]
      BY DEF LinearProbe
    <3>2. \E c, t : (LinearProbe(0, SlowHash[c], c, t) /\ pc[s] = "tail") \/ LinearProbe(s, FastHash[c], c, t)
      BY <1>4 DEF ReadLine, ProcessLineSlow, ProcessLineFast
    <3>3. s \in Tables /\ 0 \in Tables /\ (pc[s] = "tail" => s = 0)
      BY ShardTables, ShardNumbers DEF ReadingInv
    <3>4. \E entry : table' = [table EXCEPT ![s] = entry]  BY <3>1, <3>2, <3>3
    <3>5. table = [r \in Tables |-> table[r]]  BY DEF StatsInv
    <3> QED BY <1>0, <2>2, <3>4, <3>5, ShardTables
  <2> QED BY <1>1, <2>1, <2>3, ResultKept
<1>5. ASSUME NEW s \in Shards, MergeResult(s) PROVE ResultInv'  BY <1>5, MergeKeepsResult
<1> QED BY <1>2, <1>3, <1>4, <1>5 DEF OneBrcNext

-----------------------------------------------------------------------------
\* The tail is small enough for StatsTable, and nothing has been read or merged.
LEMMA OneBrcInvInit == OneBrcInit => OneBrcInv
<1> SUFFICES ASSUME OneBrcInit PROVE OneBrcInv  OBVIOUS
<1>1. RunnerInv /\ StatsInv  BY RunnerInvInit, StatsInitHolds DEF OneBrcInit
<1>2. /\ newlines \in Files /\ text \in Texts(newlines) /\ tail = Cardinality(TailLinesOf(newlines))
      /\ pc = [s \in Shards |-> "queued"] /\ merged = {} /\ tempStats = << >>
      /\ counted = [s \in Shards |-> [p \in Lines(newlines) |-> 0]]
      /\ read = [c \in Cities |-> [t \in Temps |-> 0]]
  BY DEF OneBrcInit, RunnerInit, Init, StatsInit
<1>3. ReadingInv
  <2>1. \A s \in Shards : pc[s] = "queued"  BY <1>2
  <2>2. TailLeft = TailLinesOf(newlines)  BY <2>1, ShardNumbers DEF TailLeft
  <2>3. ASSUME NEW c \in Cities, NEW t \in Temps PROVE read[c][t] = Cardinality(LinesRead(c, t))
    <3>1. LinesRead(c, t) = {}  BY <1>2 DEF LinesRead
    <3> QED BY <1>2, <3>1, FS_EmptySet
  <2>4. NumRead = Cardinality(AllRead)
    <3>1. AllRead = {}  BY <1>2 DEF AllRead
    <3>2. IsFiniteSet(Cities) /\ IsFiniteSet(Temps)  BY TableSizes
    <3>3. SumFunction([t \in Temps |-> 0]) = 0  BY <3>2, SumZero
    <3>4. [c \in Cities |-> SumFunction(read[c])] = [c \in Cities |-> 0]  BY <1>2, <3>3
    <3>5. SumFunction([c \in Cities |-> 0]) = 0  BY <3>2, SumZero
    <3> QED BY <3>1, <3>4, <3>5, FS_EmptySet DEF NumRead
  <2> QED BY <1>2, <2>1, <2>2, <2>3, <2>4 DEF ReadingInv, Reading
<1>4. ResultInv
  <2>1. \A c \in Cities : MergedHolders(c) = {}  BY <1>2 DEF MergedHolders
  <2>2. {d \in Cities : MergedHolders(d) # {}} = {}  BY <2>1
  <2>3. tempStats = [c \in {} |-> tempStats[c]]  BY <1>2
  <2> QED BY <2>1, <2>2, <2>3 DEF ResultInv
<1> QED BY <1>1, <1>3, <1>4 DEF OneBrcInv

\* Every step keeps the invariant of the program.
LEMMA OneBrcInvStep ==
  ASSUME FakeAdvance = FALSE, HashesAgree, OneBrcInv, [OneBrcNext]_oneBrcVars PROVE OneBrcInv'
<1>1. RunnerInv'  BY RunnerSteps, RunnerInvStep DEF OneBrcInv
<1>2. StatsInv'  BY TableSteps, StatsInvStep DEF OneBrcInv
<1>3. ReadingInv' /\ ResultInv'  BY ReadingKept, ResultStep DEF OneBrcInv
<1> QED BY <1>1, <1>2, <1>3 DEF OneBrcInv

\* The runner and the tables of the program are those of OneBrcRunner and StatsTable: whatever holds
\* of these in all their executions holds in the program as a whole, where lines say what is read.
THEOREM ProgramOfBoth ==
  ASSUME FakeAdvance = FALSE, HashesAgree
  PROVE  OneBrcSpec => RunnerSpec /\ StatsSpec /\ []OneBrcInv
<1>1. OneBrcInit => RunnerInit /\ StatsInit /\ OneBrcInv  BY OneBrcInvInit DEF OneBrcInit
<1>2. OneBrcInv /\ [OneBrcNext]_oneBrcVars => OneBrcInv'  BY OneBrcInvStep
<1>3. [OneBrcNext]_oneBrcVars => [RunnerNext]_runnerVars  BY RunnerSteps
<1>4. OneBrcInv /\ [OneBrcNext]_oneBrcVars => [StatsNext]_statsVars  BY TableSteps DEF OneBrcInv
<1> QED BY <1>1, <1>2, <1>3, <1>4, PTL DEF OneBrcSpec, RunnerSpec, StatsSpec

-----------------------------------------------------------------------------
\* When main returns, every shard has been merged and every line been read.
LEMMA ReturnedIsExpected == OneBrcInv => ReturnsStatsOfFile
<1> SUFFICES ASSUME OneBrcInv, main = "returned" PROVE tempStats = Expected(Readings)
  BY DEF ReturnsStatsOfFile
<1>1. merged = Tables /\ \A s \in Tables : pc[s] = "done"
  BY ShardTables DEF OneBrcInv, RunnerInv, Waiting, Merging
<1>2. Readings = read
  <2>1. \A p \in Lines(newlines) : \E s \in Shards : counted[s][p] = 1
    <3>1. \A p \in Lines(newlines) : output[p] = 1  BY RunnerInvImplies DEF OneBrcInv, ResultIsComplete
    <3> QED BY <3>1 DEF OneBrcInv, RunnerInv, Merging
  <2>2. ASSUME NEW c \in Cities, NEW t \in Temps
        PROVE  read[c][t] = Cardinality({p \in Lines(newlines) : text[p] = << c, t >>})
    <3>1. LinesRead(c, t) = {p \in Lines(newlines) : text[p] = << c, t >>}  BY <2>1 DEF LinesRead
    <3> QED BY <3>1 DEF OneBrcInv, ReadingInv
  <2>3. read = [c \in Cities |-> read[c]] /\ \A c \in Cities : read[c] = [t \in Temps |-> read[c][t]]
    BY DEF OneBrcInv, StatsInv
  <2>4. ASSUME NEW c \in Cities PROVE Readings[c] = read[c]
    <3>1. Readings[c] = [t \in Temps |-> Cardinality({p \in Lines(newlines) : text[p] = << c, t >>})]
      BY DEF Readings
    <3> QED BY <2>2, <2>3, <3>1
  <2>5. Readings = [c \in Cities |-> Readings[c]]  BY DEF Readings
  <2> HIDE DEF Readings
  <2> QED BY <2>3, <2>4, <2>5
<1>3. \A c \in Cities : MergedHolders(c) = Holders(c)  BY <1>1 DEF MergedHolders, Holders
<1>4. {d \in Cities : MergedHolders(d) # {}} = {d \in Cities : Seen(read, d) # {}}
  <2>1. \A d \in Cities : Holders(d) # {} <=> Seen(read, d) # {}
    BY FoundIfSeen DEF Holders, OneBrcInv
  <2> QED BY <1>3, <2>1
<1>5. ASSUME NEW c \in Cities, MergedHolders(c) # {} PROVE tempStats[c] = ExpectedStat(read, c)
  <2>1. Summarises(tempStats[c], StatsOf(c), Holders(c), Tables)
    BY <1>3, <1>5 DEF OneBrcInv, ResultInv
  <2>2. PICK e, of, m : e = Holders(c) /\ of = StatsOf(c) /\ m = tempStats[c]  OBVIOUS
  <2>3. e = {s \in Tables : Holds(table[s], c)} /\ of = [s \in e |-> StatIn(table[s], c)]
    BY <2>2 DEF Holders, StatsOf
  <2>4. m = ExpectedStat(read, c)  BY <2>1, <2>2, <2>3, SummaryIsExpected DEF OneBrcInv
  <2> QED BY <2>2, <2>4
<1>6. tempStats = [c \in {d \in Cities : MergedHolders(d) # {}} |-> tempStats[c]]
  BY DEF OneBrcInv, ResultInv
<1>7. tempStats = [c \in {d \in Cities : Seen(read, d) # {}} |-> ExpectedStat(read, c)]
  <2> DEFINE found == {d \in Cities : MergedHolders(d) # {}}
  <2>1. tempStats = [c \in found |-> tempStats[c]] /\ found = {d \in Cities : Seen(read, d) # {}}
    BY <1>4, <1>6
  <2>2. \A c \in found : tempStats[c] = ExpectedStat(read, c)  BY <1>5
  <2> HIDE DEF found
  <2> QED BY <2>1, <2>2
<1> QED BY <1>2, <1>7, Zenon DEF Expected

\* A line that is about to be read has not been, so the bounds leave room; the tail has one left if it is
\* in the tail.
LEMMA LinesHaveSlots ==
  ASSUME Cardinality(Cities) <= NSlots, OneBrcInv PROVE EveryLineHasASlot
<1> SUFFICES ASSUME NEW s \in Shards, pc[s] \in {"tail", "lines"}, cursor[s] < stop[s],
                    NEW city, city = text[cursor[s]][1]
             PROVE  /\ NumRead < MaxReadings
                    /\ IF pc[s] = "tail" THEN s = 0 /\ tail > 0 /\ Probes(0, SlowHash[city], city) # {}
                       ELSE (s = 0 => tail = 0) /\ Probes(s, FastHash[city], city) # {}
  BY DEF EveryLineHasASlot
<1> DEFINE q == cursor[s]
<1>1. /\ newlines \in Files /\ LinesInv /\ StatsInv /\ ReadingInv /\ 0 \in Shards
      /\ pc \in [Shards -> Labels] /\ cursor \in [Shards -> Nat]
  BY ShardNumbers DEF OneBrcInv, RunnerInv, QueueInv, LinesInv, Types
<1>2. q \in Lines(newlines) /\ q \in Nat
  BY <1>1 DEF ReadingInv, Reading
<1>3. city \in Cities  BY <1>1, <1>2, TextIs DEF ReadingInv
<1>4. /\ \A r \in Tables : Probes(r, FastHash[city], city) # {}
      /\ \A r \in Tables : Probes(r, SlowHash[city], city) # {}
  BY <1>1, <1>3, HashesType, ProbingStops
<1>5. s \in Tables /\ 0 \in Tables  BY <1>1, ShardTables
<1>6. NumRead < MaxReadings
  <2>1. q \notin AllRead
    <3> SUFFICES ASSUME NEW t \in Shards, counted[t][q] = 1 PROVE FALSE  BY DEF AllRead
    <3>1. At("counted", t, q) /\ At("reading", s, q)  BY <1>2 DEF At, Reading
    <3>2. OnePlace(q) /\ "counted" \in Places /\ "reading" \in Places  BY <1>1, <1>2 DEF LinesInv, Places
    <3>3. "counted" = "reading"
      <4> HIDE DEF q
      <4> QED BY <3>1, <3>2, Zenon DEF OnePlace
    <3> QED BY <3>3
  <2>2. IsFiniteSet(Lines(newlines)) /\ AllRead \subseteq Lines(newlines) \ {q}
    BY <1>1, <2>1, LinesFinite DEF AllRead
  <2>3. IsFiniteSet(Lines(newlines) \ {q}) /\ Cardinality(Lines(newlines) \ {q}) = Cardinality(Lines(newlines)) - 1
    BY <1>2, <2>2, FS_RemoveElement
  <2>4. /\ Cardinality(AllRead) <= Cardinality(Lines(newlines) \ {q}) /\ IsFiniteSet(AllRead)
    BY <2>2, <2>3, FS_Subset
  <2>5. Cardinality(AllRead) \in Nat /\ Cardinality(Lines(newlines)) \in Nat
    BY <2>2, <2>4, FS_CardinalityType
  <2>6. Cardinality(Lines(newlines)) <= MaxTail /\ MaxTail <= MaxReadings /\ MaxTail \in Nat /\ MaxReadings \in Nat
    BY <1>1, TextsOfFiles, TableSizes
  <2>7. NumRead = Cardinality(AllRead)  BY <1>1 DEF ReadingInv
  <2> QED BY <2>3, <2>4, <2>5, <2>6, <2>7
<1>7. IsFiniteSet(TailLeft) /\ tail = Cardinality(TailLeft) /\ Cardinality(TailLeft) \in Nat
  BY <1>1, TailLeftFinite, FS_CardinalityType DEF ReadingInv
<1>8. pc[s] = "tail" => s = 0 /\ tail > 0
  <2> SUFFICES ASSUME pc[s] = "tail" PROVE s = 0 /\ tail > 0  OBVIOUS
  <2>1. s = 0 /\ eff <= q  BY <1>1 DEF ReadingInv
  <2>2. q \in TailLeft  BY <1>2, <2>1 DEF TailLeft, TailLinesOf, eff
  <2>3. Cardinality(TailLeft) # 0  BY <1>7, <2>2, FS_EmptySet
  <2> QED BY <1>7, <2>1, <2>3
<1>9. pc[s] # "tail" /\ s = 0 => tail = 0
  <2> SUFFICES ASSUME pc[0] = "lines", s = 0 PROVE tail = 0  OBVIOUS
  <2>1. TailLeft = {}  BY DEF TailLeft
  <2> QED BY <1>7, <2>1, FS_EmptySet
<1> QED BY <1>4, <1>5, <1>6, <1>8, <1>9

\* ReturnsStatsOfFile: whatever main returns is what the file says, for all files and texts, numbers of
\* shards and slots, sizes of chunks, buffers and tail, and orders in which shards read, end and are
\* merged, whatever throws.
THEOREM ReturnsStats ==
  ASSUME FakeAdvance = FALSE, HashesAgree PROVE OneBrcSpec => []ReturnsStatsOfFile
BY ProgramOfBoth, ReturnedIsExpected, PTL

\* EveryLineHasASlot: where there are no more names than slots, each line is read as soon as a shard
\* gets to it.
THEOREM NoLineIsHeldUp ==
  ASSUME FakeAdvance = FALSE, HashesAgree, Cardinality(Cities) <= NSlots
  PROVE  OneBrcSpec => []EveryLineHasASlot
<1>1. OneBrcInv => EveryLineHasASlot  BY LinesHaveSlots
<1> QED BY <1>1, ProgramOfBoth, PTL
================================================================================
