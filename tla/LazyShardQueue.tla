----------------------------- MODULE LazyShardQueue ----------------------------
(***************************************************************************)
(* The work queue of CalculateAverage_vemana and the shards that drain it. *)
(* A file is cut into chunks at arbitrary byte positions; setRange moves   *)
(* both ends of a chunk to the next line start.  Each shard first takes    *)
(* its own big chunks, then small ones from a common counter, and unmaps   *)
(* what it has mapped once on the way (serialised by SeqLock) and again    *)
(* when it is done.  A line is the position of its first byte.             *)
(***************************************************************************)
EXTENDS Integers, FiniteSets

CONSTANTS
  NShards,          \* number of threads, and of shards
  ChunkSize, CommonChunkSize,
  CommonPercent,    \* commonChunkFraction, in percent
  MunmapPercent,    \* munmapFraction, in percent
  TailReserved,     \* minReservedBytesAtFileTail
  BufSize, Slack,   \* BUF_SIZE and the 1024 of setRange
  FakeAdvance,      \* a benchmarking option: own chunks do not advance
  Files,            \* the files to choose from, each the set of positions of its newlines
  Faults            \* what may throw: "map", "clean"

Shards == 0 .. NShards - 1
Max2(a, b) == IF a >= b THEN a ELSE b
Min2(a, b) == IF a <= b THEN a ELSE b

-----------------------------------------------------------------------------
(* The geometry of a file. *)

\* The first newline of file at or after p.
NextNewLine(file, p) == CHOOSE n \in file : n >= p /\ \A m \in file : m >= p => n <= m
LastNewLine(file) == CHOOSE n \in file : \A m \in file : m <= n
FileSize(file) == LastNewLine(file) + 1
Lines(file) == {0} \cup {n + 1 : n \in file \ {LastNewLine(file)}}

\* consumeToPreviousNewLineExclusive: back from the reserved bytes to a line start.
EffectiveFileSize(file) ==
  LET before == {n \in file : n + TailReserved < FileSize(file)}
  IN  IF TailReserved = 0 THEN FileSize(file)
      ELSE IF before = {} THEN 0
      ELSE LastNewLine(before) + 1

CommonPoolStart(file) ==
  ((EffectiveFileSize(file) * (100 - CommonPercent)) \div (100 * ChunkSize)) * ChunkSize

ASSUME Sizes ==
  /\ NShards \in Nat \ {0} /\ ChunkSize \in Nat \ {0} /\ CommonChunkSize \in Nat \ {0}
  /\ CommonPercent \in 0 .. 89 /\ MunmapPercent \in Nat
  /\ TailReserved \in Nat /\ BufSize \in Nat /\ Slack \in Nat
  /\ FakeAdvance \in BOOLEAN
  /\ Faults \subseteq {"map", "clean"}

\* A file ends in its last newline, and has no empty first line.
ASSUME FilesAreLines ==
  \A file \in Files : file \subseteq Nat \ {0} /\ \E last \in file : \A n \in file : n <= last

\* A line fits the slack and a chunk with its slack fits a buffer.
ASSUME BuffersLargeEnough ==
  /\ ChunkSize + Slack <= BufSize /\ CommonChunkSize + Slack <= BufSize
  /\ \A file \in Files : \A p \in Lines(file) : NextNewLine(file, p) - p < Slack

-----------------------------------------------------------------------------
VARIABLES
  newlines,         \* the file
  \* SerialLazyShardQueue's constructor, until built = NShards
  built, currentStart, remainingChunks,
  \* perThreadData[16 * shard + 0 .. 4]
  nextChunk, shardEnd, chunksLeft, threshold, mayUnmap,
  commonPool,       \* AtomicLong
  occupied,         \* SeqLock
  \* ByteRange of each shard
  window,           \* bufferStart, bufferEnd
  buffer,           \* byteBuffer: the window it was mapped for, or NoBuffer
  unclosed,         \* unclosedBuffers
  mapped,           \* what the operating system still has mapped for it
  \* the shard's thread
  pc, range, cursor, stop,
  counted           \* its table: how often it has counted each line

ctorVars == <<built, currentStart, remainingChunks, shardEnd, threshold>>
takeVars == <<nextChunk, chunksLeft, commonPool, range>>
lockVars == <<occupied, mayUnmap>>
bufferVars == <<window, buffer, unclosed, mapped>>
lineVars == <<cursor, stop, counted>>
queueVars == <<newlines, ctorVars, takeVars, lockVars, bufferVars, lineVars, pc>>

NoBuffer == <<>>
NoWindow == <<-1, -1>>
eff == EffectiveFileSize(newlines)

Init ==
  /\ newlines \in Files
  /\ built = 0 /\ currentStart = 0
  /\ remainingChunks = CommonPoolStart(newlines) \div ChunkSize
  /\ commonPool = CommonPoolStart(newlines)
  /\ nextChunk = [s \in Shards |-> 0] /\ shardEnd = [s \in Shards |-> 0]
  /\ chunksLeft = [s \in Shards |-> 0] /\ threshold = [s \in Shards |-> 0]
  /\ mayUnmap = [s \in Shards |-> FALSE]
  /\ occupied = FALSE
  /\ window = [s \in Shards |-> NoWindow] /\ buffer = [s \in Shards |-> NoBuffer]
  /\ unclosed = [s \in Shards |-> {}] /\ mapped = [s \in Shards |-> {}]
  /\ pc = [s \in Shards |-> "queued"]
  /\ range = [s \in Shards |-> <<0, 0>>]
  /\ cursor = [s \in Shards |-> 0] /\ stop = [s \in Shards |-> 0]
  /\ counted = [s \in Shards |-> [p \in Lines(newlines) |-> 0]]

\* The constructor hands shard number built its share of the chunks that are left.
ChunksOfRoundedDown(i) == remainingChunks \div NShards  \* mutant: every shard the same share
ChunksOf(i) == (remainingChunks + (NShards - i) - 1) \div (NShards - i)
Distribute ==
  /\ built < NShards
  /\ LET chunks == ChunksOf(built)
     IN  /\ nextChunk' = [nextChunk EXCEPT ![built] = currentStart]
         /\ shardEnd' = [shardEnd EXCEPT ![built] = currentStart + chunks * ChunkSize]
         /\ chunksLeft' = [chunksLeft EXCEPT ![built] = chunks]
         /\ threshold' = [threshold EXCEPT ![built] =
              (chunks * MunmapPercent * (NShards - built)) \div 100]
         /\ mayUnmap' = [mayUnmap EXCEPT ![built] = TRUE]
         /\ currentStart' = currentStart + chunks * ChunkSize
         /\ remainingChunks' = remainingChunks - chunks
  /\ built' = built + 1
  /\ UNCHANGED <<newlines, commonPool, range, occupied, bufferVars, lineVars, pc>>

-----------------------------------------------------------------------------
(* A shard: processShardReal. *)

Goto(s, label) == pc' = [pc EXCEPT ![s] = label]

\* The thread starts; shard 0 has the reserved tail of the file to itself, in a ByteRange
\* of its own that covers it.
TailOfFile(s) ==
  IF s = 0 /\ eff < FileSize(newlines)
  THEN /\ cursor' = [cursor EXCEPT ![s] = IF eff = 0 THEN 0 ELSE NextNewLine(newlines, eff - 1) + 1]
       /\ stop' = [stop EXCEPT ![s] = FileSize(newlines)]
       /\ Goto(s, "tail")
  ELSE Goto(s, "take") /\ UNCHANGED <<cursor, stop>>
Start(s) ==
  /\ built = NShards /\ pc[s] = "queued"
  /\ TailOfFile(s)
  /\ UNCHANGED <<newlines, ctorVars, takeVars, lockVars, bufferVars, counted>>

\* processLineSlow in the tail, processLine elsewhere: count one line, go to the next.
ProcessLine(s) ==
  /\ pc[s] \in {"tail", "lines"} /\ cursor[s] < stop[s]
  /\ counted' = [counted EXCEPT ![s][cursor[s]] = @ + 1]
  /\ cursor' = [cursor EXCEPT ![s] = NextNewLine(newlines, cursor[s]) + 1]
  /\ UNCHANGED <<newlines, ctorVars, takeVars, lockVars, bufferVars, stop, pc>>

EndOfRange(s) ==
  /\ pc[s] \in {"tail", "lines"} /\ cursor[s] >= stop[s]
  /\ Goto(s, "take")
  /\ UNCHANGED <<newlines, ctorVars, takeVars, lockVars, bufferVars, lineVars>>

\* take(): a big chunk of its own, while it has one ...
TakeOwn(s) ==
  /\ pc[s] = "take" /\ chunksLeft[s] >= 1
  /\ range' = [range EXCEPT ![s] = <<nextChunk[s], nextChunk[s] + ChunkSize>>]
  /\ chunksLeft' = [chunksLeft EXCEPT ![s] = @ - 1]
  /\ nextChunk' = [nextChunk EXCEPT ![s] = IF FakeAdvance THEN @ ELSE @ + ChunkSize]
  /\ Goto(s, "taken")
  /\ UNCHANGED <<newlines, ctorVars, commonPool, lockVars, bufferVars, lineVars>>

\* ... then a small one of the common pool, or nothing when that is exhausted too.
TakeCommon(s) ==
  /\ pc[s] = "take" /\ chunksLeft[s] < 1
  /\ commonPool' = commonPool + CommonChunkSize
  /\ IF commonPool >= eff
     THEN Goto(s, "done") /\ UNCHANGED range
     ELSE /\ range' = [range EXCEPT ![s] = <<commonPool, commonPool + CommonChunkSize>>]
          /\ Goto(s, "taken")
  /\ UNCHANGED <<newlines, ctorVars, nextChunk, chunksLeft, lockVars, bufferVars, lineVars>>

\* Few enough of its own chunks left, and not unmapped yet?  acquire() reads the flag ...
TryLock(s) ==
  /\ pc[s] = "taken"
  /\ Goto(s, IF chunksLeft[s] < threshold[s] /\ mayUnmap[s] /\ ~occupied THEN "cas" ELSE "map")
  /\ UNCHANGED <<newlines, ctorVars, takeVars, lockVars, bufferVars, lineVars>>

\* ... and then sets it, unless another shard was faster.
CompareAndSetBlindly(s) ==  \* mutant: set(true)
  /\ pc[s] = "cas"
  /\ occupied' = TRUE
  /\ Goto(s, "clean")
  /\ UNCHANGED <<newlines, ctorVars, takeVars, mayUnmap, bufferVars, lineVars>>
CompareAndSet(s) ==
  /\ pc[s] = "cas"
  /\ IF occupied THEN Goto(s, "map") /\ UNCHANGED occupied
                 ELSE Goto(s, "clean") /\ occupied' = TRUE
  /\ UNCHANGED <<newlines, ctorVars, takeVars, mayUnmap, bufferVars, lineVars>>

\* ByteRange.close: unmaps the buffer and those it replaced.
CloseCurrentOnly(s) ==  \* mutant: forgets the buffers replaced earlier
  /\ mapped' = [mapped EXCEPT ![s] = @ \ {buffer[s]}]
  /\ unclosed' = [unclosed EXCEPT ![s] = {}]
  /\ buffer' = [buffer EXCEPT ![s] = NoBuffer]
  /\ window' = [window EXCEPT ![s] = NoWindow]
CloseKeepingWindow(s) ==  \* mutant: bufferStart and bufferEnd not reset
  /\ mapped' = [mapped EXCEPT ![s] = @ \ (unclosed[s] \cup {buffer[s]})]
  /\ unclosed' = [unclosed EXCEPT ![s] = {}]
  /\ buffer' = [buffer EXCEPT ![s] = NoBuffer]
  /\ UNCHANGED window
Close(s) ==
  /\ mapped' = [mapped EXCEPT ![s] = @ \ (unclosed[s] \cup {buffer[s]})]
  /\ unclosed' = [unclosed EXCEPT ![s] = {}]
  /\ buffer' = [buffer EXCEPT ![s] = NoBuffer]
  /\ window' = [window EXCEPT ![s] = NoWindow]

Clean(s) ==
  /\ pc[s] = "clean"
  /\ Close(s)
  /\ Goto(s, "release")
  /\ UNCHANGED <<newlines, ctorVars, takeVars, lockVars, lineVars>>

\* The reflective call to the buffer's cleaner throws: the lock stays taken.
CleanThrows(s) ==
  /\ "clean" \in Faults /\ pc[s] = "clean" /\ buffer[s] # NoBuffer
  /\ unclosed' = [unclosed EXCEPT ![s] = @ \cup {buffer[s]}]
  /\ Goto(s, "failed")
  /\ UNCHANGED <<newlines, ctorVars, takeVars, lockVars, window, buffer, mapped, lineVars>>

Release(s) ==
  /\ pc[s] = "release"
  /\ occupied' = FALSE
  /\ mayUnmap' = [mayUnmap EXCEPT ![s] = FALSE]
  /\ Goto(s, "map")
  /\ UNCHANGED <<newlines, ctorVars, takeVars, bufferVars, lineVars>>

\* setRange: map a new buffer at the start of the range unless the present one reaches far
\* enough, then move both ends of the range past the newline that follows them.
OutOfWindowNoSlack(s) ==  \* mutant: no room for the line that runs past the range
  range[s][2] > window[s][2] \/ range[s][1] < window[s][1]
OutOfWindow(s) == range[s][2] + Slack > window[s][2] \/ range[s][1] < window[s][1]
NewWindow(s) == <<range[s][1], Min2(range[s][1] + BufSize, FileSize(newlines))>>

LineStartFromIncluded(p) ==  \* mutant: a line that starts at p belongs to this range too
  IF p > 0 THEN NextNewLine(newlines, p - 1) + 1 ELSE 0
LineStartFrom(p) == IF p > 0 THEN NextNewLine(newlines, p) + 1 ELSE 0
LineEndFrom(p) == IF p < eff THEN NextNewLine(newlines, p) + 1 ELSE eff

MapOver(s) ==  \* mutant: the replaced buffer is not kept for close()
  /\ window' = [window EXCEPT ![s] = NewWindow(s)]
  /\ buffer' = [buffer EXCEPT ![s] = NewWindow(s)]
  /\ mapped' = [mapped EXCEPT ![s] = @ \cup {NewWindow(s)}]
  /\ UNCHANGED unclosed
Map(s) ==
  /\ unclosed' = [unclosed EXCEPT ![s] = (@ \cup {buffer[s]}) \ {NoBuffer}]
  /\ window' = [window EXCEPT ![s] = NewWindow(s)]
  /\ buffer' = [buffer EXCEPT ![s] = NewWindow(s)]
  /\ mapped' = [mapped EXCEPT ![s] = @ \cup {NewWindow(s)}]

SetRange(s) ==
  /\ pc[s] = "map"
  /\ IF OutOfWindow(s) THEN Map(s) ELSE UNCHANGED bufferVars
  /\ cursor' = [cursor EXCEPT ![s] = LineStartFrom(range[s][1])]
  /\ stop' = [stop EXCEPT ![s] = LineEndFrom(range[s][2])]
  /\ Goto(s, "lines")
  /\ UNCHANGED <<newlines, ctorVars, takeVars, lockVars, counted>>

\* FileChannel.map throws, after the fields of the new window are set.
MapThrows(s) ==
  /\ "map" \in Faults /\ pc[s] = "map" /\ OutOfWindow(s)
  /\ unclosed' = [unclosed EXCEPT ![s] = (@ \cup {buffer[s]}) \ {NoBuffer}]
  /\ window' = [window EXCEPT ![s] = NewWindow(s)]
  /\ Goto(s, "failed")
  /\ UNCHANGED <<newlines, ctorVars, takeVars, lockVars, buffer, mapped, lineVars>>

ShardStep(s) ==
  \/ ProcessLine(s) \/ EndOfRange(s) \/ TakeOwn(s) \/ TakeCommon(s)
  \/ TryLock(s) \/ CompareAndSet(s) \/ Clean(s) \/ CleanThrows(s) \/ Release(s)
  \/ SetRange(s) \/ MapThrows(s)

IsDone(s) == pc[s] \in {"done", "failed"}  \* Future.isDone

\* The ending cleaner, when the shard's future is done.
EndingCleanEarly(s) ==  \* mutant: shards that have started are not waited for
  /\ pc[s] # "queued"
  /\ Close(s)
  /\ UNCHANGED <<newlines, ctorVars, takeVars, lockVars, lineVars, pc>>
EndingClean(s) ==
  /\ IsDone(s)
  /\ Close(s)
  /\ UNCHANGED <<newlines, ctorVars, takeVars, lockVars, lineVars, pc>>

Next == Distribute \/ \E s \in Shards : Start(s) \/ ShardStep(s) \/ EndingClean(s)

Spec == Init /\ [][Next]_queueVars

-----------------------------------------------------------------------------
\* No line is counted twice, by one shard or by two, although every chunk boundary may fall
\* inside a line and both of its neighbours move it (setRange, take).
NoLineTwice ==
  \A p \in Lines(newlines), s, t \in Shards :
    counted[s][p] > 0 => counted[s][p] = 1 /\ (counted[t][p] > 0 => s = t)

\* When all shards are done without an exception, every line has been counted: the own chunks,
\* the common pool and the tail leave no gap (processShardReal).
NoLineLost ==
  (built = NShards /\ \A s \in Shards : pc[s] = "done") =>
    \A p \in Lines(newlines) : \E s \in Shards : counted[s][p] > 0

\* While a shard reads lines its buffer is mapped and holds all that is left of its range:
\* neither cleaner unmaps a buffer in use, and the slack covers the line cut by the range's end.
ReadsMappedBytes ==
  \A s \in Shards : pc[s] = "lines" =>
    /\ buffer[s] = window[s] /\ buffer[s] \in mapped[s]
    /\ window[s][1] <= cursor[s]
    /\ cursor[s] <= window[s][2] /\ stop[s] <= window[s][2]

\* SeqLock: shards unmap one at a time (munmap serialises in the kernel; class comment, [munmap]).
OneCleaner ==
  \A s, t \in Shards : pc[s] \in {"clean", "release"} /\ pc[t] \in {"clean", "release"} => s = t

\* Whatever is mapped for a shard is reachable by the next close: nothing leaks until exit.
NothingLeaked == \A s \in Shards : mapped[s] \subseteq unclosed[s] \cup {buffer[s]}
================================================================================
