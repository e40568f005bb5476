------------------------------ MODULE BellmanFord ------------------------------
(***************************************************************************)
(* cuda_bellmanford/bf.cu: shortest distances from vertex 0 by repeated    *)
(* relaxation of every edge on a GPU.  The host launches one kernel after  *)
(* another until a kernel changes nothing; the lanes of a kernel run       *)
(* concurrently, meet only at g.sync(), and share two arrays, best and     *)
(* newBest.  A plain load may return any value the cell held since the     *)
(* last synchronisation of all lanes; atomicMin always sees the newest.    *)
(*                                                                         *)
(* Distances are floats.  They are sums of costs, so integers stand for    *)
(* them, in units of 1/CostUnit; 1e19 plus a cost is 1e19 again.           *)
(***************************************************************************)
EXTENDS Integers, Sequences, FiniteSetsExt, Functions

CONSTANTS
  VertexCount,     \* BfConfig.vertices
  EdgeCount,       \* BfConfig.edges: random edges, beside those of the line
  Costs,           \* costs curand may draw: positive
  CostUnit,        \* how many units make 1.0
  ItersPerBatch,   \* BfConfig.itersPerBatch
  LaneCount,       \* blockSize * blockCount, the lanes of a cooperative launch
  Algorithms       \* values of BfConfig.algo to run

ASSUME BfAssumption ==
  /\ VertexCount \in Nat \ {0} /\ EdgeCount \in Nat
  /\ Costs \subseteq Nat \ {0} /\ IsFiniteSet(Costs) /\ CostUnit \in Nat \ {0}
  /\ ItersPerBatch \in Nat \ {0} /\ LaneCount \in Nat \ {0}
  /\ Algorithms \subseteq {"scattered", "newBest_one", "newBest_batch"}

Vertex == 0 .. VertexCount - 1
Edge == [u : Vertex, v : Vertex, c : Costs \cup {0}]

\* 1e19: above every sum of costs along a walk the program can add up.
Infinite == 1000
Distance == 0 .. Infinite
Plus(d, c) == IF d + c >= Infinite THEN Infinite ELSE d + c
Lesser(a, b) == IF a < b THEN a ELSE b

VARIABLES
  algo, edges,     \* BfConfig.algo; U, V and C, one record per edge, sorted by v
  best, newBest,   \* the two arrays of distances
  held,            \* values each cell lanes write with atomicMin held since the last synchronisation
  lane,            \* each lane's position: pc, its edge or vertex j, i (iterations ended), cand
  host, sum, doneIters

vars == <<algo, edges, best, newBest, held, lane, host, sum, doneIters>>

Iters == IF algo = "newBest_one" THEN 1 ELSE ItersPerBatch

\* A lane per edge, or the fixed number of lanes of a cooperative launch.
Lanes == IF algo = "newBest_batch" THEN 1 .. LaneCount ELSE 1 .. Len(edges)
Stride == Cardinality(Lanes)

\* The array that atomicMin writes.
Target == IF algo = "scattered" THEN best ELSE newBest

\* Lane l works through l, l + Stride, ... up to limit, and is then at end.
AtWork(pc, j, limit, end, i) == [pc |-> IF j <= limit THEN pc ELSE end, j |-> j, i |-> i, cand |-> Infinite]
AfterRelaxing == IF algo = "newBest_batch" THEN "relaxed" ELSE "exit"
Relaxing(j, i) == AtWork("relax", j, Len(edges), AfterRelaxing, i)
Copying(j, i) == AtWork("copy", j, VertexCount, "copied", i)

\* What follows an edge: the next one, or in scattered the same one again.
Advance(l) ==
  IF algo = "scattered"
  THEN IF lane[l].i + 1 < Iters THEN Relaxing(lane[l].j, lane[l].i + 1)
       ELSE [lane[l] EXCEPT !.pc = "exit", !.i = @ + 1, !.cand = Infinite]
  ELSE Relaxing(lane[l].j + Stride, lane[l].i)

\* generateGraph: random edges and a line of cost 0 through all vertices, then
\* thrust::sort_by_key by target, which leaves open how edges with one target follow.
Line == [n \in 1 .. VertexCount - 1 |-> [u |-> n - 1, v |-> n, c |-> 0]]
SortedByTarget(all) ==
  {sorted \in {[n \in DOMAIN all |-> all[p[n]]] : p \in Bijection(DOMAIN all, DOMAIN all)} :
     \A m, n \in DOMAIN all : m < n => sorted[m].v <= sorted[n].v}
Graphs == UNION {SortedByTarget(random \o Line) :
                   random \in [1 .. EdgeCount -> [u : Vertex, v : Vertex, c : Costs]]}

Init ==
  /\ algo \in Algorithms
  /\ edges \in Graphs
  /\ best = [v \in Vertex |-> IF v = 0 THEN 0 ELSE Infinite]
  /\ newBest = best
  /\ held = [v \in Vertex |-> {}]
  /\ lane = <<>>
  /\ host = "launch" /\ sum = 0 /\ doneIters = 0
--------------------------------------------------------------------------------
\* thrust::reduce(best.begin(), best.end(), 0): the initial value makes the sum
\* an int, so that each distance is truncated before it is added; 1e19 becomes
\* the largest int.  IntModulus stands for 2^32.
IntModulus == 16
Truncated(d) == IF d = Infinite THEN IntModulus \div 2 - 1 ELSE d \div CostUnit
Reduced == MapThenSumSet(LAMBDA v : Truncated(best[v]), Vertex) % IntModulus

\* The host launches a kernel; what earlier kernels wrote is visible to it.
Launch ==
  /\ host = "launch"
  /\ host' = "kernel"
  /\ sum' = IF algo = "scattered" THEN Reduced ELSE 0
  /\ lane' = [l \in Lanes |-> Relaxing(l, 0)]
  /\ held' = [v \in Vertex |-> {Target[v]}]
  /\ UNCHANGED <<algo, edges, best, newBest, doneIters>>

\* cand = best[u] + c; if (cand < newBest[v]): no lane writes best meanwhile,
\* but newBest[v] is a plain load beside the others' atomicMin.
CandidateReturns(l) ==  \* mutant: a lane that cannot improve newBest[v] leaves the kernel
  LET e == edges[lane[l].j]
      cand == Plus(best[e.u], e.c)
  IN /\ host = "kernel" /\ algo # "scattered"
     /\ lane[l].pc = "relax"
     /\ \E seen \in held[e.v] :
          lane' = [lane EXCEPT ![l] = IF cand < seen THEN [@ EXCEPT !.pc = "min", !.cand = cand]
                                                     ELSE [@ EXCEPT !.pc = "exit"]]
     /\ UNCHANGED <<algo, edges, best, newBest, held, host, sum, doneIters>>
Candidate(l) ==
  LET e == edges[lane[l].j]
      cand == Plus(best[e.u], e.c)
  IN /\ host = "kernel" /\ algo # "scattered"
     /\ lane[l].pc = "relax"
     /\ \E seen \in held[e.v] :
          lane' = [lane EXCEPT ![l] = IF cand < seen THEN [@ EXCEPT !.pc = "min", !.cand = cand]
                                                     ELSE Advance(l)]
     /\ UNCHANGED <<algo, edges, best, newBest, held, host, sum, doneIters>>

\* batchIterations_scatteredWrites: best[u] itself is what other lanes write.
ScatteredCandidate(l) ==
  LET e == edges[lane[l].j]
  IN /\ host = "kernel" /\ algo = "scattered"
     /\ lane[l].pc = "relax"
     /\ \E seen \in held[e.u] :
          lane' = [lane EXCEPT ![l] = [@ EXCEPT !.pc = "min", !.cand = Plus(seen, e.c)]]
     /\ UNCHANGED <<algo, edges, best, newBest, held, host, sum, doneIters>>

\* atomicMin(array + v, cand): on the bits of two floats that are not negative.
AtomicMin(l) ==
  LET v == edges[lane[l].j].v
      value == Lesser(Target[v], lane[l].cand)
  IN /\ host = "kernel"
     /\ lane[l].pc = "min"
     /\ IF algo = "scattered" THEN best' = [best EXCEPT ![v] = value] /\ UNCHANGED newBest
                              ELSE newBest' = [newBest EXCEPT ![v] = value] /\ UNCHANGED best
     /\ held' = [held EXCEPT ![v] = @ \cup {value}]
     /\ lane' = [lane EXCEPT ![l] = Advance(l)]
     /\ UNCHANGED <<algo, edges, host, sum, doneIters>>

\* The first g.sync(): newBest is complete; before another iteration, best follows it.
SyncRelaxedAlone ==  \* mutant: no g.sync() before the copy
  /\ host = "kernel" /\ algo = "newBest_batch"
  /\ \E l \in Lanes :
       /\ lane[l].pc = "relaxed"
       /\ lane' = [lane EXCEPT ![l] = IF @.i < Iters - 1 THEN Copying(l, @.i) ELSE [@ EXCEPT !.pc = "copied"]]
  /\ UNCHANGED <<algo, edges, best, newBest, held, host, sum, doneIters>>
SyncRelaxedCopiesAlways ==  \* mutant: best follows newBest after the last iteration too
  /\ host = "kernel" /\ algo = "newBest_batch"
  /\ \A l \in Lanes : lane[l].pc = "relaxed"
  /\ lane' = [l \in Lanes |-> Copying(l, lane[l].i)]
  /\ held' = [v \in Vertex |-> {newBest[v]}]
  /\ UNCHANGED <<algo, edges, best, newBest, host, sum, doneIters>>
SyncRelaxed ==
  /\ host = "kernel" /\ algo = "newBest_batch"
  /\ \A l \in Lanes : lane[l].pc = "relaxed"
  /\ lane' = [l \in Lanes |-> IF lane[l].i < Iters - 1 THEN Copying(l, lane[l].i)
                                                     ELSE [lane[l] EXCEPT !.pc = "copied"]]
  /\ held' = [v \in Vertex |-> {newBest[v]}]
  /\ UNCHANGED <<algo, edges, best, newBest, host, sum, doneIters>>

\* best[j] = newBest[j]
Copy(l) ==
  /\ host = "kernel"
  /\ lane[l].pc = "copy"
  /\ best' = [best EXCEPT ![lane[l].j - 1] = newBest[lane[l].j - 1]]
  /\ lane' = [lane EXCEPT ![l] = Copying(lane[l].j + Stride, lane[l].i)]
  /\ UNCHANGED <<algo, edges, newBest, held, host, sum, doneIters>>

\* The second g.sync(), which ends an iteration.
SyncCopied ==
  /\ host = "kernel" /\ algo = "newBest_batch"
  /\ \A l \in Lanes : lane[l].pc = "copied"
  /\ lane' = [l \in Lanes |-> IF lane[l].i + 1 < Iters THEN Relaxing(l, lane[l].i + 1)
                                                     ELSE [lane[l] EXCEPT !.pc = "exit", !.i = @ + 1]]
  /\ UNCHANGED <<algo, edges, best, newBest, held, host, sum, doneIters>>

\* The kernel has ended: did it change anything?
Collect ==
  /\ host = "kernel"
  /\ \A l \in Lanes : lane[l].pc = "exit"
  /\ LET anyChanged == IF algo = "scattered" THEN sum # Reduced ELSE newBest # best
     IN host' = IF anyChanged THEN "launch" ELSE "done"
  /\ best' = IF algo = "scattered" THEN best ELSE newBest
  /\ doneIters' = doneIters + Iters
  /\ lane' = <<>> /\ held' = [v \in Vertex |-> {}]
  /\ UNCHANGED <<algo, edges, newBest, sum>>

LaneStep(l) == Candidate(l) \/ ScatteredCandidate(l) \/ AtomicMin(l) \/ Copy(l)
Next == Launch \/ (\E l \in Lanes : host = "kernel" /\ LaneStep(l)) \/ SyncRelaxed \/ SyncCopied \/ Collect

\* Every lane of a launch is resident (a cooperative launch fails otherwise), so
\* some lane always runs on; doMain's loop waits for the kernel.
Spec == Init /\ [][Next]_vars /\ WF_vars(Next)
--------------------------------------------------------------------------------
\* The definition of Bellman-Ford: Shortest[k][v] is the cost of the cheapest
\* walk of at most k edges from 0 to v.
Into(v) == {n \in DOMAIN edges : edges[n].v = v}
Shortest[k \in Nat] ==
  IF k = 0 THEN [v \in Vertex |-> IF v = 0 THEN 0 ELSE Infinite]
  ELSE LET shorter == Shortest[k - 1]
       IN [v \in Vertex |-> Min({shorter[v]} \cup {Plus(shorter[edges[n].u], edges[n].c) : n \in Into(v)})]

\* The comment over batchIterations_newBest (bf.cu:106-108): lanes relax from
\* the distances of the prior iteration and from nothing newer; a kernel leaves
\* the last iteration in newBest and the one before in best.
BestIsPriorIteration ==
  algo # "scattered" =>
    /\ host # "kernel" => best = Shortest[doneIters] /\ newBest = best
    /\ host = "kernel" => \A l \in Lanes :
         lane[l].pc \in {"relax", "min"} => best = Shortest[doneIters + lane[l].i]
    /\ host = "kernel" /\ algo = "newBest_batch" /\ (\A l \in Lanes : lane[l].pc = "exit") =>
         best = Shortest[doneIters + Iters - 1] /\ newBest = Shortest[doneIters + Iters]

\* results/bf_results.md:8-10: the distances are all 0, and the line forces one
\* iteration per vertex: the loop ends with the first batch whose last iteration
\* changed nothing, neither earlier (a batch that pauses) nor later.
StopsWhenSolved ==
  host = "done" /\ algo # "scattered" =>
    /\ best = [v \in Vertex |-> 0]
    /\ doneIters = ((VertexCount + Iters - 1) \div Iters) * Iters

\* The loop of doMain ends: distances only go down, and an int sum that repeats ends scattered.
Terminates == <>(host = "done")
================================================================================
