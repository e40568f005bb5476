-------------------------- MODULE BellmanFord_proofs ---------------------------
(***************************************************************************)
(* For every graph, number of lanes and length of a batch, the kernel      *)
(* batchIterations_newBest computes whole iterations of Bellman-Ford and   *)
(* the loop of doMain stops with the first batch that reaches the solution. *)
(*                                                                         *)
(* The argument about lanes: while they relax, newBest[v] is best[v] or a  *)
(* candidate of one of v's edges, and no greater than the candidates of    *)
(* the edges that lanes have done.  A guard that reads an old newBest[v]   *)
(* reads a greater one, so what it turns away is no improvement.  When all *)
(* lanes have come to the first g.sync(), all edges are done, since each   *)
(* is some lane's turn, and newBest is the next iteration.                 *)
(*                                                                         *)
(* The argument about the loop: edges of no cost are those of the line,    *)
(* so k iterations bring the distance 0 to the vertices 0 .. k and to no   *)
(* other.  An iteration changes nothing exactly when all are reached.      *)
(***************************************************************************)
EXTENDS BellmanFord, NumberLemmas, SequenceTheorems

UsesNewBest == algo # "scattered"

\* The edges or vertices, numbered from 1, that lane l works through.
Turn(l, n) == \E q \in Nat : n = l + q * Stride

\* What relaxing edge n offers its target.
Offer(n) == Plus(best[edges[n].u], edges[n].c)

\* generateGraph: what the loop makes of the line.
GraphOK ==
  /\ edges \in Seq(Edge)
  /\ \A v \in 1 .. VertexCount - 1 : \E n \in DOMAIN edges : edges[n] = [u |-> v - 1, v |-> v, c |-> 0]
  /\ \A n \in DOMAIN edges : edges[n].c = 0 => edges[n].v = edges[n].u + 1

Relaxes(l) ==
  /\ lane[l].pc \in {"relax", "min"} => lane[l].j \in DOMAIN edges /\ Turn(l, lane[l].j)
  /\ lane[l].pc = "min" => lane[l].cand = Offer(lane[l].j)
  /\ \A n \in DOMAIN edges :
       Turn(l, n) /\ (lane[l].pc = AfterRelaxing \/ n < lane[l].j) => newBest[edges[n].v] <= Offer(n)

\* Between the launch or a second g.sync() and the first one that follows.
RelaxPhase(i) ==
  /\ \A l \in Lanes : /\ lane[l].i = i /\ lane[l].pc \in {"relax", "min", AfterRelaxing}
                      /\ Relaxes(l)
  /\ best = Shortest[doneIters + i]
  /\ \A v \in Vertex :
       /\ newBest[v] <= best[v]
       /\ newBest[v] = best[v] \/ \E n \in Into(v) : newBest[v] = Offer(n)
       /\ \A seen \in held[v] : newBest[v] <= seen

Copies(l) ==
  /\ lane[l].pc = "copy" => lane[l].j \in 1 .. VertexCount /\ Turn(l, lane[l].j)
  /\ \A n \in 1 .. VertexCount :
       Turn(l, n) /\ (lane[l].pc = "copied" \/ n < lane[l].j) => best[n - 1] = newBest[n - 1]

\* Between the two barriers of an iteration.
CopyPhase(i) ==
  /\ algo = "newBest_batch"
  /\ \A l \in Lanes : /\ lane[l].i = i /\ lane[l].pc \in {"copy", "copied"}
                      /\ IF i < Iters - 1 THEN Copies(l) ELSE lane[l].pc = "copied"
  /\ newBest = Shortest[doneIters + i + 1]
  /\ i = Iters - 1 => best = Shortest[doneIters + i]
  /\ \A v \in Vertex : held[v] = {newBest[v]}

ExitPhase ==
  /\ algo = "newBest_batch"
  /\ \A l \in Lanes : lane[l].pc = "exit"
  /\ best = Shortest[doneIters + Iters - 1] /\ newBest = Shortest[doneIters + Iters]

Position ==
  [pc : {"relax", "min", "relaxed", "copy", "copied", "exit"}, j : Nat, i : Nat, cand : Distance]

HostInv ==
  /\ host \in {"launch", "kernel", "done"}
  /\ doneIters \in Nat /\ \E batches \in Nat : doneIters = batches * Iters
  /\ host # "kernel" => best = Shortest[doneIters] /\ newBest = best
  /\ host # "done" => doneIters < VertexCount
  /\ host = "done" => VertexCount <= doneIters /\ doneIters < VertexCount + Iters

Inv ==
  /\ algo \in Algorithms /\ GraphOK
  /\ UsesNewBest =>
       /\ HostInv
       /\ best \in [Vertex -> Distance] /\ newBest \in [Vertex -> Distance]
       /\ host = "kernel" =>
            /\ lane \in [Lanes -> Position] /\ held \in [Vertex -> SUBSET Distance]
            /\ (\E i \in 0 .. Iters - 1 : RelaxPhase(i) \/ CopyPhase(i)) \/ ExitPhase

--------------------------------------------------------------------------------
(* The graph *)

\* The constants are what the arithmetic below needs.
LEMMA Constants ==
  /\ VertexCount \in Nat \ {0} /\ EdgeCount \in Nat /\ Costs \subseteq Nat \ {0}
  /\ ItersPerBatch \in Nat \ {0} /\ LaneCount \in Nat \ {0}
  /\ Algorithms \subseteq {"scattered", "newBest_one", "newBest_batch"}
  BY BfAssumption

\* A set of numbers has its minimum.
LEMMA MinOf ==
  ASSUME NEW S, S \subseteq Nat, S # {}
  PROVE  Min(S) \in S /\ \A x \in S : Min(S) <= x
<1>1. \E x \in S : \A y \in S : x <= y  BY LeastNumber
<1> QED BY <1>1 DEF Min

\* Sorting keeps the edges: those of the line, and random ones that cost something.
LEMMA GraphsOK ==
  ASSUME edges \in Graphs
  PROVE  GraphOK
<1>1. PICK random \in [1 .. EdgeCount -> [u : Vertex, v : Vertex, c : Costs]] :
        edges \in SortedByTarget(random \o Line)
  BY DEF Graphs
<1> DEFINE all == random \o Line
           Both == 1 .. EdgeCount + (VertexCount - 1)
<1>2. random \in Seq(Edge) /\ Len(random) = EdgeCount
  <2>1. \A n \in 1 .. EdgeCount : random[n] \in Edge  BY Constants DEF Edge
  <2>2. random = [n \in 1 .. EdgeCount |-> random[n]]  OBVIOUS
  <2> QED BY <2>1, <2>2, Constants, IsASeq, LenProperties
<1>3. Line \in Seq(Edge) /\ Len(Line) = VertexCount - 1
  <2>0. VertexCount - 1 \in Nat  BY Constants
  <2>1. \A n \in 1 .. VertexCount - 1 : [u |-> n - 1, v |-> n, c |-> 0] \in Edge
    BY Constants DEF Edge, Vertex
  <2>2. Line \in Seq(Edge)  BY <2>0, <2>1, IsASeq DEF Line
  <2>3. DOMAIN Line = 1 .. VertexCount - 1  BY DEF Line
  <2> QED BY <2>0, <2>2, <2>3, LenProperties
<1>4. /\ all \in Seq(Edge) /\ DOMAIN all = Both
      /\ \A n \in Both : all[n] = IF n <= EdgeCount THEN random[n] ELSE Line[n - EdgeCount]
  <2>1. /\ all \in Seq(Edge) /\ Len(all) = EdgeCount + (VertexCount - 1)
        /\ \A n \in 1 .. Len(all) : all[n] = IF n <= EdgeCount THEN random[n] ELSE Line[n - EdgeCount]
    <3>1. random \in Seq(Edge) /\ Line \in Seq(Edge)  BY <1>2, <1>3
    <3>2. /\ all \in Seq(Edge) /\ Len(all) = Len(random) + Len(Line)
          /\ \A n \in 1 .. Len(random) + Len(Line) :
               all[n] = IF n <= Len(random) THEN random[n] ELSE Line[n - Len(random)]
      BY <3>1, ConcatProperties, ZenonT(30)
    <3> HIDE DEF all
    <3> QED BY <1>2, <1>3, <3>2
  <2> QED BY <2>1, LenProperties
<1> HIDE DEF all
<1>5. PICK p \in Bijection(Both, Both) : edges = [n \in Both |-> all[p[n]]]
  BY <1>1, <1>4 DEF SortedByTarget, all
<1>6. p \in [Both -> Both] /\ \A m \in Both : \E n \in Both : p[n] = m
  BY DEF Bijection, Surjection, Injection
<1>7. edges \in Seq(Edge) /\ DOMAIN edges = Both /\ \A n \in Both : edges[n] = all[p[n]]
  <2>1. \A n \in Both : all[p[n]] \in Edge  BY <1>4, <1>6, ElementOfSeq, LenProperties
  <2>2. EdgeCount + (VertexCount - 1) \in Nat  BY Constants
  <2> QED BY <1>5, <2>1, <2>2, IsASeq
<1>8. \A v \in 1 .. VertexCount - 1 : \E n \in DOMAIN edges : edges[n] = [u |-> v - 1, v |-> v, c |-> 0]
  <2> TAKE v \in 1 .. VertexCount - 1
  <2>1. EdgeCount + v \in Both /\ all[EdgeCount + v] = Line[v]  BY <1>4, Constants
  <2>2. PICK n \in Both : p[n] = EdgeCount + v  BY <1>6, <2>1
  <2> QED BY <1>7, <2>1, <2>2 DEF Line
<1>9. \A n \in DOMAIN edges : edges[n].c = 0 => edges[n].v = edges[n].u + 1
  <2> SUFFICES ASSUME NEW n \in Both, all[p[n]].c = 0 PROVE all[p[n]].v = all[p[n]].u + 1
    BY <1>7
  <2>1. PICK m \in Both : m = p[n]  BY <1>6
  <2>2. CASE m <= EdgeCount
    <3>1. m \in 1 .. EdgeCount /\ all[m] = random[m]  BY <1>4, <2>2, Constants
    <3>2. random[m].c \in Costs  BY <3>1
    <3> QED BY <2>1, <3>1, <3>2, Constants
  <2>3. CASE ~(m <= EdgeCount)
    <3>1. m - EdgeCount \in 1 .. VertexCount - 1 /\ all[m] = Line[m - EdgeCount]
      BY <1>4, <2>3, Constants
    <3>2. Line[m - EdgeCount] = [u |-> (m - EdgeCount) - 1, v |-> m - EdgeCount, c |-> 0]
      BY <3>1 DEF Line
    <3> QED BY <2>1, <3>1, <3>2
  <2> QED BY <2>2, <2>3
<1> QED BY <1>7, <1>8, <1>9 DEF GraphOK

\* Ends and costs of edges, and what an edge can offer.
LEMMA EdgeType ==
  ASSUME GraphOK, NEW n \in DOMAIN edges
  PROVE  edges[n].u \in Vertex /\ edges[n].v \in Vertex /\ edges[n].c \in Nat
<1>1. edges[n] \in Edge  BY ElementOfSeq, LenProperties DEF GraphOK
<1>2. edges[n].u \in Vertex /\ edges[n].v \in Vertex /\ edges[n].c \in Costs \cup {0}  BY <1>1 DEF Edge
<1>3. \A c \in Costs \cup {0} : c \in Nat  BY Constants
<1> QED BY <1>2, <1>3

LEMMA PlusType ==
  ASSUME NEW d \in Distance, NEW c \in Nat
  PROVE  Plus(d, c) \in Distance /\ (Plus(d, c) = 0 <=> d = 0 /\ c = 0)
BY DEF Plus, Distance, Infinite

--------------------------------------------------------------------------------
(* Bellman-Ford *)

\* Next is what an iteration makes of the distances d.
Follows(d, next) ==
  \A v \in Vertex :
    /\ next[v] <= d[v]
    /\ next[v] = d[v] \/ \E n \in Into(v) : next[v] = Plus(d[edges[n].u], edges[n].c)
    /\ \A n \in Into(v) : next[v] <= Plus(d[edges[n].u], edges[n].c)

\* There is only one such thing.
LEMMA FollowsUnique ==
  ASSUME GraphOK, NEW d \in [Vertex -> Distance], NEW a \in [Vertex -> Distance],
         NEW b \in [Vertex -> Distance], Follows(d, a), Follows(d, b)
  PROVE  a = b
<1>1. \A v \in Vertex : a[v] <= b[v] /\ b[v] <= a[v]  BY DEF Follows
<1>2. \A v \in Vertex : a[v] \in Int /\ b[v] \in Int
  <2>1. \A x \in Distance : x \in Int  BY DEF Distance
  <2> QED BY <2>1
<1> QED BY <1>1, <1>2

\* The recursion by which Shortest is defined has a solution.
LEMMA ShortestIs ==
  ASSUME GraphOK
  PROVE  /\ Shortest \in [Nat -> [Vertex -> Distance]]
         /\ Shortest[0] = [v \in Vertex |-> IF v = 0 THEN 0 ELSE Infinite]
         /\ \A k \in Nat : Follows(Shortest[k], Shortest[k + 1])
<1> DEFINE D == [Vertex -> Distance]
           offers(d, v) == {d[v]} \cup {Plus(d[edges[n].u], edges[n].c) : n \in Into(v)}
           relaxed(d) == [v \in Vertex |-> Min(offers(d, v))]
           start == [v \in Vertex |-> IF v = 0 THEN 0 ELSE Infinite]
           step == [d \in D |-> relaxed(d)]
           is(f) == f = [k \in Nat |-> IF k = 0 THEN start ELSE relaxed(f[k - 1])]
<1>1. start \in D  BY DEF Distance, Infinite
<1>2. \A d \in D : \A v \in Vertex : Min(offers(d, v)) \in offers(d, v)
                                     /\ \A x \in offers(d, v) : Min(offers(d, v)) <= x
  <2> TAKE d \in D
  <2> TAKE v \in Vertex
  <2>1. \A n \in Into(v) : Plus(d[edges[n].u], edges[n].c) \in Distance
    BY EdgeType, PlusType DEF Into
  <2>2. offers(d, v) \subseteq Distance /\ offers(d, v) # {}  BY <2>1
  <2>3. offers(d, v) \subseteq Nat  BY <2>2 DEF Distance, Infinite
  <2> HIDE DEF offers
  <2> QED BY <2>2, <2>3, MinOf
<1>3. \A d \in D : relaxed(d) \in D
  <2> SUFFICES ASSUME NEW d \in D, NEW v \in Vertex PROVE Min(offers(d, v)) \in Distance  OBVIOUS
  <2>1. \A n \in Into(v) : Plus(d[edges[n].u], edges[n].c) \in Distance
    BY EdgeType, PlusType DEF Into
  <2>2. offers(d, v) \subseteq Distance  BY <2>1
  <2> HIDE DEF offers
  <2> QED BY <1>2, <2>2
<1>4. \A d \in D : Follows(d, relaxed(d))
  <2> SUFFICES ASSUME NEW d \in D, NEW v \in Vertex, NEW m, m = relaxed(d)[v]
      PROVE  /\ m <= d[v]
             /\ m = d[v] \/ \E n \in Into(v) : m = Plus(d[edges[n].u], edges[n].c)
             /\ \A n \in Into(v) : m <= Plus(d[edges[n].u], edges[n].c)
    BY DEF Follows
  <2>1. m = Min(offers(d, v))  OBVIOUS
  <2>2. m \in offers(d, v) /\ \A x \in offers(d, v) : m <= x  BY <1>2, <2>1
  <2> HIDE DEF relaxed
  <2> QED BY <2>2
<1> HIDE DEF relaxed, start
<1>5. \E f : is(f)
  <2>1. step \in [D -> D]  BY <1>3
  <2>2. PICK f \in [Nat -> D] : f[0] = start /\ \A n \in Nat : f[n + 1] = step[f[n]]
    <3> HIDE DEF step, D
    <3> QED BY <1>1, <2>1, Iteration
  <2>3. \A k \in Nat : k # 0 => f[k] = relaxed(f[k - 1])
    <3> SUFFICES ASSUME NEW k \in Nat, k # 0 PROVE f[k] = relaxed(f[k - 1])  OBVIOUS
    <3>1. k - 1 \in Nat /\ (k - 1) + 1 = k  OBVIOUS
    <3>2. f[k] = step[f[k - 1]]  BY <2>2, <3>1
    <3> QED BY <2>2, <3>1, <3>2
  <2>4. \A k \in Nat : f[k] = IF k = 0 THEN start ELSE relaxed(f[k - 1])  BY <2>2, <2>3
  <2> QED BY <2>4
<1>6. is(Shortest)
  <2>1. Shortest = CHOOSE f : is(f)  BY DEF Shortest, relaxed, start
  <2> HIDE DEF is
  <2> QED BY <1>5, <2>1
<1>7. Shortest[0] = start /\ \A k \in Nat : Shortest[k + 1] = relaxed(Shortest[k])
  <2>1. \A k \in Nat : Shortest[k] = IF k = 0 THEN start ELSE relaxed(Shortest[k - 1])
    BY <1>6
  <2>2. \A k \in Nat : k + 1 \in Nat /\ k + 1 # 0 /\ (k + 1) - 1 = k  OBVIOUS
  <2> HIDE DEF is
  <2> QED BY <2>1, <2>2
<1>8. \A k \in Nat : Shortest[k] \in D
  <2> DEFINE P == {k \in Nat : Shortest[k] \in D}
  <2>1. 0 \in P  BY <1>1, <1>7
  <2>2. \A k \in Nat : k \in P => k + 1 \in P  BY <1>3, <1>7
  <2> HIDE DEF P
  <2>3. Nat \subseteq P  BY <2>1, <2>2, Induction
  <2> QED BY <2>3 DEF P
<1>9. Shortest \in [Nat -> D]  BY <1>6, <1>8
<1>10. \A k \in Nat : Follows(Shortest[k], Shortest[k + 1])
  <2> HIDE DEF D
  <2> QED BY <1>4, <1>7, <1>8
<1> QED BY <1>7, <1>9, <1>10 DEF start

\* After k iterations the vertices at distance 0 are those up to k.
LEMMA Zeroes ==
  ASSUME GraphOK
  PROVE  \A k \in Nat : \A v \in Vertex : Shortest[k][v] = 0 <=> v <= k
<1> DEFINE P == {k \in Nat : \A v \in Vertex : Shortest[k][v] = 0 <=> v <= k}
<1>0. \A v \in Vertex : v \in Nat  BY Constants DEF Vertex
<1>1. 0 \in P
  <2>1. \A v \in Vertex : Shortest[0][v] = IF v = 0 THEN 0 ELSE Infinite  BY ShortestIs
  <2> QED BY <1>0, <2>1 DEF Infinite
<1>2. \A k \in Nat : k \in P => k + 1 \in P
  <2> SUFFICES ASSUME NEW k \in Nat, k \in P, NEW v \in Vertex
      PROVE  Shortest[k + 1][v] = 0 <=> v <= k + 1
    OBVIOUS
  <2>1. PICK d, e : d = Shortest[k] /\ e = Shortest[k + 1]  OBVIOUS
  <2>2. d \in [Vertex -> Distance] /\ e \in [Vertex -> Distance] /\ Follows(d, e)  BY <2>1, ShortestIs
  <2>3. \A w \in Vertex : d[w] = 0 <=> w <= k  BY <2>1
  <2>4. \A x \in Distance : x \in Int /\ x >= 0  BY DEF Distance
  <2>5. ASSUME e[v] = 0 PROVE v <= k + 1
    <3>1. CASE e[v] = d[v]
      <4>1. d[v] = 0  BY <2>5, <3>1
      <4>2. v <= k /\ v \in Nat  BY <1>0, <2>3, <4>1
      <4> HIDE DEF P
      <4> QED BY <4>2
    <3>2. CASE e[v] # d[v]
      <4>1. PICK n \in Into(v) : e[v] = Plus(d[edges[n].u], edges[n].c)  BY <2>2, <3>2 DEF Follows
      <4>2. n \in DOMAIN edges /\ edges[n].v = v  BY <4>1 DEF Into
      <4>3. edges[n].u \in Vertex /\ edges[n].c \in Nat  BY <4>2, EdgeType
      <4>4. d[edges[n].u] \in Distance  BY <2>2, <4>3
      <4>5. d[edges[n].u] = 0 /\ edges[n].c = 0  BY <2>5, <4>1, <4>3, <4>4, PlusType
      <4>6. v = edges[n].u + 1 /\ edges[n].u <= k  BY <2>3, <4>2, <4>3, <4>5 DEF GraphOK
      <4>7. PICK u \in Nat : u = edges[n].u  BY <1>0, <4>3
      <4> QED BY <4>6, <4>7
    <3> QED BY <3>1, <3>2
  <2>6. ASSUME v <= k + 1 PROVE e[v] = 0
    <3>1. e[v] \in Distance /\ d[v] \in Distance  BY <2>2
    <3>2. CASE v <= k
      <4>1. d[v] = 0 /\ e[v] <= d[v]  BY <2>2, <2>3, <3>2 DEF Follows
      <4> QED BY <2>4, <3>1, <4>1
    <3>3. CASE ~(v <= k)
      <4>1. v \in 1 .. VertexCount - 1 /\ v - 1 <= k /\ v - 1 \in Vertex
        BY <1>0, <2>6, <3>3, Constants DEF Vertex
      <4>2. PICK n \in DOMAIN edges : edges[n] = [u |-> v - 1, v |-> v, c |-> 0]
        BY <4>1 DEF GraphOK
      <4>3. n \in Into(v) /\ edges[n].u = v - 1 /\ edges[n].c = 0  BY <4>2 DEF Into
      <4>4. e[v] <= Plus(d[v - 1], 0)  BY <2>2, <4>3 DEF Follows
      <4>5. d[v - 1] = 0  BY <2>3, <4>1
      <4>6. Plus(d[v - 1], 0) = 0  BY <4>5 DEF Plus, Infinite
      <4> QED BY <2>4, <3>1, <4>4, <4>6
    <3> QED BY <3>2, <3>3
  <2> QED BY <2>1, <2>5, <2>6
<1> HIDE DEF P
<1>3. Nat \subseteq P  BY <1>1, <1>2, Induction
<1> QED BY <1>3 DEF P

\* An iteration changes nothing exactly when all vertices have been reached before.
LEMMA UnchangedWhenSolved ==
  ASSUME GraphOK, NEW k \in Nat
  PROVE  /\ Shortest[k + 1] = Shortest[k] <=> VertexCount <= k + 1
         /\ VertexCount <= k + 1 => Shortest[k] = [v \in Vertex |-> 0]
<1>0. \A n \in Nat : Shortest[n] \in [Vertex -> Distance]  BY ShortestIs
<1>1. k + 1 \in Nat  OBVIOUS
<1>2. ASSUME VertexCount <= k + 1 PROVE Shortest[k] = [v \in Vertex |-> 0] /\ Shortest[k + 1] = Shortest[k]
  <2>1. \A v \in Vertex : v <= k /\ v <= k + 1  BY <1>2, Constants DEF Vertex
  <2>2. \A v \in Vertex : Shortest[k][v] = 0 /\ Shortest[k + 1][v] = 0  BY <1>1, <2>1, Zeroes
  <2> QED BY <1>0, <1>1, <2>2
<1>3. ASSUME ~(VertexCount <= k + 1) PROVE Shortest[k + 1] # Shortest[k]
  <2>1. k + 1 \in Vertex /\ ~(k + 1 <= k)  BY <1>3, Constants DEF Vertex
  <2>2. Shortest[k + 1][k + 1] = 0 /\ Shortest[k][k + 1] # 0  BY <1>1, <2>1, Zeroes
  <2> QED BY <2>2
<1> QED BY <1>2, <1>3

--------------------------------------------------------------------------------
(* Lanes *)

\* Lanes are numbered, and their number is the stride.
LEMMA LanesAre ==
  ASSUME GraphOK
  PROVE  /\ Stride \in Nat /\ Lanes = 1 .. Stride
         /\ algo = "newBest_batch" => Stride # 0
         /\ Len(edges) \in Nat /\ DOMAIN edges = 1 .. Len(edges)
         /\ algo # "newBest_batch" => Stride = Len(edges)
         /\ Iters \in Nat \ {0}
<1>1. Len(edges) \in Nat /\ DOMAIN edges = 1 .. Len(edges)  BY LenProperties DEF GraphOK
<1>2. PICK n \in Nat : /\ Lanes = 1 .. n
                       /\ algo = "newBest_batch" => n # 0
                       /\ algo # "newBest_batch" => n = Len(edges)
  <2>1. CASE algo = "newBest_batch"  BY <2>1, Constants DEF Lanes
  <2>2. CASE algo # "newBest_batch"  BY <1>1, <2>2 DEF Lanes
  <2> QED BY <2>1, <2>2
<1>3. Cardinality(1 .. n) = n  BY FS_Interval
<1>4. Stride = n  BY <1>2, <1>3 DEF Stride
<1>5. Iters \in Nat \ {0}  BY Constants DEF Iters
<1> QED BY <1>1, <1>2, <1>4, <1>5

\* Lanes advance by the stride: a lane's first turn is its own number, ...
LEMMA FirstTurn ==
  ASSUME GraphOK, NEW l \in Lanes
  PROVE  l \in Nat /\ Turn(l, l) /\ \A n \in Nat : Turn(l, n) => l <= n
<1>1. Stride \in Nat /\ l \in Nat  BY LanesAre
<1>2. l = l + 0 * Stride  BY <1>1
<1>3. \A q \in Nat : q * Stride \in Nat  BY <1>1
<1>4. \A q \in Nat : l <= l + q * Stride  BY <1>1, <1>3
<1> QED BY <1>1, <1>2, <1>4 DEF Turn

\* ... the next one comes a stride later, and none between them.
LEMMA NextTurn ==
  ASSUME GraphOK, NEW l \in Lanes, NEW j \in Nat, Turn(l, j)
  PROVE  /\ Turn(l, j + Stride) /\ j + Stride \in Nat
         /\ \A n \in Nat : Turn(l, n) /\ n < j + Stride => n <= j
<1>1. Stride \in Nat \ {0} /\ l \in Nat  BY LanesAre
<1>2. PICK q \in Nat : j = l + q * Stride  BY DEF Turn
<1>3. j + Stride = l + (q + 1) * Stride /\ q + 1 \in Nat  BY <1>1, <1>2
<1>4. ASSUME NEW n \in Nat, Turn(l, n), n < j + Stride PROVE n <= j
  <2>1. PICK p \in Nat : n = l + p * Stride  BY <1>4 DEF Turn
  <2>2. p * Stride < (q + 1) * Stride  BY <1>1, <1>3, <1>4, <2>1
  <2>3. p <= q
    <3> SUFFICES ASSUME q + 1 <= p PROVE FALSE  OBVIOUS
    <3>1. (q + 1) * Stride <= p * Stride  BY <1>1
    <3> QED BY <1>1, <2>2, <3>1
  <2>4. p * Stride <= q * Stride  BY <1>1, <2>3
  <2> QED BY <1>1, <1>2, <2>1, <2>4
<1> QED BY <1>1, <1>3, <1>4 DEF Turn

\* Every position is some lane's turn.
LEMMA SomeonesTurn ==
  ASSUME GraphOK, Stride # 0, NEW n \in Nat \ {0}
  PROVE  \E l \in Lanes : Turn(l, n)
<1>1. Stride \in Nat \ {0} /\ Lanes = 1 .. Stride  BY LanesAre
<1>2. n - 1 \in Int  OBVIOUS
<1>3. PICK q \in Int, r \in 0 .. Stride - 1 : n - 1 = Stride * q + r  BY <1>1, <1>2, DivMod
<1>4. q \in Nat
  <2> SUFFICES ASSUME q <= -1 PROVE FALSE  BY <1>3
  <2>1. Stride * q <= Stride * (-1)  BY <1>1
  <2> QED BY <1>1, <1>3, <2>1
<1>5. r + 1 \in Lanes /\ n = (r + 1) + q * Stride  BY <1>1, <1>3, <1>4
<1> QED BY <1>4, <1>5 DEF Turn

\* What a run never changes, and what depends on it alone.
LEMMA Fixed ==
  ASSUME UNCHANGED <<algo, edges>>
  PROVE  /\ Iters' = Iters /\ Lanes' = Lanes /\ Stride' = Stride
         /\ AfterRelaxing' = AfterRelaxing /\ Shortest' = Shortest /\ UsesNewBest' = UsesNewBest
         /\ GraphOK' = GraphOK /\ \A v : Into(v)' = Into(v)
         /\ \A l, n : Turn(l, n)' = Turn(l, n)
<1>1. Iters' = Iters /\ Lanes' = Lanes /\ AfterRelaxing' = AfterRelaxing /\ UsesNewBest' = UsesNewBest
  BY DEF Iters, Lanes, AfterRelaxing, UsesNewBest
<1>2. Stride' = Stride  BY <1>1 DEF Stride
<1>3. Shortest' = Shortest  BY DEF Shortest, Into
<1>4. GraphOK' = GraphOK  BY DEF GraphOK
<1>5. \A v : Into(v)' = Into(v)  BY DEF Into
<1>6. \A l, n : Turn(l, n)' = Turn(l, n)  BY <1>2 DEF Turn
<1> QED BY <1>1, <1>2, <1>3, <1>4, <1>5, <1>6

--------------------------------------------------------------------------------
(* The lanes relax *)

\* Positions that AtWork makes.
LEMMA RelaxingIs ==
  ASSUME GraphOK, NEW j \in Nat, NEW i \in Nat
  PROVE  /\ Relaxing(j, i) \in Position /\ Relaxing(j, i).j = j /\ Relaxing(j, i).i = i
         /\ Relaxing(j, i).pc = IF j <= Len(edges) THEN "relax" ELSE AfterRelaxing
<1>1. Infinite \in Distance /\ AfterRelaxing \in {"relaxed", "exit"}
  BY DEF Infinite, Distance, AfterRelaxing
<1> QED BY <1>1 DEF Relaxing, AtWork, Position

LEMMA CopyingIs ==
  ASSUME NEW j \in Nat, NEW i \in Nat
  PROVE  /\ Copying(j, i) \in Position /\ Copying(j, i).j = j /\ Copying(j, i).i = i
         /\ Copying(j, i).pc = IF j <= VertexCount THEN "copy" ELSE "copied"
<1>1. Infinite \in Distance  BY DEF Infinite, Distance
<1> QED BY <1>1 DEF Copying, AtWork, Position

\* Which phase a lane's position tells of.
LEMMA PhaseOf ==
  ASSUME Inv, UsesNewBest, host = "kernel", NEW l \in Lanes
  PROVE  /\ lane[l].pc \in {"relax", "min", "relaxed"} => \E i \in 0 .. Iters - 1 : RelaxPhase(i)
         /\ lane[l].pc \in {"copy", "copied"} => \E i \in 0 .. Iters - 1 : CopyPhase(i)
BY DEF Inv, RelaxPhase, CopyPhase, ExitPhase, AfterRelaxing

\* An iteration begins with equal arrays.
LEMMA BeginsRelaxing ==
  ASSUME GraphOK, NEW i \in Nat, UNCHANGED <<algo, edges, best, newBest, doneIters>>,
         best \in [Vertex -> Distance],
         best = Shortest[doneIters + i], newBest = best,
         lane' = [l \in Lanes |-> Relaxing(l, i)], \A v \in Vertex : held'[v] = {newBest[v]}
  PROVE  RelaxPhase(i)' /\ lane' \in [Lanes -> Position]
<1>1. \A l \in Lanes : l \in Nat /\ Turn(l, l) /\ \A n \in Nat : Turn(l, n) => l <= n  BY FirstTurn
<1>2. \A l \in Lanes : /\ lane'[l] \in Position /\ lane'[l].j = l /\ lane'[l].i = i
                       /\ lane'[l].pc = IF l <= Len(edges) THEN "relax" ELSE AfterRelaxing
  BY <1>1, RelaxingIs
<1>3. Len(edges) \in Nat /\ DOMAIN edges = 1 .. Len(edges) /\ \A l \in Lanes : l >= 1  BY LanesAre
<1>4. AfterRelaxing \in {"relaxed", "exit"}  BY DEF AfterRelaxing
<1>5. \A l \in Lanes : Relaxes(l)'
  <2> SUFFICES ASSUME NEW l \in Lanes PROVE Relaxes(l)'  OBVIOUS
  <2>1. lane'[l].pc \in {"relax", "min"} => l \in DOMAIN edges /\ Turn(l, l)
    BY <1>1, <1>2, <1>3, <1>4
  <2>2. lane'[l].pc # "min"  BY <1>2, <1>4
  <2>3. ASSUME NEW n \in DOMAIN edges, Turn(l, n), lane'[l].pc = AfterRelaxing \/ n < l PROVE FALSE
    <3>1. l <= n /\ n <= Len(edges) /\ n \in Nat /\ l \in Nat  BY <1>1, <1>3, <2>3
    <3>2. l <= Len(edges)  BY <1>3, <3>1
    <3>3. lane'[l].pc # AfterRelaxing  BY <1>2, <1>4, <3>2
    <3> QED BY <2>3, <3>1, <3>3
  <2> QED BY <1>2, <2>1, <2>2, <2>3, Fixed DEF Relaxes
<1>6. \A v \in Vertex : best[v] <= best[v]
  <2>1. \A x \in Distance : x <= x  BY DEF Distance
  <2> QED BY <2>1
<1> QED BY <1>2, <1>4, <1>5, <1>6, Fixed DEF RelaxPhase

\* The lanes' part of the phase, when lane l goes on from edge j to the next one.
LEMMA LaneGoesOn ==
  ASSUME Inv, UsesNewBest, host = "kernel", UNCHANGED <<algo, edges, best, doneIters>>,
         NEW i \in 0 .. Iters - 1, RelaxPhase(i), NEW l \in Lanes, lane[l].pc \in {"relax", "min"},
         lane' = [lane EXCEPT ![l] = Advance(l)],
         newBest' \in [Vertex -> Distance], \A v \in Vertex : newBest'[v] <= newBest[v],
         newBest'[edges[lane[l].j].v] <= Offer(lane[l].j)
  PROVE  /\ lane' \in [Lanes -> Position]
         /\ \A k \in Lanes : /\ lane'[k].i = i /\ lane'[k].pc \in {"relax", "min", AfterRelaxing}
                             /\ Relaxes(k)'
<1> DEFINE j == lane[l].j
<1>0. GraphOK /\ lane \in [Lanes -> Position]  BY DEF Inv
<1>1. /\ j \in DOMAIN edges /\ Turn(l, j) /\ lane[l].i = i
      /\ \A k \in Lanes : lane[k].i = i /\ lane[k].pc \in {"relax", "min", AfterRelaxing} /\ Relaxes(k)
  BY DEF RelaxPhase, Relaxes
<1>2. Len(edges) \in Nat /\ DOMAIN edges = 1 .. Len(edges) /\ j \in Nat /\ Stride \in Nat
  BY <1>0, <1>1, LanesAre
<1>3. /\ Turn(l, j + Stride) /\ j + Stride \in Nat
      /\ \A n \in Nat : Turn(l, n) /\ n < j + Stride => n <= j
  BY <1>0, <1>1, <1>2, NextTurn
<1>4. Advance(l) = Relaxing(j + Stride, i)  BY <1>1 DEF Advance, UsesNewBest
<1>5. /\ Relaxing(j + Stride, i) \in Position /\ Relaxing(j + Stride, i).j = j + Stride
      /\ Relaxing(j + Stride, i).i = i
      /\ Relaxing(j + Stride, i).pc = IF j + Stride <= Len(edges) THEN "relax" ELSE AfterRelaxing
  BY <1>0, <1>3, RelaxingIs
<1>6. AfterRelaxing \in {"relaxed", "exit"}  BY DEF AfterRelaxing
<1>7. /\ lane' \in [Lanes -> Position]
      /\ lane'[l].j = j + Stride /\ lane'[l].i = i
      /\ lane'[l].pc = IF j + Stride <= Len(edges) THEN "relax" ELSE AfterRelaxing
      /\ \A k \in Lanes \ {l} : lane'[k] = lane[k]
  BY <1>0, <1>4, <1>5
<1>8. \A n \in DOMAIN edges : Offer(n)' = Offer(n)  BY DEF Offer
<1>9. \A n \in DOMAIN edges : newBest[edges[n].v] <= Offer(n) => newBest'[edges[n].v] <= Offer(n)
  <2> SUFFICES ASSUME NEW n \in DOMAIN edges, newBest[edges[n].v] <= Offer(n)
      PROVE  newBest'[edges[n].v] <= Offer(n)
    OBVIOUS
  <2>1. edges[n].u \in Vertex /\ edges[n].v \in Vertex /\ edges[n].c \in Nat  BY <1>0, EdgeType
  <2>2. best \in [Vertex -> Distance] /\ newBest \in [Vertex -> Distance]  BY DEF Inv
  <2>3. Offer(n) \in Distance  BY <2>1, <2>2, PlusType DEF Offer
  <2>4. newBest'[edges[n].v] \in Distance /\ newBest[edges[n].v] \in Distance  BY <2>1, <2>2
  <2>5. newBest'[edges[n].v] <= newBest[edges[n].v]  BY <2>1
  <2>6. \A x \in Distance : x \in Int  BY DEF Distance
  <2> QED BY <2>3, <2>4, <2>5, <2>6
<1>10. Relaxes(l)'
  <2>1. lane'[l].pc \in {"relax", "min"} => j + Stride \in DOMAIN edges
    <3>1. lane'[l].pc \in {"relax", "min"} => j + Stride <= Len(edges)  BY <1>6, <1>7
    <3> QED BY <1>1, <1>2, <1>3, <3>1
  <2>2. lane'[l].pc # "min"  BY <1>6, <1>7
  <2>3. ASSUME NEW n \in DOMAIN edges, Turn(l, n), lane'[l].pc = AfterRelaxing \/ n < j + Stride
        PROVE  newBest'[edges[n].v] <= Offer(n)
    <3>1. n < j + Stride
      <4>1. lane'[l].pc = AfterRelaxing => Len(edges) < j + Stride  BY <1>2, <1>3, <1>6, <1>7
      <4> QED BY <1>2, <1>3, <2>3, <4>1
    <3>2. n <= j /\ n \in Nat  BY <1>2, <1>3, <2>3, <3>1
    <3>3. CASE n = j  BY <3>3
    <3>4. CASE n # j
      <4>1. n < j  BY <1>2, <3>2, <3>4
      <4>2. newBest[edges[n].v] <= Offer(n)  BY <1>1, <2>3, <4>1 DEF Relaxes
      <4> QED BY <1>9, <4>2
    <3> QED BY <3>3, <3>4
  <2> QED BY <1>3, <1>7, <1>8, <2>1, <2>2, <2>3, Fixed DEF Relaxes
<1>11. \A k \in Lanes \ {l} : Relaxes(k)'
  <2> SUFFICES ASSUME NEW k \in Lanes \ {l} PROVE Relaxes(k)'  OBVIOUS
  <2>1. Relaxes(k) /\ lane'[k] = lane[k]  BY <1>1, <1>7
  <2> QED BY <1>8, <1>9, <2>1, Fixed DEF Relaxes
<1> QED BY <1>1, <1>7, <1>10, <1>11

\* A step of a kernel keeps the invariant when it leaves the lanes in a phase.
LEMMA KernelStep ==
  ASSUME Inv, UsesNewBest, host = "kernel", UNCHANGED <<algo, edges, doneIters, host>>,
         best' \in [Vertex -> Distance], newBest' \in [Vertex -> Distance],
         lane' \in [Lanes -> Position], held' \in [Vertex -> SUBSET Distance],
         (\E i \in 0 .. Iters - 1 : RelaxPhase(i)' \/ CopyPhase(i)') \/ ExitPhase'
  PROVE  Inv'
<1>1. HostInv'  BY Fixed DEF Inv, HostInv
<1> QED BY <1>1, Fixed DEF Inv

\* Lane l evaluates its candidate: what it turns away is no improvement.
LEMMA CandidateKeeps ==
  ASSUME Inv, UsesNewBest, NEW l \in Lanes, Candidate(l)
  PROVE  Inv'
<1> DEFINE j == lane[l].j
<1>0. /\ host = "kernel" /\ lane[l].pc = "relax" /\ GraphOK
      /\ UNCHANGED <<algo, edges, best, newBest, held, host, doneIters>>
  BY DEF Candidate, Inv
<1>1. PICK i \in 0 .. Iters - 1 : RelaxPhase(i)  BY <1>0, PhaseOf
<1>2. /\ j \in DOMAIN edges /\ Turn(l, j) /\ lane[l].i = i
      /\ \A k \in Lanes : lane[k].i = i /\ lane[k].pc \in {"relax", "min", AfterRelaxing} /\ Relaxes(k)
  BY <1>0, <1>1 DEF RelaxPhase, Relaxes
<1>3. edges[j].u \in Vertex /\ edges[j].v \in Vertex /\ edges[j].c \in Nat  BY <1>0, <1>2, EdgeType
<1>4. /\ best \in [Vertex -> Distance] /\ newBest \in [Vertex -> Distance]
      /\ lane \in [Lanes -> Position] /\ held \in [Vertex -> SUBSET Distance]
  BY <1>0 DEF Inv
<1>5. Offer(j) \in Distance  BY <1>3, <1>4, PlusType DEF Offer
<1>6. PICK seen \in held[edges[j].v] :
        lane' = [lane EXCEPT ![l] = IF Offer(j) < seen THEN [@ EXCEPT !.pc = "min", !.cand = Offer(j)]
                                                       ELSE Advance(l)]
  BY DEF Candidate, Offer
<1>7. \A n \in DOMAIN edges : Offer(n)' = Offer(n)  BY <1>0 DEF Offer
<1>8. /\ lane' \in [Lanes -> Position]
      /\ \A k \in Lanes : /\ lane'[k].i = i /\ lane'[k].pc \in {"relax", "min", AfterRelaxing}
                          /\ Relaxes(k)'
  <2>1. CASE Offer(j) < seen
    <3> DEFINE at == [lane[l] EXCEPT !.pc = "min", !.cand = Offer(j)]
    <3>1. lane' = [lane EXCEPT ![l] = at]  BY <1>6, <2>1
    <3>2. lane[l] \in Position  BY <1>4
    <3>3. at \in Position /\ at.pc = "min" /\ at.cand = Offer(j) /\ at.j = j /\ at.i = i
      BY <1>2, <1>5, <3>2 DEF Position
    <3> HIDE DEF at
    <3>4. /\ lane' \in [Lanes -> Position] /\ lane'[l] = at
          /\ \A k \in Lanes \ {l} : lane'[k] = lane[k]
      BY <1>4, <3>1, <3>3
    <3>5. AfterRelaxing # "min"  BY DEF AfterRelaxing
    <3>6. Relaxes(l)'
      <4>1. \A n \in DOMAIN edges : Turn(l, n) /\ n < j => newBest[edges[n].v] <= Offer(n)
        BY <1>2 DEF Relaxes
      <4> QED BY <1>0, <1>2, <1>7, <3>3, <3>4, <3>5, <4>1, Fixed DEF Relaxes
    <3>7. \A k \in Lanes \ {l} : Relaxes(k)'
      <4> SUFFICES ASSUME NEW k \in Lanes \ {l} PROVE Relaxes(k)'  OBVIOUS
      <4>1. Relaxes(k) /\ lane'[k] = lane[k]  BY <1>2, <3>4
      <4> QED BY <1>0, <1>2, <1>7, <4>1, Fixed DEF Relaxes
    <3> QED BY <1>2, <3>3, <3>4, <3>6, <3>7
  <2>2. CASE ~(Offer(j) < seen)
    <3>1. lane' = [lane EXCEPT ![l] = Advance(l)]  BY <1>6, <2>2
    <3>2. newBest[edges[j].v] <= seen /\ seen \in Distance  BY <1>1, <1>3, <1>4 DEF RelaxPhase
    <3>3. \A x \in Distance : x \in Int  BY DEF Distance
    <3>4. newBest[edges[j].v] \in Distance  BY <1>3, <1>4
    <3>5. newBest[edges[j].v] <= Offer(j)  BY <1>5, <2>2, <3>2, <3>3, <3>4
    <3>6. newBest' \in [Vertex -> Distance] /\ \A v \in Vertex : newBest'[v] <= newBest[v]
      BY <1>0, <1>4, <3>3
    <3> HIDE DEF j
    <3> QED BY <1>0, <1>1, <3>1, <3>5, <3>6, LaneGoesOn DEF j
  <2> QED BY <2>1, <2>2
<1>9. RelaxPhase(i)'
  <2>1. \A v \in Vertex : \A n \in Into(v) : Offer(n)' = Offer(n)  BY <1>7 DEF Into
  <2> QED BY <1>0, <1>1, <1>8, <2>1, Fixed DEF RelaxPhase
<1> QED BY <1>0, <1>4, <1>8, <1>9, KernelStep

\* Lane l lowers newBest[v]: not below what an edge offers.
LEMMA AtomicMinKeeps ==
  ASSUME Inv, UsesNewBest, NEW l \in Lanes, AtomicMin(l)
  PROVE  Inv'
<1> DEFINE j == lane[l].j
           v == edges[j].v
           value == Lesser(newBest[v], lane[l].cand)
<1>0. /\ host = "kernel" /\ lane[l].pc = "min" /\ GraphOK
      /\ UNCHANGED <<algo, edges, best, host, doneIters>>
      /\ newBest' = [newBest EXCEPT ![v] = value]
      /\ held' = [held EXCEPT ![v] = @ \cup {value}]
      /\ lane' = [lane EXCEPT ![l] = Advance(l)]
  BY DEF AtomicMin, Inv, UsesNewBest, Target
<1>1. PICK i \in 0 .. Iters - 1 : RelaxPhase(i)  BY <1>0, PhaseOf
<1>2. j \in DOMAIN edges /\ lane[l].cand = Offer(j)
  BY <1>0, <1>1 DEF RelaxPhase, Relaxes
<1>3. edges[j].u \in Vertex /\ v \in Vertex /\ edges[j].c \in Nat /\ j \in Into(v)
  BY <1>0, <1>2, EdgeType DEF Into
<1>4. /\ best \in [Vertex -> Distance] /\ newBest \in [Vertex -> Distance]
      /\ lane \in [Lanes -> Position] /\ held \in [Vertex -> SUBSET Distance]
  BY <1>0 DEF Inv
<1>5. Offer(j) \in Distance  BY <1>3, <1>4, PlusType DEF Offer
<1>6. \A x \in Distance : x \in Int  BY DEF Distance
<1>7. /\ value \in Distance /\ value <= newBest[v] /\ value <= Offer(j)
      /\ value = newBest[v] \/ value = Offer(j)
  <2>1. newBest[v] \in Distance  BY <1>3, <1>4
  <2> HIDE DEF v, j
  <2> QED BY <1>2, <1>5, <1>6, <2>1 DEF Lesser
<1> HIDE DEF j, v, value
<1>8. /\ newBest' \in [Vertex -> Distance] /\ newBest'[v] = value
      /\ \A w \in Vertex \ {v} : newBest'[w] = newBest[w] /\ held'[w] = held[w]
      /\ held' \in [Vertex -> SUBSET Distance] /\ held'[v] = held[v] \cup {value}
  BY <1>0, <1>3, <1>4, <1>7
<1>9. \A w \in Vertex : newBest[w] \in Int /\ best[w] \in Int  BY <1>4, <1>6
<1>10. \A w \in Vertex : newBest'[w] <= newBest[w]  BY <1>7, <1>8, <1>9
<1>11. /\ lane' \in [Lanes -> Position]
       /\ \A k \in Lanes : /\ lane'[k].i = i /\ lane'[k].pc \in {"relax", "min", AfterRelaxing}
                           /\ Relaxes(k)'
  <2>1. newBest'[edges[lane[l].j].v] <= Offer(lane[l].j)  BY <1>7, <1>8 DEF v, j
  <2> QED BY <1>0, <1>1, <1>8, <1>10, <2>1, LaneGoesOn
<1>12. \A w \in Vertex :
         /\ newBest'[w] <= best[w]
         /\ newBest'[w] = best[w] \/ \E n \in Into(w) : newBest'[w] = Offer(n)
         /\ \A seen \in held'[w] : newBest'[w] <= seen
  <2> SUFFICES ASSUME NEW w \in Vertex
      PROVE  /\ newBest'[w] <= best[w]
             /\ newBest'[w] = best[w] \/ \E n \in Into(w) : newBest'[w] = Offer(n)
             /\ \A seen \in held'[w] : newBest'[w] <= seen
    OBVIOUS
  <2>1. /\ newBest[w] <= best[w]
        /\ newBest[w] = best[w] \/ \E n \in Into(w) : newBest[w] = Offer(n)
        /\ \A seen \in held[w] : newBest[w] <= seen
    BY <1>1 DEF RelaxPhase
  <2>2. CASE w # v  BY <1>8, <2>1, <2>2
  <2>3. CASE w = v
    <3>1. value <= best[v]  BY <1>6, <1>7, <1>9, <2>1, <2>3
    <3>2. value = best[v] \/ \E n \in Into(v) : value = Offer(n)  BY <1>3, <1>7, <2>1, <2>3
    <3>3. ASSUME NEW seen \in held'[v] PROVE value <= seen
      <4>1. CASE seen = value  BY <1>6, <1>7, <4>1
      <4>2. CASE seen \in held[v]
        <5>1. seen \in Distance /\ newBest[v] <= seen  BY <1>3, <1>4, <2>1, <2>3, <4>2
        <5> QED BY <1>3, <1>6, <1>7, <1>9, <5>1
      <4> QED BY <1>8, <4>1, <4>2
    <3> QED BY <1>8, <2>3, <3>1, <3>2, <3>3
  <2> QED BY <2>2, <2>3
<1>13. RelaxPhase(i)'
  <2>1. \A w \in Vertex : \A n \in Into(w) : Offer(n)' = Offer(n)  BY <1>0 DEF Into, Offer
  <2> QED BY <1>0, <1>1, <1>11, <1>12, <2>1, Fixed DEF RelaxPhase
<1> QED BY <1>0, <1>4, <1>8, <1>11, <1>13, KernelStep

--------------------------------------------------------------------------------
(* Barriers and launches *)

\* When every lane has come to the end of its edges, newBest is the next iteration.
LEMMA AllRelaxed ==
  ASSUME Inv, UsesNewBest, host = "kernel", NEW i \in 0 .. Iters - 1, RelaxPhase(i),
         \A l \in Lanes : lane[l].pc = AfterRelaxing
  PROVE  newBest = Shortest[doneIters + i + 1]
<1>0. GraphOK /\ best \in [Vertex -> Distance] /\ newBest \in [Vertex -> Distance]
  BY DEF Inv
<1>1. doneIters + i \in Nat /\ doneIters + i + 1 \in Nat  BY <1>0, LanesAre DEF Inv, HostInv
<1>2. best = Shortest[doneIters + i]  BY DEF RelaxPhase
<1>3. \A n \in DOMAIN edges : newBest[edges[n].v] <= Offer(n)
  <2> SUFFICES ASSUME NEW n \in DOMAIN edges PROVE newBest[edges[n].v] <= Offer(n)  OBVIOUS
  <2>1. n \in Nat \ {0} /\ Stride # 0  BY <1>0, LanesAre
  <2>2. PICK l \in Lanes : Turn(l, n)  BY <1>0, <2>1, SomeonesTurn
  <2> QED BY <2>2 DEF RelaxPhase, Relaxes
<1>4. Follows(best, newBest)
  <2> SUFFICES ASSUME NEW v \in Vertex
      PROVE  /\ newBest[v] <= best[v]
             /\ newBest[v] = best[v] \/ \E n \in Into(v) : newBest[v] = Offer(n)
             /\ \A n \in Into(v) : newBest[v] <= Offer(n)
    BY DEF Follows, Offer
  <2> QED BY <1>3 DEF RelaxPhase, Into
<1>5. /\ Follows(best, Shortest[doneIters + i + 1])
      /\ Shortest[doneIters + i + 1] \in [Vertex -> Distance]
  BY <1>0, <1>1, <1>2, ShortestIs
<1> QED BY <1>0, <1>4, <1>5, FollowsUnique

\* The first g.sync() of an iteration.
LEMMA SyncRelaxedKeeps ==
  ASSUME Inv, UsesNewBest, SyncRelaxed
  PROVE  Inv'
<1>0. /\ host = "kernel" /\ algo = "newBest_batch" /\ GraphOK /\ AfterRelaxing = "relaxed"
      /\ \A l \in Lanes : lane[l].pc = "relaxed"
      /\ UNCHANGED <<algo, edges, best, newBest, host, doneIters>>
      /\ held' = [v \in Vertex |-> {newBest[v]}]
      /\ lane' = [l \in Lanes |-> IF lane[l].i < Iters - 1 THEN Copying(l, lane[l].i)
                                                         ELSE [lane[l] EXCEPT !.pc = "copied"]]
  BY DEF SyncRelaxed, Inv, AfterRelaxing
<1>1. 1 \in Lanes  BY <1>0, LanesAre
<1>2. PICK i \in 0 .. Iters - 1 : RelaxPhase(i)  BY <1>0, <1>1, PhaseOf
<1>3. newBest = Shortest[doneIters + i + 1]  BY <1>0, <1>2, AllRelaxed
<1>4. /\ best \in [Vertex -> Distance] /\ newBest \in [Vertex -> Distance]
      /\ lane \in [Lanes -> Position] /\ i \in Nat /\ best = Shortest[doneIters + i]
  BY <1>0, <1>2, LanesAre DEF Inv, RelaxPhase
<1>5. held' \in [Vertex -> SUBSET Distance] /\ \A v \in Vertex : held'[v] = {newBest'[v]}
  BY <1>0, <1>4
<1>6. ASSUME NEW l \in Lanes
      PROVE  /\ lane'[l] \in Position /\ lane'[l].i = i /\ lane'[l].pc \in {"copy", "copied"}
             /\ IF i < Iters - 1 THEN Copies(l)' ELSE lane'[l].pc = "copied"
  <2>1. lane[l].i = i /\ lane[l] \in Position  BY <1>2, <1>4 DEF RelaxPhase
  <2>2. CASE i < Iters - 1
    <3>1. lane'[l] = Copying(l, i)  BY <1>0, <2>1, <2>2
    <3>2. l \in Nat /\ l >= 1 /\ Turn(l, l) /\ \A n \in Nat : Turn(l, n) => l <= n
      BY <1>0, FirstTurn, LanesAre
    <3>3. /\ Copying(l, i) \in Position /\ Copying(l, i).j = l /\ Copying(l, i).i = i
          /\ Copying(l, i).pc = IF l <= VertexCount THEN "copy" ELSE "copied"
      BY <1>4, <3>2, CopyingIs
    <3>4. lane'[l].pc = "copy" => l \in 1 .. VertexCount  BY <3>1, <3>2, <3>3, Constants
    <3>5. ASSUME NEW n \in 1 .. VertexCount, Turn(l, n), lane'[l].pc = "copied" \/ n < l PROVE FALSE
      <4>1. l <= n /\ n <= VertexCount /\ n \in Nat  BY <3>2, <3>5, Constants
      <4>2. l <= VertexCount  BY <3>2, <4>1, Constants
      <4> QED BY <3>1, <3>2, <3>3, <3>5, <4>1, <4>2
    <3>6. Copies(l)'  BY <1>0, <3>1, <3>2, <3>3, <3>4, <3>5, Fixed DEF Copies
    <3> QED BY <2>2, <3>1, <3>3, <3>6
  <2>3. CASE ~(i < Iters - 1)
    <3>1. lane'[l] = [lane[l] EXCEPT !.pc = "copied"]  BY <1>0, <2>1, <2>3
    <3>2. lane'[l] \in Position /\ lane'[l].pc = "copied" /\ lane'[l].i = i
      BY <2>1, <3>1 DEF Position
    <3> QED BY <2>3, <3>2
  <2> QED BY <2>2, <2>3
<1>7. lane' \in [Lanes -> Position]  BY <1>0, <1>6
<1>8. CopyPhase(i)'  BY <1>0, <1>3, <1>4, <1>5, <1>6, Fixed DEF CopyPhase
<1> QED BY <1>0, <1>4, <1>5, <1>7, <1>8, KernelStep

\* Lane l copies a distance.
LEMMA CopyKeeps ==
  ASSUME Inv, UsesNewBest, NEW l \in Lanes, Copy(l)
  PROVE  Inv'
<1> DEFINE j == lane[l].j
<1>0. /\ host = "kernel" /\ lane[l].pc = "copy" /\ GraphOK
      /\ UNCHANGED <<algo, edges, newBest, held, host, doneIters>>
      /\ best' = [best EXCEPT ![j - 1] = newBest[j - 1]]
      /\ lane' = [lane EXCEPT ![l] = Copying(j + Stride, lane[l].i)]
  BY DEF Copy, Inv
<1>1. PICK i \in 0 .. Iters - 1 : CopyPhase(i)  BY <1>0, PhaseOf
<1>2. i < Iters - 1 /\ i \in Nat /\ lane[l].i = i /\ algo = "newBest_batch"
  BY <1>0, <1>1 DEF CopyPhase
<1>3. \A k \in Lanes : lane[k].i = i /\ lane[k].pc \in {"copy", "copied"} /\ Copies(k)
  BY <1>1, <1>2 DEF CopyPhase
<1>4. j \in 1 .. VertexCount /\ Turn(l, j) /\ j \in Nat  BY <1>0, <1>3 DEF Copies
<1>5. /\ best \in [Vertex -> Distance] /\ newBest \in [Vertex -> Distance]
      /\ lane \in [Lanes -> Position] /\ held \in [Vertex -> SUBSET Distance]
  BY <1>0 DEF Inv
<1>6. \A n \in 1 .. VertexCount : n - 1 \in Vertex  BY Constants DEF Vertex
<1>7. Stride \in Nat  BY <1>0, LanesAre
<1> HIDE DEF j
<1>8. /\ Turn(l, j + Stride) /\ j + Stride \in Nat
      /\ \A n \in Nat : Turn(l, n) /\ n < j + Stride => n <= j
  BY <1>0, <1>4, NextTurn
<1>9. /\ Copying(j + Stride, i) \in Position /\ Copying(j + Stride, i).j = j + Stride
      /\ Copying(j + Stride, i).i = i
      /\ Copying(j + Stride, i).pc = IF j + Stride <= VertexCount THEN "copy" ELSE "copied"
  BY <1>2, <1>8, CopyingIs
<1>10. /\ lane' \in [Lanes -> Position]
       /\ lane'[l].j = j + Stride /\ lane'[l].i = i
       /\ lane'[l].pc = IF j + Stride <= VertexCount THEN "copy" ELSE "copied"
       /\ \A k \in Lanes \ {l} : lane'[k] = lane[k]
  BY <1>0, <1>2, <1>5, <1>9
<1>11. /\ best' \in [Vertex -> Distance] /\ best'[j - 1] = newBest'[j - 1]
       /\ \A n \in 1 .. VertexCount : best[n - 1] = newBest[n - 1] => best'[n - 1] = newBest'[n - 1]
  BY <1>0, <1>4, <1>5, <1>6
<1>12. Copies(l)'
  <2>1. lane'[l].pc = "copy" => j + Stride \in 1 .. VertexCount
    BY <1>4, <1>7, <1>10, Constants
  <2>2. ASSUME NEW n \in 1 .. VertexCount, Turn(l, n), lane'[l].pc = "copied" \/ n < j + Stride
        PROVE  best'[n - 1] = newBest'[n - 1]
    <3>1. n < j + Stride  BY <1>8, <1>10, <2>2, Constants
    <3>2. n <= j  BY <1>8, <2>2, <3>1
    <3>3. CASE n = j  BY <1>11, <3>3
    <3>4. CASE n # j
      <4>1. n < j  BY <1>4, <3>2, <3>4
      <4>2. best[n - 1] = newBest[n - 1]  BY <1>3, <2>2, <4>1 DEF Copies, j
      <4> QED BY <1>11, <4>2
    <3> QED BY <3>3, <3>4
  <2> QED BY <1>0, <1>8, <1>10, <2>1, <2>2, Fixed DEF Copies
<1>13. \A k \in Lanes \ {l} : Copies(k)'
  <2> SUFFICES ASSUME NEW k \in Lanes \ {l} PROVE Copies(k)'  OBVIOUS
  <2>1. Copies(k) /\ lane'[k] = lane[k]  BY <1>3, <1>10
  <2> QED BY <1>0, <1>11, <2>1, Fixed DEF Copies
<1>14. CopyPhase(i)'
  <2>1. \A k \in Lanes : lane'[k].i = i /\ lane'[k].pc \in {"copy", "copied"} /\ Copies(k)'
    BY <1>3, <1>10, <1>12, <1>13
  <2>2. i # Iters - 1  BY <1>0, <1>2, LanesAre
  <2> QED BY <1>0, <1>1, <1>2, <2>1, <2>2, Fixed DEF CopyPhase
<1> QED BY <1>0, <1>5, <1>10, <1>11, <1>14, KernelStep

\* The second g.sync() ends the iteration.
LEMMA SyncCopiedKeeps ==
  ASSUME Inv, UsesNewBest, SyncCopied
  PROVE  Inv'
<1>0. /\ host = "kernel" /\ algo = "newBest_batch" /\ GraphOK
      /\ \A l \in Lanes : lane[l].pc = "copied"
      /\ UNCHANGED <<algo, edges, best, newBest, held, host, doneIters>>
      /\ lane' = [l \in Lanes |-> IF lane[l].i + 1 < Iters THEN Relaxing(l, lane[l].i + 1)
                                                         ELSE [lane[l] EXCEPT !.pc = "exit", !.i = @ + 1]]
  BY DEF SyncCopied, Inv
<1>1. 1 \in Lanes /\ Iters \in Nat \ {0}
  <2>1. 1 \in Lanes
    <3>1. Stride \in Nat \ {0} /\ Lanes = 1 .. Stride  BY <1>0, LanesAre
    <3> QED BY <3>1
  <2>2. Iters \in Nat \ {0}  BY <1>0, LanesAre
  <2> QED BY <2>1, <2>2
<1>2. PICK i \in 0 .. Iters - 1 : CopyPhase(i)  BY <1>0, <1>1, PhaseOf
<1>3. /\ best \in [Vertex -> Distance] /\ newBest \in [Vertex -> Distance] /\ doneIters \in Nat
      /\ lane \in [Lanes -> Position] /\ held \in [Vertex -> SUBSET Distance] /\ i \in Nat
  <2>1. i \in Nat  BY <1>1
  <2>2. doneIters \in Nat  BY DEF Inv, HostInv
  <2>3. /\ best \in [Vertex -> Distance] /\ newBest \in [Vertex -> Distance]
        /\ lane \in [Lanes -> Position] /\ held \in [Vertex -> SUBSET Distance]
    BY <1>0 DEF Inv
  <2> QED BY <2>1, <2>2, <2>3
<1>4. /\ \A l \in Lanes : lane[l].i = i
      /\ newBest = Shortest[doneIters + i + 1]
      /\ i = Iters - 1 => best = Shortest[doneIters + i]
      /\ \A v \in Vertex : held[v] = {newBest[v]}
  BY <1>2 DEF CopyPhase
<1>5. CASE i < Iters - 1
  <2>1. best = newBest
    <3>1. ASSUME NEW v \in Vertex PROVE best[v] = newBest[v]
      <4>1. v + 1 \in 1 .. VertexCount /\ v + 1 \in Nat \ {0} /\ (v + 1) - 1 = v
        BY Constants DEF Vertex
      <4>2. PICK l \in Lanes : Turn(l, v + 1)  BY <1>0, <4>1, LanesAre, SomeonesTurn
      <4>3. Copies(l)  BY <1>2, <1>5 DEF CopyPhase
      <4>4. best[(v + 1) - 1] = newBest[(v + 1) - 1]  BY <1>0, <4>1, <4>2, <4>3 DEF Copies
      <4> QED BY <4>1, <4>4
    <3> QED BY <1>3, <3>1
  <2>2. i + 1 \in 0 .. Iters - 1 /\ i + 1 \in Nat /\ doneIters + i + 1 = doneIters + (i + 1)
    BY <1>1, <1>3, <1>5
  <2>3. lane' = [l \in Lanes |-> Relaxing(l, i + 1)]
    <3>1. i + 1 < Iters  BY <1>1, <1>3, <1>5
    <3> QED BY <1>0, <1>4, <3>1
  <2>4. best = Shortest[doneIters + (i + 1)]  BY <1>4, <2>1, <2>2
  <2>5. RelaxPhase(i + 1)' /\ lane' \in [Lanes -> Position]
    <3>1. \A v \in Vertex : held'[v] = {newBest[v]}  BY <1>0, <1>4
    <3>2. PICK k \in Nat : k = i + 1  BY <2>2
    <3>3. RelaxPhase(k)' /\ lane' \in [Lanes -> Position]
      BY <1>0, <1>3, <2>1, <2>3, <2>4, <3>1, <3>2, BeginsRelaxing
    <3> QED BY <3>2, <3>3
  <2> QED BY <1>0, <1>3, <2>2, <2>5, KernelStep
<1>6. CASE ~(i < Iters - 1)
  <2>1. i = Iters - 1 /\ ~(i + 1 < Iters)  BY <1>1, <1>3, <1>6
  <2>2. lane' = [l \in Lanes |-> [lane[l] EXCEPT !.pc = "exit", !.i = @ + 1]]
    BY <1>0, <1>4, <2>1
  <2>3. ASSUME NEW l \in Lanes PROVE lane'[l] \in Position /\ lane'[l].pc = "exit"
    <3>1. lane[l] \in Position  BY <1>3
    <3>2. lane'[l] = [lane[l] EXCEPT !.pc = "exit", !.i = lane[l].i + 1]  BY <2>2
    <3>3. lane[l].i + 1 \in Nat  BY <1>3, <1>4
    <3> QED BY <3>1, <3>2, <3>3 DEF Position
  <2>4. lane' \in [Lanes -> Position]  BY <2>2, <2>3
  <2>5. doneIters + i + 1 = doneIters + Iters /\ doneIters + i = doneIters + Iters - 1
    BY <1>1, <1>3, <2>1
  <2>6. ExitPhase'  BY <1>0, <1>4, <2>1, <2>3, <2>5, Fixed DEF ExitPhase
  <2> QED BY <1>0, <1>3, <2>4, <2>6, KernelStep
<1> QED BY <1>5, <1>6

\* A kernel starts from equal arrays.
LEMMA LaunchKeeps ==
  ASSUME Inv, UsesNewBest, Launch
  PROVE  Inv'
<1>0. /\ host = "launch" /\ host' = "kernel" /\ GraphOK
      /\ UNCHANGED <<algo, edges, best, newBest, doneIters>>
      /\ lane' = [l \in Lanes |-> Relaxing(l, 0)]
      /\ held' = [v \in Vertex |-> {newBest[v]}]
  BY DEF Launch, Inv, UsesNewBest, Target
<1>1. /\ best \in [Vertex -> Distance] /\ newBest \in [Vertex -> Distance]
      /\ HostInv /\ doneIters \in Nat
      /\ best = Shortest[doneIters] /\ newBest = best /\ doneIters + 0 = doneIters
  BY <1>0 DEF Inv, HostInv
<1>2. held' \in [Vertex -> SUBSET Distance] /\ \A v \in Vertex : held'[v] = {newBest[v]}
  BY <1>0, <1>1
<1>3. RelaxPhase(0)' /\ lane' \in [Lanes -> Position]
  <2>1. PICK z \in Nat : z = 0  OBVIOUS
  <2>2. RelaxPhase(z)' /\ lane' \in [Lanes -> Position]  BY <1>0, <1>1, <1>2, <2>1, BeginsRelaxing
  <2> QED BY <2>1, <2>2
<1>4. HostInv'  BY <1>0, <1>1, Fixed DEF HostInv
<1>5. 0 \in 0 .. Iters - 1  BY <1>0, LanesAre
<1> QED BY <1>0, <1>1, <1>2, <1>3, <1>4, <1>5, Fixed DEF Inv

\* The loop ends when the last iteration changed nothing.
LEMMA CollectKeeps ==
  ASSUME Inv, UsesNewBest, Collect
  PROVE  Inv'
<1>0. /\ host = "kernel" /\ GraphOK /\ UNCHANGED <<algo, edges, newBest>>
      /\ \A l \in Lanes : lane[l].pc = "exit"
      /\ host' = (IF newBest # best THEN "launch" ELSE "done")
      /\ best' = newBest /\ doneIters' = doneIters + Iters
  BY DEF Collect, Inv, UsesNewBest
<1>1. /\ best \in [Vertex -> Distance] /\ newBest \in [Vertex -> Distance]
      /\ HostInv /\ doneIters \in Nat /\ doneIters < VertexCount
  BY <1>0 DEF Inv, HostInv
<1>2. Iters \in Nat \ {0}  BY <1>0, LanesAre
<1>3. best = Shortest[doneIters + Iters - 1] /\ newBest = Shortest[doneIters + Iters]
  <2>1. CASE ExitPhase  BY <2>1 DEF ExitPhase
  <2>2. CASE ~ExitPhase
    <3>1. PICK i \in 0 .. Iters - 1 : RelaxPhase(i) \/ CopyPhase(i)  BY <1>0, <2>2 DEF Inv
    <3>2. ASSUME algo = "newBest_batch" PROVE FALSE
      <4>1. PICK l : l \in Lanes
        <5>1. Stride \in Nat \ {0} /\ Lanes = 1 .. Stride  BY <1>0, <3>2, LanesAre
        <5>2. 1 \in Lanes  BY <5>1
        <5> QED BY <5>2
      <4> QED BY <1>0, <3>1, <3>2, <4>1 DEF RelaxPhase, CopyPhase, AfterRelaxing
    <3>3. RelaxPhase(i) /\ AfterRelaxing = "exit"  BY <3>1, <3>2 DEF CopyPhase, AfterRelaxing
    <3>4. newBest = Shortest[doneIters + i + 1]  BY <1>0, <3>3, AllRelaxed
    <3>5. best = Shortest[doneIters + i]  BY <3>3 DEF RelaxPhase
    <3>6. Iters = 1
      <4>1. algo = "newBest_one"  BY <3>2, Constants DEF Inv, UsesNewBest
      <4> QED BY <4>1 DEF Iters
    <3>7. i = 0  BY <3>6
    <3>8. doneIters + i + 1 = doneIters + Iters /\ doneIters + i = doneIters + Iters - 1
      BY <1>1, <3>6, <3>7
    <3> QED BY <3>4, <3>5, <3>8
  <2> QED BY <2>1, <2>2
<1>4. PICK k \in Nat : k = doneIters + Iters - 1  BY <1>1, <1>2
<1>5. k + 1 = doneIters + Iters /\ best = Shortest[k] /\ newBest = Shortest[k + 1]
  BY <1>1, <1>2, <1>3, <1>4
<1>6. newBest = best <=> VertexCount <= doneIters + Iters
  BY <1>0, <1>5, UnchangedWhenSolved
<1>7. doneIters' \in Nat /\ \E batches \in Nat : doneIters' = batches * Iters
  <2>1. PICK batches \in Nat : doneIters = batches * Iters  BY <1>1 DEF HostInv
  <2>2. doneIters' = (batches + 1) * Iters /\ batches + 1 \in Nat  BY <1>0, <1>2, <2>1
  <2>3. doneIters' \in Nat  BY <1>0, <1>1, <1>2
  <2> QED BY <2>2, <2>3
<1>8. HostInv'
  <2>1. best' = Shortest[doneIters'] /\ newBest' = best'  BY <1>0, <1>3
  <2>2. host' # "kernel" /\ host' \in {"launch", "done"}  BY <1>0
  <2>3. host' # "done" => doneIters' < VertexCount  BY <1>0, <1>1, <1>2, <1>6, Constants
  <2>4. host' = "done" => VertexCount <= doneIters' /\ doneIters' < VertexCount + Iters
    BY <1>0, <1>1, <1>2, <1>6, Constants
  <2> QED BY <1>0, <1>7, <2>1, <2>2, <2>3, <2>4, Fixed DEF HostInv
<1> QED BY <1>0, <1>1, <1>8, Fixed DEF Inv

--------------------------------------------------------------------------------
(* The theorems *)

LEMMA Starts ==
  ASSUME Init
  PROVE  Inv
<1>0. GraphOK  BY GraphsOK DEF Init
<1>1. best \in [Vertex -> Distance] /\ newBest = best  BY DEF Init, Distance, Infinite
<1>2. best = Shortest[0]  BY <1>0, ShortestIs DEF Init
<1>3. Iters \in Nat \ {0}  BY <1>0, LanesAre
<1>4. 0 = 0 * Iters  BY <1>3
<1>5. HostInv  BY <1>1, <1>2, <1>4, Constants DEF Init, HostInv
<1> QED BY <1>0, <1>1, <1>5 DEF Init, Inv

LEMMA Steps ==
  ASSUME Inv, [Next]_vars
  PROVE  Inv'
<1>0. UNCHANGED <<algo, edges>>
  BY DEF Next, vars, Launch, LaneStep, Candidate, ScatteredCandidate, AtomicMin, Copy,
         SyncRelaxed, SyncCopied, Collect
<1>1. CASE ~UsesNewBest  BY <1>0, <1>1, Fixed DEF Inv
<1>2. CASE UsesNewBest
  <2>1. CASE Launch  BY <1>2, <2>1, LaunchKeeps
  <2>2. ASSUME NEW l \in Lanes, LaneStep(l) PROVE Inv'
    <3>1. CASE Candidate(l)  BY <1>2, <3>1, CandidateKeeps
    <3>2. CASE ScatteredCandidate(l)  BY <1>2, <3>2 DEF ScatteredCandidate, UsesNewBest
    <3>3. CASE AtomicMin(l)  BY <1>2, <3>3, AtomicMinKeeps
    <3>4. CASE Copy(l)  BY <1>2, <3>4, CopyKeeps
    <3> QED BY <2>2, <3>1, <3>2, <3>3, <3>4 DEF LaneStep
  <2>3. CASE SyncRelaxed  BY <1>2, <2>3, SyncRelaxedKeeps
  <2>4. CASE SyncCopied  BY <1>2, <2>4, SyncCopiedKeeps
  <2>5. CASE Collect  BY <1>2, <2>5, CollectKeeps
  <2>6. CASE UNCHANGED vars
    <3>0. UNCHANGED <<best, newBest, held, lane, host, doneIters>>  BY <2>6 DEF vars
    <3>1. HostInv' = HostInv  BY <1>0, <3>0, Fixed DEF HostInv
    <3>2. /\ \A n : Offer(n)' = Offer(n)
          /\ \A l : Relaxes(l)' = Relaxes(l)
          /\ \A l : Copies(l)' = Copies(l)
      BY <1>0, <3>0, Fixed DEF Offer, Relaxes, Copies
    <3>3. /\ \A i : RelaxPhase(i)' = RelaxPhase(i)
          /\ \A i : CopyPhase(i)' = CopyPhase(i)
          /\ ExitPhase' = ExitPhase
      BY <1>0, <3>0, <3>2, Fixed DEF RelaxPhase, CopyPhase, ExitPhase
    <3> QED BY <1>0, <3>0, <3>1, <3>3, Fixed DEF Inv
  <2> QED BY <2>1, <2>2, <2>3, <2>4, <2>5, <2>6 DEF Next
<1> QED BY <1>1, <1>2

\* What the argument at the top says of lanes and of the loop holds throughout a run.
THEOREM Invariance == Spec => []Inv
<1>1. Init => Inv  BY Starts
<1>2. Inv /\ [Next]_vars => Inv'  BY Steps
<1> QED BY <1>1, <1>2, PTL DEF Spec

\* batchIterations_newBest relaxes from the prior iteration and from nothing newer,
\* and a kernel leaves the last iteration in newBest and the one before in best.
THEOREM PriorIteration == Spec => []BestIsPriorIteration
<1>1. Inv => BestIsPriorIteration
  <2> SUFFICES ASSUME Inv, UsesNewBest PROVE BestIsPriorIteration  BY DEF BestIsPriorIteration, UsesNewBest
  <2>1. host # "kernel" => best = Shortest[doneIters] /\ newBest = best  BY DEF Inv, HostInv
  <2>2. ASSUME host = "kernel", NEW l \in Lanes, lane[l].pc \in {"relax", "min"}
        PROVE  best = Shortest[doneIters + lane[l].i]
    <3>1. PICK i \in 0 .. Iters - 1 : RelaxPhase(i)  BY <2>2, PhaseOf
    <3> QED BY <3>1 DEF RelaxPhase
  <2>3. ASSUME host = "kernel", algo = "newBest_batch", \A l \in Lanes : lane[l].pc = "exit"
        PROVE  best = Shortest[doneIters + Iters - 1] /\ newBest = Shortest[doneIters + Iters]
    <3>1. 1 \in Lanes
      <4>1. Stride \in Nat \ {0} /\ Lanes = 1 .. Stride  BY <2>3, LanesAre DEF Inv
      <4> QED BY <4>1
    <3>2. ExitPhase  BY <2>3, <3>1 DEF Inv, RelaxPhase, CopyPhase, AfterRelaxing
    <3> QED BY <3>2 DEF ExitPhase
  <2> QED BY <2>1, <2>2, <2>3 DEF BestIsPriorIteration
<1> QED BY <1>1, Invariance, PTL

\* doMain's loop ends with the batch that brings every distance to 0: not before, not later.
THEOREM StopsThen == Spec => []StopsWhenSolved
<1>1. Inv => StopsWhenSolved
  <2> SUFFICES ASSUME Inv, UsesNewBest, host = "done"
      PROVE  /\ best = [v \in Vertex |-> 0]
             /\ doneIters = ((VertexCount + Iters - 1) \div Iters) * Iters
    BY DEF StopsWhenSolved, UsesNewBest
  <2>1. /\ GraphOK /\ doneIters \in Nat /\ best = Shortest[doneIters]
        /\ VertexCount <= doneIters /\ doneIters < VertexCount + Iters
    BY DEF Inv, HostInv
  <2>2. VertexCount <= doneIters + 1  BY <2>1, Constants
  <2>3. best = [v \in Vertex |-> 0]  BY <2>1, <2>2, UnchangedWhenSolved
  <2>4. PICK batches \in Nat : doneIters = batches * Iters  BY DEF Inv, HostInv
  <2>5. Iters \in Nat \ {0}  BY <2>1, LanesAre
  <2>6. (VertexCount + Iters - 1) \div Iters = batches
    <3>1. PICK r \in Int : r = VertexCount + Iters - 1 - batches * Iters  BY <2>5, Constants
    <3>2. r \in 0 .. Iters - 1  BY <2>1, <2>4, <2>5, <3>1, Constants
    <3>3. VertexCount + Iters - 1 = Iters * batches + r  BY <2>5, <3>1, Constants
    <3> QED BY <2>5, <3>2, <3>3, Constants
  <2> QED BY <2>3, <2>4, <2>6
<1> QED BY <1>1, Invariance, PTL
================================================================================
