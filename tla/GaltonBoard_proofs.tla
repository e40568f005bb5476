--------------------------- MODULE GaltonBoard_proofs --------------------------
(***************************************************************************)
(* Proofs about GaltonBoard for every board, every choice of parameters    *)
(* and any number of inputs between two frames.                            *)
(*                                                                         *)
(* The points in flight lie on strictly decreasing slots: a frame moves    *)
(* all of them by the same number of slots, those that were on the board   *)
(* are past it by at least one more than any that enters, and no more      *)
(* enter than slots are passed.  The tick notifier is active only if the   *)
(* current simulation is running, since a button can be bound to a         *)
(* disposed simulation only as long as the new one has not been touched.   *)
(***************************************************************************)
EXTENDS GaltonBoard, NumberLemmas, SequenceTheorems

OnBoard == [slot : Nat \ {0}, heads : Nat]

Sims ==
  [levels : LevelValues, total : CountValues, speed : SpeedValues, remaining : Nat,
   inserted : Nat, points : Seq(OnBoard),
   buckets : UNION {[0 .. levels - 1 -> Nat] : levels \in LevelValues}, state : States]

Ordered(points) == \A i, j \in DOMAIN points : i < j => points[i].slot > points[j].slot

Types ==
  /\ params \in [levels : LevelValues, count : CountValues, speed : SpeedValues]
  /\ sim \in Sims
  /\ button \in [onTap : {"pause", "resume", "startFreshSimulation"}, of : States \cup {"current"}]

\* A button that is bound to a disposed simulation is marked, and the new one runs.
BoundOrMarked == button.of # "current" => dirty /\ sim.state = "running"

Inv ==
  /\ Types
  /\ ~failed
  /\ Ordered(sim.points)
  /\ ShowsState
  /\ TicksOnlyRunning
  /\ BoundOrMarked

--------------------------------------------------------------------------------
\* The constants are what the arithmetic below needs.
LEMMA Constants ==
  /\ SlotsPerLevel \in Nat \ {0} /\ SpeedValues \subseteq Nat \ {0}
  /\ LevelValues \subseteq Nat \ {0, 1} /\ CountValues \subseteq Nat \ {0}
  BY BoardAssumption

\* The new points take their places behind those on the board, in order.
LEMMA Joined ==
  ASSUME NEW old \in Seq(OnBoard), Ordered(old), NEW n \in Nat
  PROVE  LET all == old \o NewPoints(n)
         IN  /\ all \in Seq([slot : Int, heads : Nat])
             /\ Ordered(all)
             /\ \A i \in DOMAIN all : all[i].slot > -n
<1> DEFINE new == NewPoints(n)
           all == old \o new
<1>1. new \in Seq([slot : Int, heads : Nat]) /\ Len(new) = n
      /\ \A i \in 1 .. n : new[i].slot = 1 - i
  BY IsASeq, LenProperties DEF NewPoints
<1>2. old \in Seq([slot : Int, heads : Nat]) /\ Len(old) \in Nat
      /\ \A i \in 1 .. Len(old) : old[i].slot \in Nat \ {0}
  <2>1. OnBoard \subseteq [slot : Int, heads : Nat]  BY DEF OnBoard
  <2>2. \A i \in 1 .. Len(old) : old[i] \in OnBoard  BY ElementOfSeq
  <2>3. \A i \in 1 .. Len(old) : old[i].slot \in Nat \ {0}  BY <2>2 DEF OnBoard
  <2>4. old \in Seq([slot : Int, heads : Nat])  BY <2>1, SeqMonotonic
  <2>5. Len(old) \in Nat  BY LenProperties
  <2> QED BY <2>3, <2>4, <2>5
<1>3. /\ all \in Seq([slot : Int, heads : Nat]) /\ Len(all) = Len(old) + n
      /\ \A i \in 1 .. Len(all) : all[i] = IF i <= Len(old) THEN old[i] ELSE new[i - Len(old)]
  <2> HIDE DEF new
  <2>1. new \in Seq([slot : Int, heads : Nat]) /\ Len(new) = n  BY <1>1
  <2>2. /\ all \in Seq([slot : Int, heads : Nat]) /\ Len(all) = Len(old) + Len(new)
        /\ \A i \in 1 .. Len(old) + Len(new) : all[i] = IF i <= Len(old) THEN old[i] ELSE new[i - Len(old)]
    BY <1>2, <2>1, ConcatProperties, ZenonT(30)
  <2> HIDE DEF all
  <2> QED BY <2>1, <2>2
<1>4. DOMAIN all = 1 .. Len(old) + n /\ DOMAIN old = 1 .. Len(old)
  BY <1>2, <1>3, LenProperties
<1>5. \A i \in 1 .. Len(old) + n :
        IF i <= Len(old) THEN all[i].slot = old[i].slot /\ old[i].slot > 0
        ELSE all[i].slot = 1 - (i - Len(old))
  BY <1>1, <1>2, <1>3
<1>6. Ordered(all)
  BY <1>2, <1>4, <1>5, SMTT(60) DEF Ordered
<1>7. \A i \in DOMAIN all : all[i].slot > -n
  BY <1>2, <1>4, <1>5
<1> QED BY <1>3, <1>6, <1>7

\* A point has tossed no negative number of coins.
LEMMA CoinsType ==
  ASSUME NEW slot \in Int, NEW levels \in Nat \ {0, 1}
  PROVE  Trials(slot, levels) \in Nat
<1>1. SlotsPerLevel \in Nat \ {0}  BY Constants
<1>2. slot > 0 => (slot - 1) \div SlotsPerLevel \in Nat  BY <1>1
<1> QED BY <1>2 DEF Trials

\* A frame that admits no more points than the slots it passes keeps them in
\* order and puts them on the board.
LEMMA AdvancedInOrder ==
  ASSUME NEW all \in Seq([slot : Int, heads : Nat]), Ordered(all),
         NEW slots \in Nat \ {0}, \A i \in DOMAIN all : all[i].slot > -slots,
         NEW levels \in Nat \ {0, 1}, NEW points \in Advanced(all, slots, levels)
  PROVE  /\ points \in Seq(OnBoard) /\ Ordered(points)
         /\ ~LoopFails(points, levels)
<1>1. PICK right \in [DOMAIN all -> 0 .. levels - 1] :
        points = [i \in DOMAIN all |-> [slot  |-> all[i].slot + slots,
                                        heads |-> all[i].heads + right[i]]]
  BY DEF Advanced
<1>2. DOMAIN all = 1 .. Len(all) /\ Len(all) \in Nat
      /\ \A i \in DOMAIN all : all[i] \in [slot : Int, heads : Nat]
  BY LenProperties, ElementOfSeq
<1>3. \A i \in DOMAIN all : points[i] \in OnBoard /\ points[i].slot = all[i].slot + slots
  BY <1>1, <1>2 DEF OnBoard
<1>4. points \in Seq(OnBoard) /\ DOMAIN points = DOMAIN all
  BY <1>1, <1>2, <1>3, IsASeq
<1>5. Ordered(points)
  BY <1>2, <1>3, <1>4 DEF Ordered
<1>6. ~LoopFails(points, levels)
  <2>1. MaxSlot(levels) \in Int  BY Constants DEF MaxSlot
  <2>2. \A i, j \in DOMAIN points :
          points[i].slot > MaxSlot(levels) /\ ~(points[j].slot > MaxSlot(levels)) => ~(j < i)
    BY <1>3, <1>4, <1>5, <2>1 DEF Ordered, OnBoard
  <2>3. \A i \in DOMAIN points : ~(points[i].slot <= 0)  BY <1>3, <1>4 DEF OnBoard
  <2> QED BY <2>2, <2>3 DEF LoopFails, Done
<1> QED BY <1>4, <1>5, <1>6

\* What is left on the board is a final part of the queue.
LEMMA LeftInOrder ==
  ASSUME NEW points \in Seq(OnBoard), Ordered(points), NEW k \in Nat
  PROVE  LET left == SubSeq(points, k + 1, Len(points))
         IN  left \in Seq(OnBoard) /\ Ordered(left)
<1> DEFINE left == SubSeq(points, k + 1, Len(points))
<1>1. Len(points) \in Nat /\ DOMAIN points = 1 .. Len(points)  BY LenProperties
<1>2. left \in Seq(OnBoard) /\ Len(left) = (IF k + 1 <= Len(points) THEN Len(points) - k ELSE 0)
      /\ \A i \in 1 .. Len(left) : left[i] = points[k + i]
  <2>1. CASE k + 1 <= Len(points)
    <3>1. \A i \in 1 .. Len(points) : points[i] \in OnBoard  BY <1>1, ElementOfSeq
    <3>2. Len(left) = Len(points) - k /\ \A i \in 1 .. Len(points) - k : left[i] = points[k + i]
      BY <1>1, <2>1
    <3>3. left = [i \in 1 .. Len(points) - k |-> points[k + i]]
      BY <1>1, <2>1
    <3>4. left \in Seq(OnBoard)
      BY <1>1, <2>1, <3>1, <3>3, IsASeq
    <3> QED BY <2>1, <3>2, <3>4
  <2>2. CASE ~(k + 1 <= Len(points))
    <3>1. left = <<>>  BY <1>1, <2>2, SubSeqEmpty
    <3> QED BY <2>2, <3>1
  <2> QED BY <2>1, <2>2
<1>3. DOMAIN left = 1 .. Len(left)  BY <1>2, LenProperties
<1>4. Ordered(left)
  <2> HIDE DEF left
  <2> SUFFICES ASSUME NEW i \in 1 .. Len(left), NEW j \in 1 .. Len(left), i < j
               PROVE  left[i].slot > left[j].slot
    BY <1>3 DEF Ordered
  <2>0. Len(left) = Len(points) - k
    <3>1. CASE k + 1 <= Len(points)  BY <1>2, <3>1
    <3>2. CASE ~(k + 1 <= Len(points))
      <4>1. Len(left) = 0  BY <1>2, <3>2
      <4>2. 1 .. Len(left) = {}  BY <4>1
      <4> QED BY <4>2
    <3> QED BY <3>1, <3>2
  <2>1. k + i \in DOMAIN points /\ k + j \in DOMAIN points /\ k + i < k + j
    BY <1>1, <2>0
  <2>2. points[k + i].slot > points[k + j].slot  BY <2>1 DEF Ordered
  <2> QED BY <1>2, <2>2
<1> QED BY <1>2, <1>4

--------------------------------------------------------------------------------
\* A fresh simulation has an empty board and runs.
LEMMA FreshSim ==
  ASSUME NEW p \in [levels : LevelValues, count : CountValues, speed : SpeedValues]
  PROVE  Fresh(p) \in Sims /\ Ordered(Fresh(p).points) /\ Fresh(p).state = "running"
<1>1. p.levels \in LevelValues /\ p.count \in CountValues /\ p.speed \in SpeedValues
      /\ p.count \in Nat
  BY Constants
<1>2. <<>> \in Seq(OnBoard) /\ Ordered(<<>>)  BY EmptySeq DEF Ordered
<1>3. [b \in 0 .. p.levels - 1 |-> 0] \in UNION {[0 .. levels - 1 -> Nat] : levels \in LevelValues}
  BY <1>1
<1> QED BY <1>1, <1>2, <1>3 DEF Fresh, Sims, States

\* A button is built for one of the states.
LEMMA BuiltType ==
  ASSUME NEW s, s.state \in States
  PROVE  Built(s) \in [onTap : {"pause", "resume", "startFreshSimulation"},
                       of : States \cup {"current"}]
  BY DEF Built, OnTap, States

\* The first frame satisfies the invariant.
LEMMA InvInit == Init => Inv
<1> SUFFICES ASSUME Init PROVE Inv  OBVIOUS
<1>1. sim \in Sims /\ Ordered(sim.points) /\ sim.state = "running"  BY FreshSim DEF Init
<1>2. Types  BY <1>1, BuiltType DEF Init, Types, States
<1> QED BY <1>1, <1>2 DEF Init, Inv, ShowsState, TicksOnlyRunning, BoundOrMarked, Built

\* One call of _simulateMovement raises no StateError.
LEMMA SimulateMoves ==
  ASSUME Inv, Simulate, sim.state # "completed"
  PROVE  LET new == PointsInFrame(sim)
             all == sim.points \o NewPoints(new)
         IN  /\ new \in Nat /\ new <= sim.speed /\ new <= sim.remaining
             /\ all \in Seq([slot : Int, heads : Nat])
             /\ \E points \in Advanced(all, sim.speed, sim.levels) :
                  /\ points \in Seq(OnBoard) /\ Ordered(points) /\ ~LoopFails(points, sim.levels)
                  /\ sim' = Moved(sim, points) /\ ~failed'
<1>1. sim \in Sims /\ Ordered(sim.points) /\ ~failed  BY DEF Inv, Types
<1> DEFINE new == PointsInFrame(sim)
           all == sim.points \o NewPoints(new)
<1>2. PICK points \in Advanced(all, sim.speed, sim.levels) :
        /\ failed' = LoopFails(points, sim.levels)
        /\ sim' = IF failed' THEN sim ELSE Moved(sim, points)
  BY DEF Simulate
<1>3. /\ sim.points \in Seq(OnBoard) /\ sim.remaining \in Nat
      /\ sim.levels \in Nat \ {0, 1} /\ sim.speed \in Nat \ {0}
  BY <1>1, Constants DEF Sims
<1>4. new \in Nat /\ new <= sim.speed /\ new <= sim.remaining
  BY <1>3 DEF PointsInFrame
<1>5. all \in Seq([slot : Int, heads : Nat]) /\ Ordered(all)
      /\ \A i \in DOMAIN all : all[i].slot > -sim.speed
  <2> HIDE DEF new
  <2>1. all \in Seq([slot : Int, heads : Nat]) /\ Ordered(all)
        /\ \A i \in DOMAIN all : all[i].slot > -new
    BY <1>1, <1>3, <1>4, Joined
  <2> HIDE DEF all
  <2>2. \A i \in DOMAIN all : all[i] \in [slot : Int, heads : Nat]
    BY <2>1, LenProperties, ElementOfSeq
  <2>3. \A i \in DOMAIN all : all[i].slot > -sim.speed
    BY <1>3, <1>4, <2>1, <2>2
  <2> QED BY <2>1, <2>3
<1>6. points \in Seq(OnBoard) /\ Ordered(points) /\ ~LoopFails(points, sim.levels)
  <2> HIDE DEF all
  <2> QED BY <1>2, <1>3, <1>5, AdvancedInOrder
<1>7. sim' = Moved(sim, points) /\ ~failed'  BY <1>2, <1>6
<1> HIDE DEF new, all
<1>8. \E p \in Advanced(all, sim.speed, sim.levels) :
        /\ p \in Seq(OnBoard) /\ Ordered(p) /\ ~LoopFails(p, sim.levels)
        /\ sim' = Moved(sim, p) /\ ~failed'
  BY <1>2, <1>6, <1>7
<1> QED BY <1>4, <1>5, <1>8 DEF new, all

\* It keeps the types and the order of the points.
LEMMA SimulateKeeps ==
  ASSUME Inv, Simulate
  PROVE  sim' \in Sims /\ Ordered(sim'.points) /\ ~failed'
<1>1. sim \in Sims /\ Ordered(sim.points) /\ ~failed  BY DEF Inv, Types
<1>2. CASE sim.state = "completed"  BY <1>1, <1>2 DEF Simulate
<1>3. CASE sim.state # "completed"
  <2> DEFINE new == PointsInFrame(sim)
  <2>1. new \in Nat /\ new <= sim.speed /\ new <= sim.remaining  BY <1>3, SimulateMoves
  <2>2. /\ sim.points \in Seq(OnBoard) /\ sim.remaining \in Nat /\ sim.inserted \in Nat
        /\ sim.levels \in Nat \ {0, 1} /\ sim.speed \in Nat \ {0} /\ sim.state \in States
        /\ sim.buckets \in UNION {[0 .. levels - 1 -> Nat] : levels \in LevelValues}
    BY <1>1, Constants DEF Sims
  <2>5. PICK points : /\ points \in Seq(OnBoard) /\ Ordered(points)
                      /\ sim' = Moved(sim, points) /\ ~failed'
    BY <1>3, SimulateMoves
  <2> DEFINE done == Done(points, sim.levels)
             left == SubSeq(points, Cardinality(done) + 1, Len(points))
  <2>7. IsFiniteSet(done) /\ Cardinality(done) \in Nat
    <3>1. done \subseteq 1 .. Len(points) /\ Len(points) \in Nat  BY <2>5, LenProperties DEF Done
    <3>2. IsFiniteSet(1 .. Len(points))  BY <3>1, FS_Interval
    <3> HIDE DEF done
    <3> QED BY <3>1, <3>2, FS_Subset, FS_CardinalityType
  <2>8. left \in Seq(OnBoard) /\ Ordered(left)  BY <2>5, <2>7, LeftInOrder
  <2>9. Buckets(sim.buckets, points, done)
          \in UNION {[0 .. levels - 1 -> Nat] : levels \in LevelValues}
    <3>1. PICK levels \in LevelValues : sim.buckets \in [0 .. levels - 1 -> Nat]  BY <2>2
    <3>2. \A b : Cardinality({i \in done : points[i].heads = b}) \in Nat
      BY <2>7, FS_Subset, FS_CardinalityType
    <3>3. Buckets(sim.buckets, points, done) \in [0 .. levels - 1 -> Nat]
      <4> HIDE DEF done
      <4>1. \A b \in 0 .. levels - 1 :
              sim.buckets[b] + Cardinality({i \in done : points[i].heads = b}) \in Nat
        <5> TAKE b \in 0 .. levels - 1
        <5> DEFINE fallenIn == Cardinality({i \in done : points[i].heads = b})
        <5>1. fallenIn \in Nat  BY <3>2
        <5>2. sim.buckets[b] \in Nat  BY <3>1
        <5> HIDE DEF fallenIn
        <5>3. sim.buckets[b] + fallenIn \in Nat  BY <5>1, <5>2
        <5> QED BY <5>3 DEF fallenIn
      <4> QED BY <3>1, <4>1 DEF Buckets
    <3> QED BY <3>3
  <2>10. /\ sim'.points = left
         /\ sim' = [sim EXCEPT !.remaining = @ - new, !.inserted = @ + new, !.points = left,
                               !.buckets = Buckets(@, points, done), !.state = sim'.state]
         /\ sim'.state \in States
    BY <1>1, <2>2, <2>5 DEF Moved, Sims, States
  <2>11. sim' \in Sims
    <3> DEFINE fallen == Buckets(sim.buckets, points, done)
    <3>1. sim' = [sim EXCEPT !.remaining = sim.remaining - new, !.inserted = sim.inserted + new,
                            !.points = left, !.buckets = fallen, !.state = sim'.state]
      BY <1>1, <2>10 DEF Sims
    <3>2. /\ sim.remaining - new \in Nat /\ sim.inserted + new \in Nat
          /\ left \in Seq(OnBoard) /\ sim'.state \in States
          /\ fallen \in UNION {[0 .. levels - 1 -> Nat] : levels \in LevelValues}
      BY <2>1, <2>2, <2>8, <2>9, <2>10, SMTT(60)
    <3> HIDE DEF new, left, done, fallen
    <3> QED BY <1>1, <3>1, <3>2 DEF Sims
  <2> QED BY <2>5, <2>8, <2>10, <2>11
<1> QED BY <1>2, <1>3

\* A frame keeps the invariant: the ticker of a completed simulation stops.
LEMMA FrameInv ==
  ASSUME Inv, Frame
  PROVE  Inv'
<1>1. sim' \in Sims /\ Ordered(sim'.points) /\ ~failed' /\ (ticking' => sim'.state = "running")
  <2>1. CASE ticking
    <3>1. Simulate /\ ticking' = (sim'.state # "completed")  BY <2>1 DEF Frame, OnTick
    <3>2. sim.state = "running"  BY <2>1 DEF Inv, TicksOnlyRunning
    <3>3. sim'.state \in {"running", "completed"}
      BY <3>1, <3>2 DEF Simulate, Moved, Inv, Types, Sims
    <3> QED BY <3>1, <3>3, SimulateKeeps
  <2>2. CASE ~ticking
    BY <2>2 DEF Frame, Inv, Types
  <2> QED BY <2>1, <2>2
<1>2. button' = Built(sim') /\ ~dirty' /\ UNCHANGED params  BY DEF Frame
<1>3. sim'.state \in States  BY <1>1 DEF Sims
<1>4. Types'  BY <1>1, <1>2, <1>3, BuiltType DEF Inv, Types
<1> QED BY <1>1, <1>2, <1>4 DEF Inv, ShowsState, TicksOnlyRunning, BoundOrMarked, Built

\* A fresh simulation runs, and the button, if not yet rebuilt, is marked.
LEMMA StartFreshInv ==
  ASSUME Inv, NEW p \in [levels : LevelValues, count : CountValues, speed : SpeedValues],
         StartFresh(p), params' = p, UNCHANGED failed
  PROVE  Inv'
<1>1. sim' \in Sims /\ Ordered(sim'.points) /\ sim'.state = "running"
  BY FreshSim DEF StartFresh
<1>2. button' \in [onTap : {"pause", "resume", "startFreshSimulation"}, of : States \cup {"current"}]
  BY DEF StartFresh, Inv, Types, Sims
<1>3. dirty' /\ ticking' /\ ~failed'  BY DEF StartFresh, Inv
<1> QED BY <1>1, <1>2, <1>3 DEF Inv, Types, ShowsState, TicksOnlyRunning, BoundOrMarked

\* The speed control keeps it, whether it changes the running simulation or starts another.
LEMMA SetSpeedInv ==
  ASSUME Inv, SetSpeed
  PROVE  Inv'
<1>1. PICK speed \in SpeedValues :
        /\ params' = [params EXCEPT !.speed = speed] /\ UNCHANGED failed
        /\ IF sim.state = "completed" THEN StartFresh(params')
           ELSE sim' = [sim EXCEPT !.speed = speed] /\ UNCHANGED <<ticking, button, dirty>>
  BY DEF SetSpeed, Input
<1>2. params' \in [levels : LevelValues, count : CountValues, speed : SpeedValues]
  BY <1>1 DEF Inv, Types
<1>3. CASE sim.state = "completed"
  <2> DEFINE p == params'
  <2> HIDE DEF p
  <2>1. StartFresh(p) /\ params' = p /\ UNCHANGED failed  BY <1>1, <1>3 DEF p
  <2>2. p \in [levels : LevelValues, count : CountValues, speed : SpeedValues]  BY <1>2 DEF p
  <2> QED BY <2>1, <2>2, StartFreshInv
<1>4. CASE sim.state # "completed"
  <2>1. sim' = [sim EXCEPT !.speed = speed] /\ UNCHANGED <<ticking, button, dirty, failed>>
    BY <1>1, <1>4
  <2>2. /\ sim' \in Sims /\ sim'.points = sim.points /\ sim'.state = sim.state
    BY <2>1 DEF Inv, Types, Sims
  <2>3. Types'  BY <1>2, <2>1, <2>2 DEF Inv, Types
  <2>4. ShowsState'  BY <2>1, <2>2 DEF Inv, ShowsState, Built
  <2> QED BY <2>1, <2>2, <2>3, <2>4 DEF Inv, TicksOnlyRunning, BoundOrMarked
<1> QED BY <1>3, <1>4

\* A tap that pauses or resumes keeps it.
LEMMA SetStateInv ==
  ASSUME Inv, NEW state \in {"running", "paused"}, SetState(state),
         ticking' = (state = "running"), UNCHANGED <<params, failed>>,
         button.onTap = IF state = "running" THEN "resume" ELSE "pause"
  PROVE  Inv'
<1>1. CASE button.of = "current"
  <2>1. sim' = [sim EXCEPT !.state = state] /\ UNCHANGED button /\ dirty'
    BY <1>1 DEF SetState
  <2>2. sim' \in Sims /\ sim'.points = sim.points /\ sim'.state = state
    BY <2>1 DEF Inv, Types, Sims, States
  <2> QED BY <1>1, <2>1, <2>2 DEF Inv, Types, ShowsState, TicksOnlyRunning, BoundOrMarked
<1>2. CASE button.of # "current"
  <2>1. button' = [button EXCEPT !.of = state] /\ UNCHANGED sim /\ dirty'
    BY <1>2 DEF SetState
  <2>2. sim.state = "running"  BY <1>2 DEF Inv, BoundOrMarked
  <2>3. Types'  BY <2>1 DEF Inv, Types, States
  <2> QED BY <2>1, <2>2, <2>3 DEF Inv, ShowsState, TicksOnlyRunning, BoundOrMarked
<1> QED BY <1>1, <1>2

\* Whatever the user does and whenever, the invariant holds.
THEOREM Invariance == Spec => []Inv
<1>1. Init => Inv  BY InvInit
<1>2. Inv /\ [Next]_vars => Inv'
  <2> SUFFICES ASSUME Inv, [Next]_vars PROVE Inv'  OBVIOUS
  <2>1. CASE Frame  BY <2>1, FrameInv
  <2>2. CASE Replay
    BY <2>2, StartFreshInv DEF Replay, Input, Inv, Types
  <2>3. CASE SetBoard
    <3>1. PICK levels \in LevelValues, count \in CountValues :
            /\ params' = [params EXCEPT !.levels = levels, !.count = count]
            /\ StartFresh(params') /\ UNCHANGED failed
      BY <2>3 DEF SetBoard, Input
    <3> DEFINE p == params'
    <3> HIDE DEF p
    <3>2. p \in [levels : LevelValues, count : CountValues, speed : SpeedValues]
      BY <3>1 DEF p, Inv, Types
    <3>3. StartFresh(p) /\ params' = p /\ UNCHANGED failed  BY <3>1 DEF p
    <3> QED BY <3>2, <3>3, StartFreshInv
  <2>4. CASE SetSpeed  BY <2>4, SetSpeedInv
  <2>5. CASE Pause
    <3>1. CASE BoundState = "running"
      BY <2>5, <3>1, SetStateInv DEF Pause, Input
    <3>2. CASE BoundState # "running"
      BY <2>5, <3>2 DEF Pause, Input, Inv, Types, ShowsState, TicksOnlyRunning, BoundOrMarked, Built
    <3> QED BY <3>1, <3>2
  <2>6. CASE Resume
    <3>1. CASE BoundState # "completed"
      BY <2>6, <3>1, SetStateInv DEF Resume, Input
    <3>2. CASE BoundState = "completed"
      BY <2>6, <3>2 DEF Resume, Input, Inv, Types, ShowsState, TicksOnlyRunning, BoundOrMarked, Built
    <3> QED BY <3>1, <3>2
  <2>7. CASE Restart
    BY <2>7, StartFreshInv DEF Restart, Input, Inv, Types
  <2>8. CASE UNCHANGED vars
    BY <2>8 DEF vars, Inv, Types, ShowsState, TicksOnlyRunning, BoundOrMarked, Built
  <2> QED BY <2>1, <2>2, <2>3, <2>4, <2>5, <2>6, <2>7, <2>8 DEF Next
<1> QED BY <1>1, <1>2, PTL DEF Spec

\* No StateError of the loop in Points.simulate (points.dart:53, point.dart:77),
\* and no two points on one slot, whatever happens to the speed.
THEOREM InOrder == Spec => []PointsInOrder
<1>1. Inv => PointsInOrder  BY DEF Inv, Ordered, PointsInOrder
<1> QED BY Invariance, <1>1, PTL

\* The pause button is a function of the state, or about to be rebuilt.
THEOREM ButtonShowsState == Spec => []ShowsState
<1> QED BY Invariance, PTL DEF Inv

\* The shared tick notifier drives a running simulation or none.
THEOREM TickerDrivesRunning == Spec => []TicksOnlyRunning
<1> QED BY Invariance, PTL DEF Inv

--------------------------------------------------------------------------------
(* Where the points are.  A simulation accounts for its points by number:  *)
(* those to come, those on the board, those in buckets; and by heads: a    *)
(* point has no more of them than coins tossed, so that its bucket exists. *)

HeadsFit(points, levels) ==
  \A i \in DOMAIN points : points[i].heads <= Trials(points[i].slot, levels)

\* NoPointLost with what each point may be.
Accounted(s) ==
  /\ s.remaining + s.inserted = s.total
  /\ s.buckets \in [0 .. s.levels - 1 -> Nat]
  /\ Len(s.points) + SumFunction(s.buckets) = s.inserted
  /\ s.state = "completed" <=> SumFunction(s.buckets) = s.total
  /\ HeadsFit(s.points, s.levels)
  /\ \A i \in DOMAIN s.points : s.points[i].slot <= MaxSlot(s.levels)

AccountInv == Accounted(sim) /\ newInputs \in 0 .. InputsPerFrame /\ allInputs \in 0 .. MaxInputs
              /\ ticking \in BOOLEAN /\ dirty \in BOOLEAN

\* Points join without heads, and a frame tosses a coin for each trial it passes.
LEMMA TossedHeads ==
  ASSUME NEW old \in Seq(OnBoard), NEW levels \in Nat \ {0, 1}, HeadsFit(old, levels), NEW n \in Nat,
         NEW slots \in Nat \ {0}, NEW points \in Advanced(old \o NewPoints(n), slots, levels),
         points \in Seq(OnBoard)
  PROVE  HeadsFit(points, levels) /\ Len(points) = Len(old) + n
<1> DEFINE new == NewPoints(n)
           all == old \o new
<1>1. new \in Seq([slot : Int, heads : Nat]) /\ Len(new) = n
      /\ \A i \in 1 .. n : new[i].slot = 1 - i /\ new[i].heads = 0
  BY IsASeq, LenProperties DEF NewPoints
<1>2. /\ Len(old) \in Nat /\ DOMAIN old = 1 .. Len(old)
      /\ \A i \in 1 .. Len(old) : old[i] \in OnBoard /\ old[i].heads <= Trials(old[i].slot, levels)
  BY LenProperties, ElementOfSeq DEF HeadsFit
<1>3. Len(all) = Len(old) + n /\ DOMAIN all = 1 .. Len(old) + n
      /\ \A i \in DOMAIN all : all[i] = IF i <= Len(old) THEN old[i] ELSE new[i - Len(old)]
  <2> HIDE DEF new
  <2>1. OnBoard \subseteq [slot : Int, heads : Nat]  BY DEF OnBoard
  <2>2. old \in Seq([slot : Int, heads : Nat])  BY <2>1, SeqMonotonic
  <2>3. /\ all \in Seq([slot : Int, heads : Nat]) /\ Len(all) = Len(old) + n
        /\ \A i \in 1 .. Len(all) : all[i] = IF i <= Len(old) THEN old[i] ELSE new[i - Len(old)]
    <3>1. new \in Seq([slot : Int, heads : Nat]) /\ Len(new) = n  BY <1>1
    <3>2. /\ all \in Seq([slot : Int, heads : Nat]) /\ Len(all) = Len(old) + Len(new)
          /\ \A i \in 1 .. Len(old) + Len(new) :
               all[i] = IF i <= Len(old) THEN old[i] ELSE new[i - Len(old)]
      BY <2>2, <3>1, ConcatProperties, ZenonT(30)
    <3> HIDE DEF all
    <3> QED BY <3>1, <3>2
  <2> QED BY <2>3, LenProperties
<1>4. \A i \in DOMAIN all : /\ all[i].slot \in Int /\ all[i].heads \in Nat
                            /\ all[i].heads <= Trials(all[i].slot, levels)
  <2> SUFFICES ASSUME NEW i \in DOMAIN all
      PROVE  /\ all[i].slot \in Int /\ all[i].heads \in Nat
             /\ all[i].heads <= Trials(all[i].slot, levels)
    OBVIOUS
  <2>1. CASE i <= Len(old)
    <3>1. i \in 1 .. Len(old) /\ all[i] = old[i]  BY <1>2, <1>3, <2>1
    <3> QED BY <1>2, <3>1 DEF OnBoard
  <2>2. CASE ~(i <= Len(old))
    <3>1. i - Len(old) \in 1 .. n /\ all[i] = new[i - Len(old)]  BY <1>2, <1>3, <2>2
    <3>2. all[i].slot = 1 - (i - Len(old)) /\ all[i].heads = 0  BY <1>1, <3>1
    <3>3. Trials(all[i].slot, levels) = 0  BY <1>2, <3>1, <3>2 DEF Trials
    <3> QED BY <1>2, <3>1, <3>2, <3>3
  <2> QED BY <2>1, <2>2
<1> HIDE DEF all
<1> DEFINE coins(i) == Trials(all[i].slot + slots, levels) - Trials(all[i].slot, levels)
<1>5. PICK right \in [DOMAIN all -> 0 .. levels - 1] :
        /\ \A i \in DOMAIN all : right[i] <= coins(i)
        /\ points = [i \in DOMAIN all |-> [slot  |-> all[i].slot + slots,
                                           heads |-> all[i].heads + right[i]]]
  BY DEF Advanced, all
<1>6. DOMAIN points = 1 .. Len(old) + n /\ Len(points) = Len(old) + n
  <2>1. DOMAIN points = 1 .. Len(old) + n  BY <1>3, <1>5
  <2> QED BY <1>2, <2>1, LenProperties
<1>7. \A i \in DOMAIN points : points[i].heads <= Trials(points[i].slot, levels)
  <2> SUFFICES ASSUME NEW i \in DOMAIN all PROVE points[i].heads <= Trials(points[i].slot, levels)
    BY <1>5
  <2>1. points[i].slot = all[i].slot + slots /\ points[i].heads = all[i].heads + right[i]  BY <1>5
  <2>0. all[i].slot \in Int /\ all[i].slot + slots \in Int  BY <1>4
  <2>2. Trials(all[i].slot, levels) \in Nat /\ Trials(all[i].slot + slots, levels) \in Nat
    BY <2>0, CoinsType
  <2>3. right[i] \in Nat /\ right[i] <= coins(i)  BY <1>5
  <2> QED BY <1>4, <2>1, <2>2, <2>3
<1> QED BY <1>6, <1>7 DEF HeadsFit

\* The points past the last slot are the first of the queue.
LEMMA DoneIsPrefix ==
  ASSUME NEW points \in Seq(OnBoard), NEW levels, ~LoopFails(points, levels)
  PROVE  LET done == Done(points, levels)
         IN  /\ IsFiniteSet(done) /\ Cardinality(done) \in 0 .. Len(points)
             /\ done = 1 .. Cardinality(done)
<1> DEFINE done == Done(points, levels)
<1>1. Len(points) \in Nat /\ DOMAIN points = 1 .. Len(points)  BY LenProperties
<1>2. done \subseteq 1 .. Len(points)  BY <1>1 DEF Done
<1>3. IsFiniteSet(1 .. Len(points)) /\ Cardinality(1 .. Len(points)) = Len(points)
  BY <1>1, FS_Interval
<1>4. IsFiniteSet(done)  BY <1>2, <1>3, FS_Subset
<1>5. CASE done = {}
  <2>1. Cardinality(done) = 0  BY <1>5, FS_EmptySet
  <2> QED BY <1>1, <1>4, <1>5, <2>1
<1>6. CASE done # {}
  <2>1. done \subseteq Nat /\ \A i \in done : i <= Len(points)  BY <1>1, <1>2
  <2> HIDE DEF done
  <2>2. PICK m \in done : \A i \in done : i <= m  BY <1>1, <1>6, <2>1, GreatestNumber
  <2>3. \A j \in DOMAIN points \ done : ~(j < m)  BY <2>2 DEF LoopFails, done
  <2>4. m \in 1 .. Len(points)  BY <1>2, <2>2
  <2>5. done = 1 .. m
    <3>1. \A i \in done : i \in 1 .. m  BY <1>1, <1>2, <2>2, <2>4
    <3>2. \A i \in 1 .. m : i \in done
      <4> TAKE i \in 1 .. m
      <4>1. CASE i = m  BY <2>2, <4>1
      <4>2. CASE i # m  BY <1>1, <2>3, <2>4, <4>2
      <4> QED BY <4>1, <4>2
    <3> QED BY <3>1, <3>2
  <2>6. Cardinality(done) = m  BY <2>4, <2>5, FS_Interval
  <2> QED BY <1>4, <2>4, <2>5, <2>6 DEF done
<1> QED BY <1>5, <1>6

\* Each of the points that are done is in one bucket more.
LEMMA BucketsAddUp ==
  ASSUME NEW D, IsFiniteSet(D), NEW before \in [D -> Nat], NEW done, IsFiniteSet(done),
         NEW points, \A i \in done : points[i].heads \in D
  PROVE  /\ Buckets(before, points, done) \in [D -> Nat]
         /\ SumFunction(Buckets(before, points, done)) = SumFunction(before) + Cardinality(done)
<1> DEFINE h == [i \in done |-> points[i].heads]
           those == [b \in D |-> {i \in done : points[i].heads = b}]
           fallen == Buckets(before, points, done)
<1>1. h \in [done -> D]  OBVIOUS
<1>2. those \in [D -> SUBSET done] /\ \A b \in D : \A i \in done : i \in those[b] <=> h[i] = b  OBVIOUS
<1>3. fallen = [b \in D |-> before[b] + Cardinality(those[b])]
  <2>1. fallen = [b \in D |-> before[b] + Cardinality({i \in done : points[i].heads = b})]
    BY DEF Buckets
  <2>2. \A b \in D : those[b] = {i \in done : points[i].heads = b}  OBVIOUS
  <2> HIDE DEF those, fallen
  <2> QED BY <2>1, <2>2
<1> HIDE DEF h, those, fallen
<1>4. \A b \in D : Cardinality(those[b]) \in Nat  BY <1>2, FS_Subset, FS_CardinalityType
<1>5. fallen \in [D -> Nat] /\ \A b \in D : fallen[b] = before[b] + Cardinality(those[b])
  BY <1>3, <1>4
<1>6. SumFunction(fallen) = SumFunction(before) + Cardinality(done)
  BY <1>1, <1>2, <1>5, SumOfCounts
<1> QED BY <1>5, <1>6 DEF fallen

\* The loop of Points.simulate: each point past the end falls into its bucket.
LEMMA MovedAccounts ==
  ASSUME NEW s \in Sims, Accounted(s), s.state # "completed",
         NEW points \in Seq(OnBoard), Ordered(points), ~LoopFails(points, s.levels), HeadsFit(points, s.levels),
         PointsInFrame(s) \in Nat, PointsInFrame(s) <= s.remaining,
         Len(points) = Len(s.points) + PointsInFrame(s)
  PROVE  Accounted(Moved(s, points))
<1> DEFINE new == PointsInFrame(s)
           done == Done(points, s.levels)
           k == Cardinality(done)
           left == SubSeq(points, k + 1, Len(points))
           fallen == Buckets(s.buckets, points, done)
           D == 0 .. s.levels - 1
           m == Moved(s, points)
<1>1. /\ s.levels \in Nat \ {0, 1} /\ s.total \in Nat /\ s.remaining \in Nat /\ s.inserted \in Nat
      /\ s.points \in Seq(OnBoard) /\ IsFiniteSet(D) /\ D = DOMAIN s.buckets /\ s.buckets \in [D -> Nat]
  <2>1. s.levels \in Nat \ {0, 1}  BY Constants DEF Sims
  <2>2. PICK last \in Int : last = s.levels - 1  BY <2>1
  <2>3. IsFiniteSet(0 .. last)  BY FS_Interval
  <2> QED BY <2>1, <2>2, <2>3, Constants DEF Sims, Accounted
<1>2. IsFiniteSet(done) /\ k \in 0 .. Len(points) /\ done = 1 .. k  BY DoneIsPrefix
<1>3. /\ Len(points) \in Nat /\ DOMAIN points = 1 .. Len(points) /\ Len(s.points) \in Nat
      /\ \A i \in 1 .. Len(points) : points[i] \in OnBoard
  BY <1>1, LenProperties, ElementOfSeq
<1> HIDE DEF done, k
<1>4. Len(left) = Len(points) - k /\ DOMAIN left = 1 .. Len(points) - k
      /\ \A i \in 1 .. Len(points) - k : left[i] = points[k + i]
  <2>1. CASE k < Len(points)
    <3>1. left = [i \in 1 .. Len(points) - k |-> points[k + i]]  BY <1>2, <1>3, <2>1
    <3>2. Len(left) = Len(points) - k  BY <1>2, <1>3, <2>1
    <3> QED BY <3>1, <3>2
  <2>2. CASE ~(k < Len(points))
    <3>1. k = Len(points)  BY <1>2, <1>3, <2>2
    <3>2. left = <<>>  BY <1>3, <3>1, SubSeqEmpty
    <3> QED BY <1>3, <3>1, <3>2
  <2> QED BY <2>1, <2>2
<1>5. HeadsFit(left, s.levels) /\ \A i \in DOMAIN left : left[i].slot <= MaxSlot(s.levels)
  <2> HIDE DEF left
  <2> SUFFICES ASSUME NEW i \in 1 .. Len(points) - k
      PROVE  left[i].heads <= Trials(left[i].slot, s.levels) /\ left[i].slot <= MaxSlot(s.levels)
    BY <1>4, SMTT(60) DEF HeadsFit
  <2>1. k + i \in DOMAIN points /\ k + i \notin done /\ left[i] = points[k + i]
    BY <1>2, <1>3, <1>4, SMTT(60)
  <2>2. ~(points[k + i].slot > MaxSlot(s.levels))  BY <2>1 DEF Done, done
  <2>3. points[k + i].slot \in Int /\ MaxSlot(s.levels) \in Int
    BY <1>1, <1>3, <2>1, Constants, SMTT(60) DEF OnBoard, MaxSlot
  <2> QED BY <2>1, <2>2, <2>3 DEF HeadsFit
<1>6. \A i \in done : points[i].heads \in D
  <2> SUFFICES ASSUME NEW i \in done PROVE points[i].heads \in D  OBVIOUS
  <2>1. i \in DOMAIN points  BY DEF done, Done
  <2>2. points[i].heads \in Nat /\ points[i].slot \in Nat /\ points[i].heads <= Trials(points[i].slot, s.levels)
    BY <1>3, <2>1 DEF HeadsFit, OnBoard
  <2>3. Trials(points[i].slot, s.levels) \in Nat /\ Trials(points[i].slot, s.levels) <= s.levels - 1
    <3>0. points[i].slot \in Int  BY <2>2
    <3>1. Trials(points[i].slot, s.levels) \in Nat  BY <1>1, <3>0, CoinsType
    <3> QED BY <1>1, <3>1, <2>2 DEF Trials
  <2> QED BY <1>1, <2>2, <2>3
<1>8. fallen \in [D -> Nat] /\ SumFunction(fallen) = SumFunction(s.buckets) + k
  <2> HIDE DEF D
  <2>1. IsFiniteSet(D) /\ IsFiniteSet(done)  BY <1>1, <1>2
  <2>2. PICK f \in [D -> Nat] : f = s.buckets  BY <1>1
  <2>3. \A i \in done : points[i].heads \in D  BY <1>6
  <2>4. /\ Buckets(f, points, done) \in [D -> Nat]
        /\ SumFunction(Buckets(f, points, done)) = SumFunction(f) + Cardinality(done)
    BY <2>1, <2>3, BucketsAddUp
  <2> QED BY <2>2, <2>4 DEF k
<1>9. SumFunction(s.buckets) \in Nat
  <2> HIDE DEF D
  <2> QED BY <1>1, SumType
<1>10. /\ m.levels = s.levels /\ m.total = s.total
       /\ m.remaining = s.remaining - new /\ m.inserted = s.inserted + new
       /\ m.points = left /\ m.buckets = fallen
       /\ m.state = IF left = <<>> /\ s.remaining = new THEN "completed" ELSE s.state
  <2> HIDE DEF new, left, fallen
  <2> QED BY DEF Moved, new, left, fallen, done, k, Sims
<1> HIDE DEF m, fallen, D, left
<1>11. Len(left) + SumFunction(fallen) = s.inserted + new
  BY <1>1, <1>2, <1>3, <1>4, <1>8, <1>9 DEF Accounted
<1>12. left = <<>> <=> Len(left) = 0
  <2>1. left \in Seq(OnBoard)  BY <1>2, LeftInOrder DEF left
  <2> QED BY <2>1, EmptySeq, LenProperties
<1>13. m.state = "completed" <=> SumFunction(fallen) = s.total
  <2>1. s.remaining + s.inserted = s.total  BY DEF Accounted
  <2>2. Len(left) \in Nat /\ SumFunction(fallen) \in Nat  BY <1>2, <1>3, <1>4, <1>8, <1>9
  <2>3. SumFunction(fallen) = s.total <=> Len(left) = 0 /\ s.remaining = new
    BY <1>1, <1>11, <2>1, <2>2
  <2> QED BY <1>10, <1>12, <2>3
<1>14. m.remaining + m.inserted = m.total  BY <1>1, <1>10 DEF Accounted
<1>15. m.buckets \in [0 .. m.levels - 1 -> Nat]  BY <1>8, <1>10 DEF D
<1> QED BY <1>5, <1>10, <1>11, <1>13, <1>14, <1>15 DEF Accounted, m

\* A fresh simulation has all its points to come.
LEMMA FreshAccounts ==
  ASSUME NEW p \in [levels : LevelValues, count : CountValues, speed : SpeedValues]
  PROVE  Accounted(Fresh(p))
<1> DEFINE D == 0 .. p.levels - 1
           none == [b \in D |-> 0]
<1>1. p.levels \in Nat \ {0, 1} /\ p.count \in Nat \ {0}  BY Constants
<1>2. PICK last \in Int : last = p.levels - 1  BY <1>1
<1>3. IsFiniteSet(0 .. last)  BY FS_Interval
<1>4. IsFiniteSet(D)  BY <1>2, <1>3
<1>5. SumFunction(none) = 0
  <2> HIDE DEF D
  <2> QED BY <1>4, SumZero
<1>6. Fresh(p).buckets = none /\ none \in [D -> Nat]  BY DEF Fresh
<1>7. /\ Fresh(p).levels = p.levels /\ Fresh(p).total = p.count /\ Fresh(p).remaining = p.count
      /\ Fresh(p).inserted = 0 /\ Fresh(p).points = <<>> /\ Fresh(p).state = "running"
  BY DEF Fresh
<1>8. Len(<<>>) = 0 /\ DOMAIN <<>> = {}  OBVIOUS
<1> HIDE DEF none
<1> QED BY <1>1, <1>5, <1>6, <1>7, <1>8 DEF Accounted, HeadsFit

\* A frame moves points from those to come to the board and from there to the buckets.
LEMMA SimulateAccounts ==
  ASSUME Inv, Simulate, Accounted(sim)
  PROVE  Accounted(sim')
<1>1. CASE sim.state = "completed"  BY <1>1 DEF Simulate
<1>2. CASE sim.state # "completed"
  <2> DEFINE new == PointsInFrame(sim)
             all == sim.points \o NewPoints(new)
  <2>1. sim \in Sims  BY DEF Inv, Types
  <2>2. /\ new \in Nat /\ new <= sim.remaining
        /\ \E points \in Advanced(all, sim.speed, sim.levels) :
             /\ points \in Seq(OnBoard) /\ Ordered(points) /\ ~LoopFails(points, sim.levels)
             /\ sim' = Moved(sim, points)
    BY <1>2, SimulateMoves
  <2>3. PICK points \in Advanced(all, sim.speed, sim.levels) :
             /\ points \in Seq(OnBoard) /\ Ordered(points) /\ ~LoopFails(points, sim.levels)
             /\ sim' = Moved(sim, points)
    BY <2>2
  <2>4. /\ sim.points \in Seq(OnBoard) /\ sim.levels \in Nat \ {0, 1} /\ sim.speed \in Nat \ {0}
        /\ HeadsFit(sim.points, sim.levels)
    BY <2>1, Constants DEF Sims, Accounted
  <2> HIDE DEF new
  <2>5. HeadsFit(points, sim.levels) /\ Len(points) = Len(sim.points) + new
    BY <2>2, <2>3, <2>4, TossedHeads
  <2>6. Accounted(Moved(sim, points))
    BY <1>2, <2>1, <2>2, <2>3, <2>5, MovedAccounts DEF new
  <2> QED BY <2>3, <2>6
<1> QED BY <1>1, <1>2

\* What does not touch a simulation's points leaves them accounted for.
LEMMA OtherwiseAccounts ==
  ASSUME NEW s, NEW t, Accounted(s),
         /\ t.remaining = s.remaining /\ t.inserted = s.inserted /\ t.total = s.total
         /\ t.buckets = s.buckets /\ t.levels = s.levels /\ t.points = s.points,
         t.state = "completed" <=> s.state = "completed"
  PROVE  Accounted(t)
BY DEF Accounted, HeadsFit

\* A tap that does not reach a completed simulation leaves none completed.
LEMMA SetStateAccounts ==
  ASSUME Inv, Accounted(sim), NEW state \in {"running", "paused"}, SetState(state),
         BoundState # "completed"
  PROVE  Accounted(sim')
<1>1. CASE button.of = "current"
  <2>1. sim' = [sim EXCEPT !.state = state] /\ sim.state # "completed"
    BY <1>1 DEF SetState, BoundState
  <2>2. /\ sim'.remaining = sim.remaining /\ sim'.inserted = sim.inserted /\ sim'.total = sim.total
        /\ sim'.buckets = sim.buckets /\ sim'.levels = sim.levels /\ sim'.points = sim.points
        /\ sim'.state = state
    BY <2>1 DEF Inv, Types, Sims
  <2> QED BY <2>1, <2>2, OtherwiseAccounts
<1>2. CASE button.of # "current"
  BY <1>2 DEF SetState
<1> QED BY <1>1, <1>2

\* Every point is accounted for, however often simulations are started, sped up and paused.
THEOREM Accounting == Spec => []AccountInv
<1>1. Init => AccountInv
  <2> SUFFICES ASSUME Init PROVE AccountInv  OBVIOUS
  <2>1. Accounted(sim)  BY FreshAccounts DEF Init
  <2>2. ticking \in BOOLEAN /\ dirty \in BOOLEAN  BY DEF Init
  <2>3. newInputs \in 0 .. InputsPerFrame /\ allInputs \in 0 .. MaxInputs
    BY BoardAssumption DEF Init
  <2> QED BY <2>1, <2>2, <2>3 DEF AccountInv
<1>2. Inv /\ Inv' /\ AccountInv /\ [Next]_vars => AccountInv'
  <2> SUFFICES ASSUME Inv, Inv', AccountInv, [Next]_vars PROVE AccountInv'  OBVIOUS
  <2>1. Accounted(sim')
    <3>1. CASE Frame
      <4>1. CASE ticking  BY <3>1, <4>1, SimulateAccounts DEF Frame, OnTick, AccountInv
      <4>2. CASE ~ticking  BY <3>1, <4>2 DEF Frame, AccountInv
      <4> QED BY <4>1, <4>2
    <3>2. CASE Replay \/ SetBoard \/ Restart
      <4>1. sim' = Fresh(params')
        BY <3>2 DEF Replay, SetBoard, Restart, StartFresh
      <4> DEFINE p == params'
      <4>2. p \in [levels : LevelValues, count : CountValues, speed : SpeedValues]
        BY DEF Inv, Types
      <4> HIDE DEF p
      <4>3. Accounted(Fresh(p))  BY <4>2, FreshAccounts
      <4> QED BY <4>1, <4>3 DEF p
    <3>3. CASE SetSpeed
      <4>1. CASE sim.state = "completed"
        <5>1. sim' = Fresh(params')  BY <3>3, <4>1 DEF SetSpeed, StartFresh
        <5> DEFINE p == params'
        <5>2. p \in [levels : LevelValues, count : CountValues, speed : SpeedValues]
          BY DEF Inv, Types
        <5> HIDE DEF p
        <5>3. Accounted(Fresh(p))  BY <5>2, FreshAccounts
        <5> QED BY <5>1, <5>3 DEF p
      <4>2. CASE sim.state # "completed"
        <5>1. PICK speed \in SpeedValues : sim' = [sim EXCEPT !.speed = speed]
          BY <3>3, <4>2 DEF SetSpeed
        <5>2. /\ sim'.remaining = sim.remaining /\ sim'.inserted = sim.inserted /\ sim'.total = sim.total
              /\ sim'.buckets = sim.buckets /\ sim'.levels = sim.levels /\ sim'.points = sim.points
              /\ sim'.state = sim.state
          BY <5>1 DEF Inv, Types, Sims
        <5> QED BY <5>2, OtherwiseAccounts DEF AccountInv
      <4> QED BY <4>1, <4>2
    <3>4. CASE Pause
      <4>1. CASE BoundState = "running"
        BY <3>4, <4>1, SetStateAccounts DEF Pause, AccountInv
      <4>2. CASE BoundState # "running"  BY <3>4, <4>2 DEF Pause, AccountInv
      <4> QED BY <4>1, <4>2
    <3>5. CASE Resume
      <4>1. CASE BoundState # "completed"
        BY <3>5, <4>1, SetStateAccounts DEF Resume, AccountInv
      <4>2. CASE BoundState = "completed"  BY <3>5, <4>2 DEF Resume, AccountInv
      <4> QED BY <4>1, <4>2
    <3>6. CASE UNCHANGED vars  BY <3>6 DEF vars, AccountInv
    <3> QED BY <3>1, <3>2, <3>3, <3>4, <3>5, <3>6 DEF Next
  <2>2. newInputs' \in 0 .. InputsPerFrame /\ allInputs' \in 0 .. MaxInputs
    <3>1. InputsPerFrame \in Nat /\ MaxInputs \in Nat  BY BoardAssumption
    <3>2. CASE Input  BY <3>1, <3>2 DEF Input, AccountInv
    <3>3. CASE Frame  BY <3>1, <3>3 DEF Frame, AccountInv
    <3>4. CASE UNCHANGED vars  BY <3>4 DEF vars, AccountInv
    <3>5. Input \/ Frame \/ UNCHANGED vars
      BY DEF Next, Replay, SetBoard, SetSpeed, Pause, Resume, Restart
    <3> QED BY <3>2, <3>3, <3>4, <3>5
  <2>3. ticking' \in BOOLEAN /\ dirty' \in BOOLEAN
    <3>1. CASE Frame  BY <3>1 DEF Frame, OnTick, AccountInv
    <3>2. CASE Replay \/ SetBoard \/ SetSpeed \/ Restart
      BY <3>2 DEF Replay, SetBoard, SetSpeed, Restart, StartFresh, AccountInv
    <3>3. CASE Pause \/ Resume  BY <3>3 DEF Pause, Resume, SetState, AccountInv
    <3>4. CASE UNCHANGED vars  BY <3>4 DEF vars, AccountInv
    <3> QED BY <3>1, <3>2, <3>3, <3>4 DEF Next
  <2> QED BY <2>1, <2>2, <2>3 DEF AccountInv
<1> QED BY <1>1, <1>2, Invariance, PTL DEF Spec

\* _pointsRemaining, _pointsInserted, the queue and the buckets always add up, and a
\* simulation is completed exactly when every point has fallen (simstate.dart).
THEOREM NothingLost == Spec => []NoPointLost
<1>1. AccountInv => NoPointLost  BY DEF AccountInv, Accounted, NoPointLost
<1> QED BY Accounting, <1>1, PTL

\* The types: a point on the board is on one of its slots with no more heads than
\* levels below the first, and no bucket holds more points than there are.
THEOREM TypeCorrect == Spec => []TypeOK
<1>1. Inv /\ AccountInv => TypeOK
  <2> SUFFICES ASSUME Inv, AccountInv PROVE TypeOK  OBVIOUS
  <2>1. /\ sim \in Sims /\ sim.levels \in LevelValues /\ sim.levels \in Nat \ {0, 1}
        /\ sim.total \in CountValues /\ sim.total \in Nat /\ sim.speed \in SpeedValues
        /\ sim.remaining \in Nat /\ sim.inserted \in Nat /\ sim.points \in Seq(OnBoard)
        /\ sim.state \in States
    BY Constants DEF Inv, Types, Sims
  <2>2. sim.remaining + sim.inserted = sim.total  BY DEF AccountInv, Accounted
  <2>3. sim.points \in Seq(Point(sim.levels))
    <3>1. /\ Len(sim.points) \in Nat /\ DOMAIN sim.points = 1 .. Len(sim.points)
          /\ \A i \in 1 .. Len(sim.points) : sim.points[i] \in OnBoard
      BY <2>1, LenProperties, ElementOfSeq
    <3>2. MaxSlot(sim.levels) \in Int  BY <2>1, Constants DEF MaxSlot
    <3>3. \A i \in 1 .. Len(sim.points) : sim.points[i] \in Point(sim.levels)
      <4> SUFFICES ASSUME NEW i \in 1 .. Len(sim.points) PROVE sim.points[i] \in Point(sim.levels)
        OBVIOUS
      <4> DEFINE point == sim.points[i]
      <4>1. point \in OnBoard /\ point.slot \in Int  BY <3>1 DEF OnBoard
      <4>2. point.slot <= MaxSlot(sim.levels) /\ point.heads <= Trials(point.slot, sim.levels)
        BY <3>1 DEF AccountInv, Accounted, HeadsFit
      <4> HIDE DEF point
      <4>3. Trials(point.slot, sim.levels) \in Nat  BY <2>1, <4>1, CoinsType
      <4>4. Trials(point.slot, sim.levels) <= sim.levels - 1  BY <2>1, <4>1, <4>3 DEF Trials
      <4>5. point.slot \in 1 .. MaxSlot(sim.levels) /\ point.heads \in 0 .. sim.levels - 1
        BY <2>1, <3>2, <4>1, <4>2, <4>3, <4>4 DEF OnBoard
      <4>6. point \in Point(sim.levels)  BY <4>1, <4>5 DEF OnBoard, Point
      <4> QED BY <4>6 DEF point
    <3>4. sim.points = [i \in 1 .. Len(sim.points) |-> sim.points[i]]  BY <2>1, <3>1
    <3> QED BY <3>1, <3>3, <3>4, IsASeq
  <2>4. sim.buckets \in [0 .. sim.levels - 1 -> 0 .. sim.total]
    <3> DEFINE D == 0 .. sim.levels - 1
    <3>1. PICK last \in Int : last = sim.levels - 1  BY <2>1
    <3>2. IsFiniteSet(0 .. last)  BY FS_Interval
    <3>3. IsFiniteSet(D)  BY <3>1, <3>2
    <3>4. PICK f \in [D -> Nat] : f = sim.buckets  BY DEF AccountInv, Accounted
    <3> HIDE DEF D
    <3>5. \A b \in D : f[b] <= SumFunction(f)  BY <3>3, SumBound
    <3>6. SumFunction(f) \in Nat  BY <3>3, SumType
    <3>7. SumFunction(f) <= sim.total
      <4>1. Len(sim.points) + SumFunction(f) = sim.inserted  BY <3>4 DEF AccountInv, Accounted
      <4>2. Len(sim.points) \in Nat  BY <2>1, LenProperties
      <4> QED BY <2>1, <2>2, <3>6, <4>1, <4>2
    <3>8. \A b \in D : f[b] \in 0 .. sim.total  BY <2>1, <3>5, <3>6, <3>7
    <3>9. f \in [D -> 0 .. sim.total]  BY <3>8
    <3> QED BY <3>4, <3>9 DEF D
  <2>5. button.onTap \in {OnTap(s) : s \in States} /\ button.of \in States \cup {"current"}
    <3>1. /\ OnTap("running") = "pause" /\ OnTap("paused") = "resume"
          /\ OnTap("completed") = "startFreshSimulation"
      BY DEF OnTap
    <3>2. {"pause", "resume", "startFreshSimulation"} \subseteq {OnTap(s) : s \in States}
      BY <3>1 DEF States
    <3> QED BY <3>2 DEF Inv, Types
  <2>6. params \in [levels : LevelValues, count : CountValues, speed : SpeedValues] /\ failed = FALSE
    BY DEF Inv, Types
  <2>7. sim.remaining \in 0 .. sim.total /\ sim.inserted \in 0 .. sim.total  BY <2>1, <2>2
  <2> QED BY <2>1, <2>3, <2>4, <2>5, <2>6, <2>7 DEF TypeOK, AccountInv
<1> QED BY Invariance, Accounting, <1>1, PTL
================================================================================
