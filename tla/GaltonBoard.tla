------------------------------ MODULE GaltonBoard ------------------------------
(***************************************************************************)
(* The simulation of the galtonboard app: SimStateController with its      *)
(* current SimState and the points in flight, the one tick notifier that   *)
(* all simulations share, and the pause button, a widget that rebuilds on  *)
(* events.                                                                 *)
(*                                                                         *)
(* Everything runs on one isolate.  A frame of Flutter calls the ticker    *)
(* and then rebuilds what is marked; the user's inputs are handled between *)
(* frames, where the button is still the one the last frame built, bound   *)
(* to the simulation and the state of that time.                           *)
(***************************************************************************)
EXTENDS Integers, Sequences, FiniteSets, Functions

CONSTANTS
  SlotsPerLevel,   \* slotsPerLevel, and slotsIntoBucket with it
  LevelValues,     \* allowedValues of the levels parameter,
  CountValues,     \* of the count parameter,
  SpeedValues,     \* and what _slotsPerFrame makes of the speed parameter
  InputsPerFrame,  \* bound: inputs between two frames
  MaxInputs        \* bound: inputs of the user in all

ASSUME BoardAssumption ==
  /\ SlotsPerLevel \in Nat \ {0} /\ SpeedValues \subseteq Nat \ {0}
  /\ LevelValues \subseteq Nat \ {0, 1} /\ CountValues \subseteq Nat \ {0}
  /\ InputsPerFrame \in Nat /\ MaxInputs \in Nat

VARIABLES
  params,     \* the selected levels, count and speed
  sim,        \* currentSimState
  ticking,    \* whether the tick notifier's Ticker is active
  button,     \* the pause button as built: its callback, and the simulation it is bound to
  dirty,      \* the button is marked for rebuild
  failed,     \* an exception left _onTick
  newInputs,  \* inputs since the last frame
  allInputs   \* inputs so far

vars == <<params, sim, ticking, button, dirty, failed, newInputs, allInputs>>

States == {"running", "paused", "completed"}

\* SimState._init, with _slotsPerFrame as it is now.
Fresh(p) ==
  [levels |-> p.levels, total |-> p.count, speed |-> p.speed,
   remaining |-> p.count, inserted |-> 0, points |-> <<>>,
   buckets |-> [b \in 0 .. p.levels - 1 |-> 0], state |-> "running"]

\* onTap of _pauseResumer, from the state at the time it is built.
OnTap(state) ==
  CASE state = "running" -> "pause" [] state = "paused" -> "resume"
    [] state = "completed" -> "startFreshSimulation"

\* of: the bound simulation is still the current one, or else the state it is in.
Built(s) == [onTap |-> OnTap(s.state), of |-> "current"]

Init ==
  /\ params \in [levels : LevelValues, count : CountValues, speed : SpeedValues]
  /\ sim = Fresh(params) /\ ticking = TRUE
  /\ button = Built(sim) /\ dirty = FALSE
  /\ failed = FALSE /\ newInputs = 0 /\ allInputs = 0

--------------------------------------------------------------------------------
\* Points.simulate: the new points join behind, on slots 0, -1, ...; then every
\* point advances, and those past the last slot fall into the bucket of their heads.

NewPointsTogether(n) == [i \in 1 .. n |-> [slot |-> 0, heads |-> 0]]  \* mutant: not -i
NewPoints(n) == [i \in 1 .. n |-> [slot |-> 1 - i, heads |-> 0]]

\* _getTrials.  (A point's _level is a function of its slot number.)
Trials(slot, levels) ==
  IF slot <= 0 THEN 0
  ELSE LET trials == (slot - 1) \div SlotsPerLevel + 1
       IN  IF trials > levels - 1 THEN levels - 1 ELSE trials

MaxSlot(levels) == SlotsPerLevel * (levels - 1) + SlotsPerLevel

\* What Point.advance(slots) may make of the points: each trial is one coin.
Advanced(points, slots, levels) ==
  LET coins(i) == Trials(points[i].slot + slots, levels) - Trials(points[i].slot, levels)
  IN  {[i \in DOMAIN points |->
          [slot |-> points[i].slot + slots, heads |-> points[i].heads + right[i]]] :
         right \in {r \in [DOMAIN points -> 0 .. levels - 1] :
                      \A i \in DOMAIN points : r[i] <= coins(i)}}

Done(points, levels) == {i \in DOMAIN points : points[i].slot > MaxSlot(levels)}

\* The StateErrors of the loop: a point that completes behind one that does not,
\* or that has not entered the board.
LoopFails(points, levels) ==
  \/ \E i \in Done(points, levels), j \in DOMAIN points \ Done(points, levels) : j < i
  \/ \E i \in DOMAIN points : points[i].slot <= 0

Buckets(before, points, done) ==
  [b \in DOMAIN before |-> before[b] + Cardinality({i \in done : points[i].heads = b})]

--------------------------------------------------------------------------------
\* A frame: TickNotifier's Ticker, if active, calls _onTick of the current
\* simulation; then the marked widgets are rebuilt.

\* currentPointsInFrame
PointsPerFrame(s) == s.speed  \* mutant: not capped by what remains
PointsInFrame(s) == IF s.remaining < s.speed THEN s.remaining ELSE s.speed

MovedLastIn(s, points) ==  \* mutant: completed when the last point has entered
  LET new  == PointsInFrame(s)
      done == Done(points, s.levels)
  IN  [s EXCEPT !.remaining = @ - new, !.inserted = @ + new,
                !.points = SubSeq(points, Cardinality(done) + 1, Len(points)),
                !.buckets = Buckets(@, points, done),
                !.state = IF s.remaining = new THEN "completed" ELSE @]

\* _simulateMovement, when the points have advanced to `points`.
Moved(s, points) ==
  LET new  == PointsInFrame(s)
      done == Done(points, s.levels)
      left == SubSeq(points, Cardinality(done) + 1, Len(points))
  IN  [s EXCEPT !.remaining = @ - new, !.inserted = @ + new, !.points = left,
                !.buckets = Buckets(@, points, done),
                !.state = IF left = <<>> /\ s.remaining = new THEN "completed" ELSE @]

\* _simulateMovement
Simulate ==
  IF sim.state = "completed" THEN UNCHANGED <<sim, failed>>
  ELSE \E points \in Advanced(sim.points \o NewPoints(PointsInFrame(sim)), sim.speed, sim.levels) :
         /\ failed' = LoopFails(points, sim.levels)
         /\ sim' = IF failed' THEN sim ELSE Moved(sim, points)

\* _onTick
OnTickGoesOn == Simulate /\ UNCHANGED ticking  \* mutant: does not pause the notifier
OnTick == Simulate /\ ticking' = (sim'.state # "completed")

Frame ==
  /\ ~failed /\ (ticking \/ dirty)
  /\ IF ticking THEN OnTick ELSE UNCHANGED <<sim, ticking, failed>>
  /\ button' = Built(sim') /\ dirty' = FALSE   \* a tick marks the button, too
  /\ newInputs' = 0
  /\ UNCHANGED <<params, allInputs>>

--------------------------------------------------------------------------------
\* The user's inputs.

Input ==
  /\ ~failed /\ newInputs < InputsPerFrame /\ allInputs < MaxInputs
  /\ newInputs' = newInputs + 1 /\ allInputs' = allInputs + 1
  /\ UNCHANGED failed

\* startFreshSimulation: dispose of the current one, create, fire.
StartFreshSilently(p) ==  \* mutant: fires no event
  /\ sim' = Fresh(p)
  /\ ticking' = TRUE
  /\ button' = IF button.of = "current" THEN [button EXCEPT !.of = sim.state] ELSE button
  /\ UNCHANGED dirty
StartFresh(p) ==
  /\ sim' = Fresh(p)
  /\ ticking' = TRUE
  /\ button' = IF button.of = "current" THEN [button EXCEPT !.of = sim.state] ELSE button
  /\ dirty' = TRUE

\* The replay button.
Replay == Input /\ StartFresh(params) /\ UNCHANGED params

\* setSelectedIndex of the levels, the count or the bias parameter: _paramUpdated.
\* (The bias is in the coins.)
SetBoard ==
  \E levels \in LevelValues, count \in CountValues :
    /\ Input
    /\ params' = [params EXCEPT !.levels = levels, !.count = count]
    /\ \/ levels = params.levels \/ count = params.count
    /\ StartFresh(params')

\* setSelectedIndex of the speed parameter: _paramUpdated(createFreshSim: false).
SetSpeed ==
  \E speed \in SpeedValues :
    /\ Input
    /\ params' = [params EXCEPT !.speed = speed]
    /\ IF sim.state = "completed" THEN StartFresh(params')
       ELSE sim' = [sim EXCEPT !.speed = speed] /\ UNCHANGED <<ticking, button, dirty>>

\* pause and resume of the simulation the button is bound to, which may have been
\* disposed of; its tick notifier is everyone's.  Pausing one that is not running
\* is an assertion error that leaves everything as it is.
SetState(state) ==
  /\ IF button.of = "current" THEN sim' = [sim EXCEPT !.state = state] /\ UNCHANGED button
     ELSE button' = [button EXCEPT !.of = state] /\ UNCHANGED sim
  /\ dirty' = TRUE

BoundState == IF button.of = "current" THEN sim.state ELSE button.of

Pause ==
  /\ Input /\ button.onTap = "pause"
  /\ IF BoundState = "running" THEN ticking' = FALSE /\ SetState("paused")
     ELSE UNCHANGED <<sim, ticking, button, dirty>>
  /\ UNCHANGED params

Resume ==
  /\ Input /\ button.onTap = "resume"
  /\ IF BoundState # "completed" THEN ticking' = TRUE /\ SetState("running")
     ELSE UNCHANGED <<sim, ticking, button, dirty>>
  /\ UNCHANGED params

Restart ==
  /\ Input /\ button.onTap = "startFreshSimulation"
  /\ StartFresh(params) /\ UNCHANGED params

Next == Frame \/ Replay \/ SetBoard \/ SetSpeed \/ Pause \/ Resume \/ Restart

Spec == Init /\ [][Next]_vars

\* Flutter draws a frame as long as a ticker is active or a widget is marked.
FairSpec == Spec /\ WF_vars(Frame)

--------------------------------------------------------------------------------
\* Properties.

Point(levels) == [slot : 1 .. MaxSlot(levels), heads : 0 .. levels - 1]

TypeOK ==
  /\ params \in [levels : LevelValues, count : CountValues, speed : SpeedValues]
  /\ sim.levels \in LevelValues /\ sim.total \in CountValues /\ sim.speed \in SpeedValues
  /\ sim.remaining \in 0 .. sim.total /\ sim.inserted \in 0 .. sim.total
  /\ sim.points \in Seq(Point(sim.levels))
  /\ sim.buckets \in [0 .. sim.levels - 1 -> 0 .. sim.total]
  /\ sim.state \in States
  /\ ticking \in BOOLEAN /\ dirty \in BOOLEAN /\ failed \in BOOLEAN
  /\ button.onTap \in {OnTap(s) : s \in States} /\ button.of \in States \cup {"current"}
  /\ newInputs \in 0 .. InputsPerFrame /\ allInputs \in 0 .. MaxInputs

\* "i should be 0" (points.dart:53): points complete in the order they entered,
\* whatever the user does to the speed meanwhile; no two are ever on one slot.
PointsInOrder ==
  /\ ~failed
  /\ \A i, j \in DOMAIN sim.points : i < j => sim.points[i].slot > sim.points[j].slot

\* Every point of a simulation is still to come, on the board or in a bucket, and
\* the simulation is completed when all are in buckets.
NoPointLost ==
  LET inBuckets == SumFunction(sim.buckets)
  IN  /\ sim.remaining + sim.inserted = sim.total
      /\ Len(sim.points) + inBuckets = sim.inserted
      /\ sim.state = "completed" <=> inBuckets = sim.total

\* The button shows, and will do, what the current simulation's state calls for,
\* unless its rebuild is already marked ("UI = f(State)", state_management.md:15).
ShowsState == ~dirty => button = Built(sim)

\* The ticker, which all simulations start and stop, never drives a paused or
\* completed one, whichever simulation a tap still reached.
TicksOnlyRunning == ticking => sim.state = "running"

\* Left alone, the board comes to rest: frames are not drawn for ever.
ComesToRest == <>[](~ticking /\ ~dirty)
================================================================================
