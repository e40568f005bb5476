------------------------------- MODULE SharedRule ------------------------------
(***************************************************************************)
(* One shared test rule of vtestrunner: the counter protocol between the   *)
(* tests that run inside one candidate of ClassParam.chooseFrom.  The      *)
(* runner fixes which tests will use the rule and presets the teardown     *)
(* counter; each test increments the setup counter on its way in and       *)
(* decrements the teardown counter on its way out, and acts on the value   *)
(* it gets (SharedTestRule.java:16-22, as SimpleRule implements it).       *)
(***************************************************************************)
EXTENDS Integers, FiniteSets

CONSTANT Tests   \* all tests of the class

\* A filter hands the runner a finite list of tests.
TestLists == {S \in SUBSET Tests : IsFiniteSet(S)}

VARIABLES
  members,          \* the tests that will run inside this rule
  setupCounter,     \* AtomicInteger, from 0
  teardownCounter,  \* AtomicInteger, preset to the number of members
  pc,               \* where each test stands with respect to this rule
  setUps,           \* times the resource was set up ...
  tearDowns         \* ... and torn down

ruleVars == <<members, setupCounter, teardownCounter, pc, setUps, tearDowns>>

Init ==
  /\ members \in TestLists
  /\ setupCounter = 0
  /\ teardownCounter = Cardinality(members)
  /\ pc = [t \in Tests |-> "out"]
  /\ setUps = 0 /\ tearDowns = 0

\* setCounterValues: before any test runs, a filter may change who will use the rule.
Assign ==
  /\ \A t \in Tests : pc[t] = "out"
  /\ members' \in TestLists
  /\ teardownCounter' = Cardinality(members')
  /\ UNCHANGED <<setupCounter, pc, setUps, tearDowns>>

\* if (setupCounter.getAndIncrement() == 0): the first one in sets the resource up.
Enter(t) ==
  /\ t \in members /\ pc[t] = "out"
  /\ setupCounter' = setupCounter + 1
  /\ pc' = [pc EXCEPT ![t] = IF setupCounter = 0 THEN "settingUp" ELSE "in"]
  /\ UNCHANGED <<members, teardownCounter, setUps, tearDowns>>

SetUp(t) ==
  /\ pc[t] = "settingUp"
  /\ setUps' = setUps + 1
  /\ pc' = [pc EXCEPT ![t] = "in"]
  /\ UNCHANGED <<members, setupCounter, teardownCounter, tearDowns>>

\* finally, if (teardownCounter.decrementAndGet() == 0): the last one out tears it down.
Leave(t) ==
  /\ pc[t] = "in"
  /\ teardownCounter' = teardownCounter - 1
  /\ pc' = [pc EXCEPT ![t] = IF teardownCounter' = 0 THEN "tearingDown" ELSE "gone"]
  /\ UNCHANGED <<members, setupCounter, setUps, tearDowns>>

TearDown(t) ==
  /\ pc[t] = "tearingDown"
  /\ tearDowns' = tearDowns + 1
  /\ pc' = [pc EXCEPT ![t] = "gone"]
  /\ UNCHANGED <<members, setupCounter, teardownCounter, setUps>>

TestStep(t) == Enter(t) \/ SetUp(t) \/ Leave(t) \/ TearDown(t)

Next ==
  \/ \E t \in Tests : TestStep(t)
  \/ Assign

Spec == Init /\ [][Next]_ruleVars

--------------------------------------------------------------------------------
\* Properties.

TypeOK ==
  /\ members \in TestLists
  /\ setupCounter \in 0 .. Cardinality(members)
  /\ teardownCounter \in 0 .. Cardinality(members)
  /\ pc \in [Tests -> {"out", "settingUp", "in", "tearingDown", "gone"}]
  /\ setUps \in {0, 1} /\ tearDowns \in {0, 1}

\* "It should setup its resource exactly once and tear it down exactly one."
\* (SharedTestRule.java:18): never twice, and once each when all members are through.
SetUpAndTornDownOnce ==
  /\ setUps <= 1 /\ tearDowns <= 1
  /\ members # {} /\ (\A t \in members : pc[t] = "gone") => setUps = 1 /\ tearDowns = 1

\* A test never runs inside a rule that is torn down or being torn down, however
\* the threads interleave, and neither is a member still to come.
NeverUsedTornDown ==
  tearDowns > 0 \/ (\E t \in Tests : pc[t] = "tearingDown")
    => \A t \in members : pc[t] \in {"tearingDown", "gone"}
================================================================================
