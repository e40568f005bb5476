------------------------------ MODULE VTestRunner ------------------------------
(***************************************************************************)
(* One test class under vtestrunner's VTestRunner: class parameters chosen *)
(* by test index, test filters, shared rules with their counters, and the  *)
(* pool of threads that runs the tests.                                    *)
(*                                                                         *)
(* The class has Len(Sizes) fields initialised by ClassParam.chooseFrom;   *)
(* the l-th of them has Sizes[l] candidates, numbered from 0.  Its tests   *)
(* are numbered as computeTestMethods lists them: every combination of     *)
(* candidates, and under it every test method.                             *)
(***************************************************************************)
EXTENDS Integers, Sequences, FiniteSets, Functions

CONSTANTS
  Sizes,         \* candidates of each class parameter, in field order
  SharedLevels,  \* the class parameters whose candidates are SharedTestRules
  MethodCount,   \* test methods, those with method parameters already exploded
  IgnoredSets,   \* the sets of methods that may be annotated @Ignore
  MaxThrows,     \* bound: how many test instances' constructors throw of their own
  Filters,       \* the filters a harness may ask for, each the set of tests it keeps
  MaxFilters,    \* bound: how often filter() is called
  Threads        \* threads that run tests, 1 without @TestConfig

Levels == 1 .. Len(Sizes)

\* seen, numCombos: the number of candidates, multiplied up field by field.
Product(s) ==
  LET upTo[k \in 0 .. Len(s)] == IF k = 0 THEN 1 ELSE upTo[k - 1] * s[k]
  IN  upTo[Len(s)]

NumCombos == Product(Sizes)

ASSUME VTestRunnerAssumption ==
  /\ Sizes \in Seq(Nat \ {0})
  /\ SharedLevels \subseteq Levels /\ SharedLevels # {}
  /\ MethodCount \in Nat \ {0} /\ IgnoredSets \subseteq SUBSET (0 .. MethodCount - 1)
  /\ MaxThrows \in Nat /\ MaxFilters \in Nat /\ Threads \in Nat \ {0}
  /\ Filters \subseteq SUBSET (0 .. NumCombos * MethodCount - 1)

Tests == 0 .. NumCombos * MethodCount - 1
ComboOf(t)  == t \div MethodCount
MethodOf(t) == t % MethodCount

Candidates(l) == 0 .. Sizes[l] - 1
Rules == UNION {{l} \X Candidates(l) : l \in SharedLevels}   \* <<level, candidate>>

\* names: the candidates that the name of a combination lists (addNames: the first
\* field varies slowest).
Names ==
  [combo \in 0 .. NumCombos - 1 |->
     [l \in Levels |-> (combo \div Product(SubSeq(Sizes, l + 1, Len(Sizes)))) % Sizes[l]]]
NameOf(t) == Names[ComboOf(t)]

VARIABLES
  ignored,          \* the methods annotated @Ignore
  phase,            \* the class: "evaluated", "running", "finished"
  filterCalls,      \* filter() calls so far
  children,         \* getFilteredChildren: what JUnit will run
  active,           \* activeTestMethods
  index,            \* IndexedMethod.index of every test
  setupCounter, teardownCounter,   \* per shared rule
  setUps, tearDowns,               \* SimpleRule.level, split: set up, torn down
  builders,         \* SharedRuleChain.rulebuilders: per index, curIdx and the chain's rules
  pc,               \* position of the thread that runs a test
  depth,            \* rules of the test's chain entered and not yet left
  chain,            \* the test's rule chain, outermost first
  chosen,           \* what its chooseFrom calls returned, in field order
  threw             \* the tests whose constructor threw of its own

classVars == <<ignored, phase, filterCalls, children, active, index>>
ruleState == <<setupCounter, teardownCounter, setUps, tearDowns>>
testVars  == <<builders, pc, depth, chain, chosen, threw>>
vars      == <<classVars, ruleState, testVars>>

\* setCounterValues(methodCount): integer division, level by level.
TeardownPresetPerMethod(methodCount) == [r \in Rules |-> methodCount]  \* mutant: forgets the other levels
TeardownPreset(methodCount) == [r \in Rules |-> (NumCombos * methodCount) \div Sizes[r[1]]]

Init ==
  /\ ignored \in IgnoredSets
  /\ phase = "evaluated" /\ filterCalls = 0
  /\ children = Tests /\ active = Tests
  /\ index = [t \in Tests |-> t]
  /\ setupCounter = [r \in Rules |-> 0]
  /\ teardownCounter = TeardownPreset(MethodCount)
  /\ setUps = [r \in Rules |-> 0] /\ tearDowns = [r \in Rules |-> 0]
  /\ builders = [i \in Tests |-> [curIdx |-> -1, inners |-> <<>>]]
  /\ pc = [t \in Tests |-> "idle"]
  /\ depth = [t \in Tests |-> 0]
  /\ chain = [t \in Tests |-> <<>>]
  /\ chosen = [t \in Tests |-> <<>>]
  /\ threw = {}

--------------------------------------------------------------------------------
\* VTestRunner.filter.  JUnit narrows its children further with every call; the
\* runner starts from the raw list each time, renumbers what the filter keeps
\* and presets the counters again.  A filter that leaves no child ends the class.

\* imap: the last position of the old index in the sorted list of kept indices.
ReindexNone(kept) == index  \* mutant: the survivors keep their indices
Reindex(kept) ==
  [t \in Tests |-> IF t \in kept THEN Cardinality({s \in kept : index[s] <= index[t]}) - 1
                   ELSE index[t]]

Filter(kept) ==
  /\ phase = "evaluated" /\ filterCalls < MaxFilters
  /\ children \cap kept # {}
  /\ filterCalls' = filterCalls + 1
  /\ children' = children \cap kept
  /\ active' = kept
  /\ teardownCounter' = TeardownPreset(Cardinality(kept) \div NumCombos)
  /\ index' = Reindex(kept)
  /\ UNCHANGED <<ignored, phase, setupCounter, setUps, tearDowns, testVars>>

\* runChildren: every child is submitted to the scheduler.
RunChildren ==
  /\ phase = "evaluated"
  /\ phase' = "running"
  /\ pc' = [t \in Tests |-> IF t \in children THEN "queued" ELSE "idle"]
  /\ UNCHANGED <<ignored, filterCalls, children, active, index, ruleState, builders, depth, chain, chosen, threw>>

\* Parallelizer.finished: shutdown and awaitTermination.
FinishedAllTests ==  \* mutant: waits for tests that a filter removed, too
  /\ phase = "running"
  /\ \A t \in Tests : pc[t] = "done"
  /\ phase' = "finished"
  /\ UNCHANGED <<ignored, filterCalls, children, active, index, ruleState, testVars>>
Finished ==
  /\ phase = "running"
  /\ \A t \in children : pc[t] = "done"
  /\ phase' = "finished"
  /\ UNCHANGED <<ignored, filterCalls, children, active, index, ruleState, testVars>>

--------------------------------------------------------------------------------
\* One test on a pool thread.

\* The pool takes the children in the order they were submitted.
Start(t) ==
  /\ pc[t] = "queued"
  /\ ~\E s \in Tests : s < t /\ pc[s] = "queued"
  /\ Cardinality({s \in Tests : pc[s] \notin {"idle", "queued", "done"}}) < Threads
  /\ pc' = [pc EXCEPT ![t] = IF MethodOf(t) \in ignored THEN "done" ELSE "construct"]
  /\ UNCHANGED <<classVars, ruleState, builders, depth, chain, chosen, threw>>

\* SharedRuleChain.select: which of n candidates the test numbered idx gets when
\* the product of the sizes of the fields before is seen; -1 stands for the
\* exception of a division by zero or of a candidate that does not exist.
SelectEarlierFastest(idx, seen, n) == (idx \div seen) % n  \* mutant: the first field varies fastest
Select(idx, seen, n) ==
  LET left  == Cardinality(active) \div seen
      later == left \div n
  IN  IF later = 0 \/ (idx % left) \div later >= n THEN -1 ELSE (idx % left) \div later

\* The candidates that the chooseFrom calls of one constructor return, of a builder
\* that has seen `before` fields: until all fields are assigned, the constructor
\* throws (after `calls` calls), or a call throws itself.
ChooseFrom(idx, before, calls) ==
  LET left == Len(Sizes) - before
      got  == [k \in 1 .. IF calls < left THEN calls ELSE left |->
                 Select(idx, Product(SubSeq(Sizes, 1, k - 1)), Sizes[before + k])]
  IN  SubSeq(got, 1, Cardinality({k \in DOMAIN got : \A j \in 1 .. k : got[j] # -1}))

\* The same calls, as they extend the rules of the builder: nextInnerShared adds the
\* candidate it has chosen, nextInnerNonShared adds nothing.
AddRules(inners, before, got) ==
  LET held[k \in 0 .. Len(got)] ==
        IF k = 0 THEN inners
        ELSE IF before + k \in SharedLevels THEN Append(held[k - 1], <<before + k, got[k]>>)
        ELSE held[k - 1]
  IN  held[Len(got)]

\* createTest, then SharedRuleChain.sharedRuleChain(tidx).apply: the builder kept
\* for the test's index collects the shared rules its constructor chooses, and the
\* test runs inside all the builder holds.  (The calls of one constructor are one
\* step: they touch nothing but the builder of this index.)  Without a rule there
\* is nothing but the constructor's failure to report.
Construct(t, calls) ==
  /\ pc[t] = "construct"
  /\ threw' = threw \cup (IF calls < Len(Sizes) THEN {t} ELSE {})
  /\ Cardinality(threw') <= MaxThrows
  /\ LET idx    == index[t]
         before == builders[idx].curIdx + 1
     IN  \E got \in {ChooseFrom(idx, before, calls)} :
           LET made   == IF Len(got) = calls THEN calls ELSE Len(got) + 1
               inners == AddRules(builders[idx].inners, before, got)
           IN  /\ chosen' = [chosen EXCEPT ![t] = got]
               /\ builders' = [builders EXCEPT ![idx] = [curIdx |-> @.curIdx + made, inners |-> inners]]
               /\ chain' = [chain EXCEPT ![t] = inners]
               /\ pc' = [pc EXCEPT ![t] = IF inners = <<>> THEN "done" ELSE "enter"]
  /\ UNCHANGED <<classVars, ruleState, depth>>

\* The rule the test is about to enter, or the innermost one it is in.
NextRule(t) == chain[t][depth[t] + 1]
Innermost(t) == chain[t][depth[t]]

\* if (setupCounter.getAndIncrement() == 0) ... of SimpleRule.apply
Enter(t) ==
  LET r == NextRule(t)
  IN  /\ pc[t] = "enter"
      /\ setupCounter' = [setupCounter EXCEPT ![r] = @ + 1]
      /\ IF setupCounter[r] = 0
           THEN pc' = [pc EXCEPT ![t] = "setUp"] /\ UNCHANGED depth
           ELSE /\ depth' = [depth EXCEPT ![t] = @ + 1]
                /\ pc' = [pc EXCEPT ![t] = IF depth'[t] = Len(chain[t]) THEN "body" ELSE "enter"]
      /\ UNCHANGED <<classVars, teardownCounter, setUps, tearDowns, builders, chain, chosen, threw>>

SetUp(t) ==
  /\ pc[t] = "setUp"
  /\ setUps' = [setUps EXCEPT ![NextRule(t)] = @ + 1]
  /\ depth' = [depth EXCEPT ![t] = @ + 1]
  /\ pc' = [pc EXCEPT ![t] = IF depth'[t] = Len(chain[t]) THEN "body" ELSE "enter"]
  /\ UNCHANGED <<classVars, setupCounter, teardownCounter, tearDowns, builders, chain, chosen, threw>>

\* stmt.evaluate(): the test method, or the failure of the constructor; either
\* way the finally blocks follow.
Body(t) ==
  /\ pc[t] = "body"
  /\ pc' = [pc EXCEPT ![t] = "leave"]
  /\ UNCHANGED <<classVars, ruleState, builders, depth, chain, chosen, threw>>

Left(t, d) == IF d = 0 THEN "done" ELSE "leave"

\* finally { if (teardownCounter.decrementAndGet() == 0) ... }
LeaveLastMember(t) ==  \* mutant: getAndDecrement() == 0
  LET r == Innermost(t)
  IN  /\ pc[t] = "leave"
      /\ teardownCounter' = [teardownCounter EXCEPT ![r] = @ - 1]
      /\ IF teardownCounter[r] = 0
           THEN pc' = [pc EXCEPT ![t] = "tearDown"] /\ UNCHANGED depth
           ELSE /\ depth' = [depth EXCEPT ![t] = @ - 1]
                /\ pc' = [pc EXCEPT ![t] = Left(t, depth'[t])]
      /\ UNCHANGED <<classVars, setupCounter, setUps, tearDowns, builders, chain, chosen, threw>>
Leave(t) ==
  LET r == Innermost(t)
  IN  /\ pc[t] = "leave"
      /\ teardownCounter' = [teardownCounter EXCEPT ![r] = @ - 1]
      /\ IF teardownCounter'[r] = 0
           THEN pc' = [pc EXCEPT ![t] = "tearDown"] /\ UNCHANGED depth
           ELSE /\ depth' = [depth EXCEPT ![t] = @ - 1]
                /\ pc' = [pc EXCEPT ![t] = Left(t, depth'[t])]
      /\ UNCHANGED <<classVars, setupCounter, setUps, tearDowns, builders, chain, chosen, threw>>

TearDown(t) ==
  /\ pc[t] = "tearDown"
  /\ tearDowns' = [tearDowns EXCEPT ![Innermost(t)] = @ + 1]
  /\ depth' = [depth EXCEPT ![t] = @ - 1]
  /\ pc' = [pc EXCEPT ![t] = Left(t, depth'[t])]
  /\ UNCHANGED <<classVars, setupCounter, teardownCounter, setUps, builders, chain, chosen, threw>>

RunTest(t) ==
  \/ Start(t)
  \/ \E calls \in 0 .. Len(Sizes) : Construct(t, calls)
  \/ Enter(t)
  \/ SetUp(t)
  \/ Body(t)
  \/ Leave(t)
  \/ TearDown(t)

Next ==
  \/ \E kept \in Filters : Filter(kept)
  \/ RunChildren
  \/ Finished
  \/ \E t \in Tests : RunTest(t)

Spec == Init /\ [][Next]_vars

\* The harness and the threads of the pool do not all stop as long as one of them can go on.
FairSpec == Spec /\ WF_vars(Next)

--------------------------------------------------------------------------------
\* Properties.

\* Every test the class runs is given the parameter values its description names
\* (ClassParam.java:80-85): select, by the test's index after filtering, finds the
\* combination that describeChild names by its number before filtering.  (A constructor that throws
\* of its own has not come to its later fields.)
RunsAsNamed ==
  \A t \in children :
    pc[t] = "done" /\ MethodOf(t) \notin ignored /\ t \notin threw => chosen[t] = NameOf(t)

\* A shared rule that a test was to run in is set up exactly once and torn down
\* exactly once (SharedTestRule.java:18) by the time the class is finished.
SharedRulesOnce ==
  phase = "finished" =>
    \A t \in children, l \in SharedLevels :
      MethodOf(t) \notin ignored =>
        LET r == <<l, NameOf(t)[l]>> IN setUps[r] = 1 /\ tearDowns[r] = 1

\* The tests named after the candidate that shared rule r is.
MembersOf(r) == {t \in active : NameOf(t)[r[1]] = r[2]}

\* The same of a rule all of whose members ran: an ignored test, or one that threw before it chose
\* the rule, is counted on in vain, but a rule that has no such member is not affected by the others.
SharedRulesOnceIfAllRan ==
  phase = "finished" =>
    \A r \in Rules :
      MembersOf(r) # {} /\ (\A t \in MembersOf(r) : MethodOf(t) \notin ignored /\ t \notin threw)
        => setUps[r] = 1 /\ tearDowns[r] = 1

\* Rules nest: while a test is inside a chain, each rule it has entered outlives it.
NothingTornDownAround ==
  \A t \in Tests : pc[t] \in {"enter", "setUp", "body", "leave"} =>
    \A d \in 1 .. depth[t] : tearDowns[chain[t][d]] = 0

\* Where test t stands with respect to rule r.
Within(t, r) ==
  LET d == CHOOSE k \in DOMAIN chain[t] : chain[t][k] = r
  IN  IF r \notin Range(chain[t]) THEN "out"
      ELSE IF d <= depth[t]
        THEN IF pc[t] = "tearDown" /\ d = depth[t] THEN "tearingDown" ELSE "in"
      ELSE IF pc[t] \in {"enter", "setUp"}
        THEN IF pc[t] = "setUp" /\ d = depth[t] + 1 THEN "settingUp" ELSE "out"
      ELSE "gone"

\* Every candidate of a shared level is a shared rule whose members are the tests
\* named after it: the counters the runner presets, and the tests it sends through
\* the chain, are what the rule's protocol relies on.  (The conjunction over the
\* rules of Rule(r)!Spec, in the form TLC checks.)
Rule(r) == INSTANCE SharedRule WITH
  members         <- MembersOf(r),
  setupCounter    <- setupCounter[r],
  teardownCounter <- teardownCounter[r],
  pc              <- [t \in Tests |-> Within(t, r)],
  setUps          <- setUps[r],
  tearDowns       <- tearDowns[r]
ImplementsSharedRules ==
  /\ \A r \in Rules : Rule(r)!Init
  /\ [][\A r \in Rules : UNCHANGED Rule(r)!ruleVars \/ Rule(r)!Next]_vars

\* The class comes to its end: no test is waited for in vain (Parallelizer.java:23).
ClassFinishes == <>(phase = "finished")
================================================================================
