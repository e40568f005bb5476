--------------------------- MODULE SharedRule_proofs ---------------------------
(***************************************************************************)
(* Proofs about SharedRule for every set of tests: the two counters alone  *)
(* make the set-up and the tear-down of a shared rule happen exactly once, *)
(* around all its members.                                                 *)
(***************************************************************************)
EXTENDS SharedRule, FiniteSetTheorems, TLAPS

Place == {"out", "settingUp", "in", "tearingDown", "gone"}

\* The tests that have entered, and the members that have not left.
Started == {t \in Tests : pc[t] # "out"}
Pending == {t \in members : pc[t] \notin {"tearingDown", "gone"}}

Types ==
  /\ members \in TestLists
  /\ pc \in [Tests -> Place]
  /\ setUps \in {0, 1} /\ tearDowns \in {0, 1}

\* The counters count what they are meant to count.
Counts ==
  /\ Started \subseteq members
  /\ setupCounter = Cardinality(Started)
  /\ teardownCounter = Cardinality(Pending)

\* From the first entry on, one test sets up or the resource has been set up.
OneSetsUp ==
  /\ \A s, t \in Tests : pc[s] = "settingUp" /\ pc[t] = "settingUp" => s = t
  /\ Started = {} => setUps = 0
  /\ Started # {} => (setUps = 0 <=> \E t \in Tests : pc[t] = "settingUp")

\* From the last exit on, and not before, one test tears down or it has been torn down.
OneTearsDown ==
  /\ \A s, t \in Tests : pc[s] = "tearingDown" /\ pc[t] = "tearingDown" => s = t
  /\ Pending # {} \/ members = {}
       => tearDowns = 0 /\ \A t \in Tests : pc[t] # "tearingDown"
  /\ Pending = {} /\ members # {}
       => (tearDowns = 0 <=> \E t \in Tests : pc[t] = "tearingDown")

Inv == Types /\ Counts /\ OneSetsUp /\ OneTearsDown

--------------------------------------------------------------------------------
\* Some of finitely many tests are finitely many, no more, and none of them exactly if their number is 0.
LEMMA SubsetsFinite ==
  ASSUME NEW M \in TestLists, NEW S \in SUBSET M
  PROVE  IsFiniteSet(S) /\ Cardinality(S) \in 0 .. Cardinality(M)
         /\ (Cardinality(S) = 0 <=> S = {})
  BY FS_Subset, FS_CardinalityType, FS_EmptySet DEF TestLists

\* Nothing has been set up or torn down.
LEMMA InvInit == Init => Inv
<1> SUFFICES ASSUME Init PROVE Inv  OBVIOUS
<1>1. Started = {} /\ Pending = members  BY DEF Init, Started, Pending, TestLists
<1>2. Types  BY DEF Init, Types, Place
<1>3. Counts  BY <1>1, FS_EmptySet DEF Init, Counts
<1>4. OneSetsUp  BY <1>1 DEF Init, OneSetsUp
<1>5. OneTearsDown  BY <1>1 DEF Init, OneTearsDown
<1> QED BY <1>2, <1>3, <1>4, <1>5 DEF Inv

\* Handing a rule its tests keeps the invariant.
LEMMA AssignInv ==
  ASSUME Inv, Assign
  PROVE  Inv'
<1>1. Started = {} /\ Started' = {}  BY DEF Assign, Started
<1>2. Pending = members /\ Pending' = members'  BY DEF Assign, Pending, Inv, Types, TestLists
<1>3. tearDowns = 0 /\ setUps = 0  BY <1>1, <1>2 DEF Inv, OneTearsDown, OneSetsUp
<1>4. Types'  BY DEF Inv, Types, Assign
<1>5. Counts'  BY <1>1, <1>2 DEF Inv, Counts, Assign
<1>6. OneSetsUp'  BY <1>1, <1>3 DEF Inv, OneSetsUp, Assign
<1>7. OneTearsDown'
  <2>1. \A t \in Tests : pc'[t] # "tearingDown"  BY DEF Assign
  <2> QED BY <1>2, <1>3, <2>1 DEF OneTearsDown, Assign
<1> QED BY <1>4, <1>5, <1>6, <1>7 DEF Inv

\* A test that enters the rule keeps it: the first alone goes on to set up.
LEMMA EnterInv ==
  ASSUME Inv, NEW t \in Tests, Enter(t)
  PROVE  Inv'
<1>1. Started' = Started \cup {t} /\ t \notin Started /\ t \in members
  BY DEF Enter, Started, Inv, Types
<1>2. Pending' = Pending  BY DEF Enter, Pending, Inv, Types
<1>3. setupCounter = 0 <=> Started = {}
  BY SubsetsFinite DEF Inv, Types, Counts
<1>4. Types'  BY DEF Inv, Types, Enter, Place
<1>5. Counts'
  <2>1. IsFiniteSet(Started) /\ Cardinality(Started) \in Nat
    BY SubsetsFinite DEF Inv, Types, Counts
  <2>2. Cardinality(Started \cup {t}) = Cardinality(Started) + 1  BY <1>1, <2>1, FS_AddElement
  <2> QED BY <1>1, <1>2, <2>2 DEF Inv, Counts, Enter
<1>6. OneSetsUp'
  <2>1. CASE Started = {}
    <3>1. pc' = [pc EXCEPT ![t] = "settingUp"] /\ \A s \in Tests : pc[s] = "out"
      BY <1>3, <2>1 DEF Enter, Started
    <3> QED BY <1>1, <2>1, <3>1 DEF Inv, Types, OneSetsUp, Enter
  <2>2. CASE Started # {}
    <3>1. pc' = [pc EXCEPT ![t] = "in"] /\ pc[t] = "out"  BY <1>3, <2>2 DEF Enter
    <3> QED BY <1>1, <2>2, <3>1 DEF Inv, Types, OneSetsUp, Enter
  <2> QED BY <2>1, <2>2
<1>7. OneTearsDown'
  <2>1. \A s \in Tests : pc'[s] = "tearingDown" <=> pc[s] = "tearingDown"
    BY DEF Enter, Inv, Types
  <2> QED BY <1>2, <2>1 DEF Inv, OneTearsDown, Enter
<1> QED BY <1>4, <1>5, <1>6, <1>7 DEF Inv

\* Setting up keeps it.
LEMMA SetUpInv ==
  ASSUME Inv, NEW t \in Tests, SetUp(t)
  PROVE  Inv'
<1>1. Started' = Started /\ Started # {}  BY DEF SetUp, Started, Inv, Types
<1>2. Pending' = Pending  BY DEF SetUp, Pending, Inv, Types
<1>3. setUps = 0  BY <1>1 DEF Inv, OneSetsUp, SetUp
<1>4. Types'  BY <1>3 DEF Inv, Types, SetUp, Place
<1>5. Counts'  BY <1>1, <1>2 DEF Inv, Counts, SetUp
<1>6. OneSetsUp'  BY <1>1, <1>3 DEF Inv, Types, OneSetsUp, SetUp
<1>7. OneTearsDown'
  <2>1. \A s \in Tests : pc'[s] = "tearingDown" <=> pc[s] = "tearingDown"
    BY DEF SetUp, Inv, Types
  <2> QED BY <1>2, <2>1 DEF Inv, OneTearsDown, SetUp
<1> QED BY <1>4, <1>5, <1>6, <1>7 DEF Inv

\* A test that leaves keeps it: the last alone goes on to tear down.
LEMMA LeaveInv ==
  ASSUME Inv, NEW t \in Tests, Leave(t)
  PROVE  Inv'
<1>1. Started' = Started /\ t \in members /\ Started # {}
  BY DEF Leave, Started, Inv, Types, Counts
<1>2. t \in Pending /\ Pending' = Pending \ {t}
  <2>1. t \in Pending  BY <1>1 DEF Leave, Pending
  <2>2. pc' = [pc EXCEPT ![t] = pc'[t]] /\ pc'[t] \in {"tearingDown", "gone"}
    BY DEF Leave, Inv, Types
  <2> QED BY <2>1, <2>2 DEF Leave, Pending, Inv, Types
<1>3. tearDowns = 0 /\ \A s \in Tests : pc[s] # "tearingDown"
  BY <1>2 DEF Inv, OneTearsDown
<1>4. teardownCounter' = Cardinality(Pending') /\ (teardownCounter' = 0 <=> Pending' = {})
  <2>1. members \in TestLists /\ Pending \in SUBSET members /\ Pending \ {t} \in SUBSET members
    BY DEF Pending, Inv, Types
  <2>2. IsFiniteSet(Pending) /\ Cardinality(Pending) \in Nat  BY <2>1, SubsetsFinite
  <2>3. Cardinality(Pending \ {t}) = Cardinality(Pending) - 1
    BY <1>2, <2>2, FS_RemoveElement
  <2>4. Cardinality(Pending \ {t}) = 0 <=> Pending \ {t} = {}  BY <2>1, SubsetsFinite
  <2> QED BY <1>2, <2>3, <2>4 DEF Leave, Inv, Counts
<1>5. Types'  BY DEF Inv, Types, Leave, Place
<1>6. Counts'  BY <1>1, <1>4 DEF Inv, Counts, Leave
<1>7. OneSetsUp'
  <2>1. \A s \in Tests : pc'[s] = "settingUp" <=> pc[s] = "settingUp"
    BY DEF Leave, Inv, Types
  <2> QED BY <1>1, <2>1 DEF Inv, OneSetsUp, Leave
<1>8. OneTearsDown'
  <2>1. CASE Pending' = {}
    <3>1. pc' = [pc EXCEPT ![t] = "tearingDown"]  BY <1>4, <2>1 DEF Leave
    <3> QED BY <1>1, <1>3, <2>1, <3>1 DEF Inv, Types, OneTearsDown, Leave
  <2>2. CASE Pending' # {}
    <3>1. pc' = [pc EXCEPT ![t] = "gone"]  BY <1>4, <2>2 DEF Leave
    <3> QED BY <1>1, <1>3, <2>2, <3>1 DEF Inv, Types, OneTearsDown, Leave
  <2> QED BY <2>1, <2>2
<1> QED BY <1>5, <1>6, <1>7, <1>8 DEF Inv

\* Tearing down keeps it.
LEMMA TearDownInv ==
  ASSUME Inv, NEW t \in Tests, TearDown(t)
  PROVE  Inv'
<1>1. Started' = Started  BY DEF TearDown, Started, Inv, Types
<1>2. Pending' = Pending  BY DEF TearDown, Pending, Inv, Types
<1>3. Pending = {} /\ members # {} /\ tearDowns = 0
  BY DEF Inv, OneTearsDown, TearDown
<1>4. Types'  BY <1>3 DEF Inv, Types, TearDown, Place
<1>5. Counts'  BY <1>1, <1>2 DEF Inv, Counts, TearDown
<1>6. OneSetsUp'
  <2>1. \A s \in Tests : pc'[s] = "settingUp" <=> pc[s] = "settingUp"
    BY DEF TearDown, Inv, Types
  <2> QED BY <1>1, <2>1 DEF Inv, OneSetsUp, TearDown
<1>7. OneTearsDown'  BY <1>2, <1>3 DEF Inv, Types, OneTearsDown, TearDown
<1> QED BY <1>4, <1>5, <1>6, <1>7 DEF Inv

\* The invariant holds whatever the number of tests and their interleaving.
THEOREM Invariance == Spec => []Inv
<1>1. Init => Inv  BY InvInit
<1>2. Inv /\ [Next]_ruleVars => Inv'
  <2>1. ASSUME Inv, UNCHANGED ruleVars PROVE Inv'
    BY <2>1 DEF ruleVars, Inv, Types, Counts, OneSetsUp, OneTearsDown, Started, Pending
  <2> QED BY <2>1, AssignInv, EnterInv, SetUpInv, LeaveInv, TearDownInv DEF Next, TestStep
<1> QED BY <1>1, <1>2, PTL DEF Spec

\* The counters stay within the number of tests (AtomicIntegers of SharedRuleContext).
THEOREM TypeCorrect == Spec => []TypeOK
<1>1. Inv => TypeOK
  <2> SUFFICES ASSUME Inv PROVE TypeOK  OBVIOUS
  <2>1. members \in TestLists /\ Started \in SUBSET members /\ Pending \in SUBSET members
    BY DEF Pending, Inv, Types, Counts
  <2>2. /\ Cardinality(Started) \in 0 .. Cardinality(members)
        /\ Cardinality(Pending) \in 0 .. Cardinality(members)
    BY <2>1, SubsetsFinite
  <2> QED BY <2>2 DEF TypeOK, Inv, Types, Counts, Place
<1> QED BY Invariance, <1>1, PTL

\* "setup its resource exactly once and tear it down exactly one" (SharedTestRule.java:18).
THEOREM OnceEach == Spec => []SetUpAndTornDownOnce
<1>1. Inv => SetUpAndTornDownOnce
  <2> SUFFICES ASSUME Inv PROVE SetUpAndTornDownOnce  OBVIOUS
  <2>1. setUps <= 1 /\ tearDowns <= 1  BY DEF Inv, Types
  <2>2. ASSUME members # {}, \A t \in members : pc[t] = "gone"
        PROVE  setUps = 1 /\ tearDowns = 1
    <3>1. \A t \in Tests : pc[t] # "settingUp" /\ pc[t] # "tearingDown"
      BY <2>2 DEF Inv, Counts, Started
    <3>2. Started # {} /\ Pending = {}  BY <2>2 DEF Started, Pending, Inv, Types, TestLists
    <3> QED BY <2>2, <3>1, <3>2 DEF Inv, Types, OneSetsUp, OneTearsDown
  <2> QED BY <2>1, <2>2 DEF SetUpAndTornDownOnce
<1> QED BY Invariance, <1>1, PTL

\* The tear-down comes after the last member has left.
THEOREM TearDownLast == Spec => []NeverUsedTornDown
<1>1. Inv => NeverUsedTornDown
  BY DEF Inv, Types, OneTearsDown, Pending, NeverUsedTornDown
<1> QED BY Invariance, <1>1, PTL
================================================================================
