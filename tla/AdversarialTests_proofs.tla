------------------------ MODULE AdversarialTests_proofs ------------------------
(***************************************************************************)
(* Proofs about the adversarial test engine, for any attacks, expectations *)
(* and number of tests: it adds nothing to the ledger beside it, results   *)
(* are final, versions keep their capacity, and a test meets exactly what  *)
(* the registries would tell a claim.                                      *)
(***************************************************************************)
EXTENDS AdversarialTests, ClaimLife_proofs

-------------------------------------------------------------------------------
(* The engine is a bystander of the ledger.                                *)

LEMMA EngineIsBystander ==
    ASSUME [EngineNext]_allVars
    PROVE  [Next]_vars
<1>1. TestNext => UNCHANGED vars
  BY DEF TestNext, RegisterAdversarialTest, RunAdversarialTest, RunRejected, RunRound,
         ReplayAdversarialTest
<1>2. QED
  BY <1>1 DEF EngineNext, allVars

(* Whatever tests are registered, run and replayed, the ledger behaves as  *)
(* if the engine were not there: all that is proved of it holds beside it. *)
THEOREM EngineAddsNothing == EngineSpec => Spec
<1>1. TestInit => Init
  BY DEF TestInit
<1>2. [EngineNext]_allVars => [Next]_vars
  BY EngineIsBystander
<1>3. QED
  BY <1>1, <1>2, PTL DEF EngineSpec, Spec

(* Running tests records no document: the registry of document numbers     *)
(* still holds the earliest commitment examined, and nothing else.         *)
THEOREM TestsRecordNothing == EngineSpec => []EarliestCommitmentHolds
BY EngineAddsNothing, EarliestIsHeld, PTL

-------------------------------------------------------------------------------
(* What a step of the engine does.                                         *)

Taking(p, v, attack, expected, source) ==
    /\ \E sender \in Accounts : TakesTest(sender, p, v, attack)
    /\ source # 0 => source \in DOMAIN tests /\ tests[source].policy = p
    /\ tests' = Append(tests, NewTest(p, v, attack, expected, source))
    /\ UNCHANGED vars

Running(t, verdict, indicators) ==
    /\ tests[t].status = "REGISTERED"
    /\ tests' = [tests EXCEPT ![t] = Ran(tests[t], verdict, indicators)]
    /\ UNCHANGED vars

LEMMA TestsType ==
    ASSUME TestTypeOK
    PROVE  /\ Len(tests) \in Nat /\ DOMAIN tests = 1..Len(tests)
           /\ \A t \in DOMAIN tests : tests[t] \in AdversarialTest
<1>1. tests \in Seq(AdversarialTest)
  BY DEF TestTypeOK
<1>2. Len(tests) \in Nat /\ DOMAIN tests = 1..Len(tests)
  BY <1>1, LenProperties
<1>3. QED
  BY <1>1, <1>2, ElementOfSeq

LEMMA RunsAre ==
    ASSUME TestTypeOK, NEW t \in DOMAIN tests, RunAdversarialTest(t)
    PROVE  \E verdict \in Verdicts, indicators \in SUBSET Indicators :
              Running(t, verdict, indicators)
<1>1. CASE RunRejected(t)
  <2>1. "REJECTED" \in Verdicts /\ {} \in SUBSET Indicators
    BY DEF Verdicts
  <2>2. Running(t, "REJECTED", {})
    BY <1>1 DEF RunRejected, Running
  <2>3. QED
    BY <2>1, <2>2
<1>2. CASE RunRound(t)
  <2> DEFINE items == tests[t].attack.evidence
             readable == {i \in DOMAIN items : Readable(items[i])}
  <2>1. PICK examined \in SUBSET readable :
           \E base \in RoundVerdicts(DOMAIN items, readable, examined) :
              LET found == TestIndicators(items, examined)
                  verdict == IF found = {} THEN base ELSE "SUSPICIOUS"
              IN tests' = [tests EXCEPT ![t] = Ran(tests[t], verdict, found)]
    BY <1>2 DEF RunRound
  <2>2. PICK base \in RoundVerdicts(DOMAIN items, readable, examined) :
           LET found == TestIndicators(items, examined)
               verdict == IF found = {} THEN base ELSE "SUSPICIOUS"
           IN tests' = [tests EXCEPT ![t] = Ran(tests[t], verdict, found)]
    BY <2>1
  <2> DEFINE found == TestIndicators(items, examined)
             verdict == IF found = {} THEN base ELSE "SUSPICIOUS"
  <2>3. base \in Verdicts
    BY DEF RoundVerdicts, Verdicts
  <2>4. verdict \in Verdicts /\ found \in SUBSET Indicators
    BY <2>3 DEF Verdicts, TestIndicators
  <2>5. Running(t, verdict, found)
    BY <1>2, <2>2 DEF RunRound, Running
  <2>6. QED
    BY <2>4, <2>5
<1>3. QED
  BY <1>1, <1>2 DEF RunAdversarialTest

LEMMA EngineStep ==
    ASSUME TestTypeOK, [EngineNext]_allVars
    PROVE  \/ [Next]_vars /\ UNCHANGED tests
           \/ \E p \in DOMAIN policies : \E v \in DOMAIN policies[p] :
                 \E attack \in Attacks, expected \in Expectations,
                    source \in {0} \union DOMAIN tests :
                       Taking(p, v, attack, expected, source)
           \/ \E t \in DOMAIN tests, verdict \in Verdicts, indicators \in SUBSET Indicators :
                 Running(t, verdict, indicators)
<1>1. ASSUME NEW s \in Accounts, NEW p \in DOMAIN policies, NEW v \in DOMAIN policies[p],
             NEW attack \in Attacks, NEW expected \in Expectations,
             RegisterAdversarialTest(s, p, v, attack, expected)
      PROVE  Taking(p, v, attack, expected, 0)
  BY <1>1 DEF RegisterAdversarialTest, Taking
<1>2. ASSUME NEW t \in DOMAIN tests, NEW s \in Accounts,
             NEW v \in DOMAIN policies[tests[t].policy], ReplayAdversarialTest(s, t, v)
      PROVE  /\ tests[t].policy \in DOMAIN policies
             /\ tests[t].attack \in Attacks /\ tests[t].expected \in Expectations
             /\ Taking(tests[t].policy, v, tests[t].attack, tests[t].expected, t)
  <2>1. tests[t] \in AdversarialTest /\ tests[t].policy \in DOMAIN policies
    BY TestsType DEF TestTypeOK
  <2>2. tests[t].attack \in Attacks /\ tests[t].expected \in Expectations
    BY <2>1 DEF AdversarialTest
  <2>3. QED
    BY <1>2, <2>1, <2>2 DEF ReplayAdversarialTest, Taking
<1> DEFINE Takes == \E p \in DOMAIN policies : \E v \in DOMAIN policies[p] :
                       \E attack \in Attacks, expected \in Expectations,
                          source \in {0} \union DOMAIN tests :
                             Taking(p, v, attack, expected, source)
           Runs == \E t \in DOMAIN tests, verdict \in Verdicts,
                      indicators \in SUBSET Indicators : Running(t, verdict, indicators)
<1>3. ASSUME NEW s \in Accounts, NEW p \in DOMAIN policies, NEW v \in DOMAIN policies[p],
             NEW attack \in Attacks, NEW expected \in Expectations,
             RegisterAdversarialTest(s, p, v, attack, expected)
      PROVE  Takes
  BY <1>1, <1>3
<1>4. ASSUME NEW t \in DOMAIN tests, NEW s \in Accounts,
             NEW v \in DOMAIN policies[tests[t].policy], ReplayAdversarialTest(s, t, v)
      PROVE  Takes
  BY <1>2, <1>4
<1>5. ASSUME NEW t \in DOMAIN tests, RunAdversarialTest(t)
      PROVE  Runs
  BY <1>5, RunsAre
<1> HIDE DEF Takes, Runs
<1>6. ASSUME TestNext
      PROVE  Takes \/ Runs
  BY <1>3, <1>4, <1>5, <1>6, Zenon DEF TestNext
<1>7. ([Next]_vars /\ UNCHANGED tests) \/ Takes \/ Runs
  BY <1>6 DEF EngineNext, allVars
<1>8. QED
  BY <1>7, Zenon DEF Takes, Runs

\* A test that is taken, and a test that runs, among the others.
LEMMA TakenTests ==
    ASSUME TypeOK, TestTypeOK, NEW p \in DOMAIN policies, NEW v \in DOMAIN policies[p],
           NEW attack \in Attacks, NEW expected \in Expectations,
           NEW source \in {0} \union DOMAIN tests, Taking(p, v, attack, expected, source)
    PROVE  LET n == Len(tests) + 1
           IN /\ NewTest(p, v, attack, expected, source) \in AdversarialTest
              /\ tests' \in Seq(AdversarialTest)
              /\ DOMAIN tests' = 1..n /\ n \notin DOMAIN tests
              /\ \A t \in DOMAIN tests' : t \in DOMAIN tests \/ t = n
              /\ \A t \in DOMAIN tests : t \in DOMAIN tests' /\ tests'[t] = tests[t]
              /\ tests'[n] = NewTest(p, v, attack, expected, source)
<1>1. Len(tests) \in Nat /\ DOMAIN tests = 1..Len(tests) /\ tests \in Seq(AdversarialTest)
  BY TestsType DEF TestTypeOK
<1>2. NewTest(p, v, attack, expected, source) \in AdversarialTest
  <2>1. p \in Nat /\ v \in Nat /\ now \in Nat
    <3>1. DOMAIN policies = 1..Len(policies)
      BY LenProperties DEF TypeOK, PolicyTypeOK
    <3>2. DOMAIN policies[p] = 1..Len(policies[p])
      BY VersionsType DEF TypeOK
    <3>3. QED
      BY <3>1, <3>2 DEF TypeOK, PolicyTypeOK
  <2>2. source \in Nat
    BY <1>1
  <2>3. QED
    BY <2>1, <2>2 DEF NewTest, AdversarialTest, Never
<1> DEFINE new == NewTest(p, v, attack, expected, source)
<1>3. tests' = Append(tests, new)
  BY DEF Taking
<1> HIDE DEF new
<1>4. /\ tests' \in Seq(AdversarialTest) /\ Len(tests') = Len(tests) + 1
      /\ \A t \in 1..Len(tests) : tests'[t] = tests[t]
      /\ tests'[Len(tests) + 1] = new
  BY <1>1, <1>2, <1>3, AppendProperties DEF new
<1>5. DOMAIN tests' = 1..Len(tests) + 1
  BY <1>4, LenProperties
<1>6. QED
  BY <1>1, <1>2, <1>4, <1>5 DEF new

LEMMA RanTests ==
    ASSUME TypeOK, TestTypeOK, NEW t \in DOMAIN tests, NEW verdict \in Verdicts,
           NEW indicators \in SUBSET Indicators, Running(t, verdict, indicators)
    PROVE  LET ran == Ran(tests[t], verdict, indicators)
           IN /\ ran \in AdversarialTest
              /\ ran.policy = tests[t].policy /\ ran.version = tests[t].version
              /\ ran.source = tests[t].source
              /\ ran.status = "RAN" /\ ran.verdict = verdict /\ ran.ran_at = now
              /\ ran.indicators = indicators
              /\ tests' \in Seq(AdversarialTest)
              /\ DOMAIN tests' = DOMAIN tests /\ tests'[t] = ran
              /\ \A u \in DOMAIN tests : u # t => tests'[u] = tests[u]
<1> DEFINE ran == Ran(tests[t], verdict, indicators)
<1>1. Len(tests) \in Nat /\ DOMAIN tests = 1..Len(tests) /\ tests \in Seq(AdversarialTest)
  BY TestsType DEF TestTypeOK
<1>2. tests[t] \in AdversarialTest
  BY TestsType
<1>3. now \in Nat
  BY DEF TypeOK, PolicyTypeOK
<1>4. /\ ran \in AdversarialTest
      /\ ran.policy = tests[t].policy /\ ran.version = tests[t].version
      /\ ran.source = tests[t].source
      /\ ran.status = "RAN" /\ ran.verdict = verdict /\ ran.ran_at = now
      /\ ran.indicators = indicators
  BY <1>2, <1>3 DEF Ran, AdversarialTest, PropertyHolds
<1>5. tests' = [tests EXCEPT ![t] = ran]
  BY DEF Running
<1> HIDE DEF ran
<1>6. /\ tests' \in Seq(AdversarialTest)
      /\ DOMAIN tests' = DOMAIN tests /\ tests'[t] = ran
      /\ \A u \in DOMAIN tests : u # t => tests'[u] = tests[u]
  BY <1>1, <1>4, <1>5, ExceptSeq
<1>7. QED
  BY <1>4, <1>6 DEF ran

-------------------------------------------------------------------------------
(* Types.                                                                  *)

\* What TestTypeOK says of test t among `all`, bound to versions of `register`.
Placed(register, all, t) ==
    /\ all[t].policy \in DOMAIN register
    /\ all[t].version \in DOMAIN register[all[t].policy]
    /\ all[t].source < t
    /\ all[t].source # 0 => all[all[t].source].policy = all[t].policy
    /\ all[t].status = "RAN" <=> all[t].verdict # ""
    /\ all[t].status = "RAN" <=> all[t].ran_at # Never

LEMMA SourcesAreTests ==
    ASSUME TestTypeOK, NEW t \in DOMAIN tests, tests[t].source # 0
    PROVE  tests[t].source \in DOMAIN tests
<1>1. Len(tests) \in Nat /\ DOMAIN tests = 1..Len(tests) /\ tests[t] \in AdversarialTest
  BY TestsType
<1>2. tests[t].source < t
  BY DEF TestTypeOK
<1>3. tests[t].source \in Nat
  BY <1>1 DEF AdversarialTest
<1>4. QED
  BY <1>1, <1>2, <1>3

LEMMA TestTypeStep ==
    ASSUME TypeOK, TestTypeOK, [EngineNext]_allVars
    PROVE  TestTypeOK'
<1>1. \A t \in DOMAIN tests : Placed(policies, tests, t)
  BY DEF TestTypeOK, Placed
<1>2. tests \in Seq(AdversarialTest) /\ now # Never
      /\ Len(tests) \in Nat /\ DOMAIN tests = 1..Len(tests)
  BY TestsType DEF TestTypeOK, TypeOK, PolicyTypeOK
<1>3. "" \notin Verdicts
  BY DEF Verdicts
<1>4. SUFFICES /\ tests' \in Seq(AdversarialTest)
               /\ \A t \in DOMAIN tests' : Placed(policies', tests', t)
  BY DEF TestTypeOK, Placed
<1>5. CASE [Next]_vars /\ UNCHANGED tests
  <2>1. \A p \in DOMAIN policies : p \in DOMAIN policies'
                                   /\ DOMAIN policies[p] \subseteq DOMAIN policies'[p]
    BY <1>5, ClockStep, VersionsPersist DEF TypeOK
  <2>2. QED
    BY <1>1, <1>2, <1>5, <2>1 DEF Placed
<1>6. ASSUME NEW p \in DOMAIN policies, NEW v \in DOMAIN policies[p],
             NEW attack \in Attacks, NEW expected \in Expectations,
             NEW source \in {0} \union DOMAIN tests, Taking(p, v, attack, expected, source)
      PROVE  /\ tests' \in Seq(AdversarialTest)
             /\ \A t \in DOMAIN tests' : Placed(policies', tests', t)
  <2> DEFINE n == Len(tests) + 1
             new == NewTest(p, v, attack, expected, source)
  <2>1. /\ tests' \in Seq(AdversarialTest) /\ tests'[n] = new
        /\ \A t \in DOMAIN tests' : t \in DOMAIN tests \/ t = n
        /\ \A t \in DOMAIN tests : tests'[t] = tests[t]
    BY <1>6, TakenTests
  <2>2. policies' = policies
    BY <1>6 DEF Taking, vars, policyVars
  <2>3. /\ new.policy = p /\ new.version = v /\ new.source = source
        /\ new.status = "REGISTERED" /\ new.verdict = "" /\ new.ran_at = Never
    BY DEF NewTest
  <2>4. source < n /\ (source # 0 => source \in DOMAIN tests /\ tests[source].policy = p)
    BY <1>2, <1>6 DEF Taking
  <2> HIDE DEF new
  <2>5. Placed(policies', tests', n)
    BY <2>1, <2>2, <2>3, <2>4 DEF Placed
  <2>6. ASSUME NEW t \in DOMAIN tests
        PROVE  Placed(policies', tests', t)
    <3>1. tests[t].source # 0 => tests'[tests[t].source].policy = tests[t].policy
      BY <1>1, <2>1, SourcesAreTests DEF Placed
    <3>2. QED
      BY <1>1, <2>1, <2>2, <3>1 DEF Placed
  <2>7. QED
    BY <2>1, <2>5, <2>6
<1>7. ASSUME NEW t \in DOMAIN tests, NEW verdict \in Verdicts,
             NEW indicators \in SUBSET Indicators, Running(t, verdict, indicators)
      PROVE  /\ tests' \in Seq(AdversarialTest)
             /\ \A u \in DOMAIN tests' : Placed(policies', tests', u)
  <2> DEFINE ran == Ran(tests[t], verdict, indicators)
  <2>1. /\ ran.policy = tests[t].policy /\ ran.version = tests[t].version
        /\ ran.source = tests[t].source
        /\ ran.status = "RAN" /\ ran.verdict = verdict /\ ran.ran_at = now
        /\ tests' \in Seq(AdversarialTest)
        /\ DOMAIN tests' = DOMAIN tests /\ tests'[t] = ran
        /\ \A u \in DOMAIN tests : u # t => tests'[u] = tests[u]
    BY <1>7, RanTests
  <2>2. policies' = policies
    BY <1>7 DEF Running, vars, policyVars
  <2> HIDE DEF ran
  <2>3. \A u \in DOMAIN tests : /\ tests'[u].policy = tests[u].policy
                                /\ tests'[u].version = tests[u].version
                                /\ tests'[u].source = tests[u].source
    BY <2>1
  <2>4. ASSUME NEW u \in DOMAIN tests
        PROVE  Placed(policies', tests', u)
    <3>1. tests[u].source # 0 => tests'[tests[u].source].policy = tests[u].policy
      BY <1>1, <2>3, SourcesAreTests DEF Placed
    <3>2. /\ tests'[u].status = "RAN" <=> tests'[u].verdict # ""
          /\ tests'[u].status = "RAN" <=> tests'[u].ran_at # Never
      BY <1>1, <1>2, <1>3, <2>1 DEF Placed
    <3>3. QED
      BY <1>1, <2>2, <2>3, <3>1, <3>2 DEF Placed
  <2>5. QED
    BY <2>1, <2>4
<1>8. QED
  BY <1>5, <1>6, <1>7, EngineStep

(* Tests always have their types, are bound to a version that exists, are  *)
(* copied from earlier tests of their policy, and carry a verdict and a    *)
(* date exactly when they have run.                                        *)
THEOREM TestsCorrect == EngineSpec => []TestTypeOK
<1>1. TestInit => TestTypeOK
  <2>1. <<>> \in Seq(AdversarialTest) /\ DOMAIN <<>> = {}
    OBVIOUS
  <2>2. QED
    BY <2>1 DEF TestInit, TestTypeOK
<1>2. TypeOK /\ TestTypeOK /\ [EngineNext]_allVars => TestTypeOK'
  BY TestTypeStep
<1>3. EngineSpec => []TypeOK
  BY EngineAddsNothing, TypeCorrect, PTL
<1>4. QED
  BY <1>1, <1>2, <1>3, PTL DEF EngineSpec

-------------------------------------------------------------------------------
(* Results are final.                                                      *)

\* What ResultsAreFinal says of test t.
Final(t) ==
    /\ t \in DOMAIN tests'
    /\ tests[t].status = "RAN" => tests'[t] = tests[t]
    /\ \/ tests'[t] = Ran(tests[t], tests'[t].verdict, tests'[t].indicators)
       \/ tests'[t] = tests[t]

LEMMA TestsKept ==
    ASSUME TypeOK, TestTypeOK, [EngineNext]_allVars, NEW t \in DOMAIN tests
    PROVE  Final(t)
<1>1. CASE [Next]_vars /\ UNCHANGED tests
  BY <1>1 DEF Final
<1>2. ASSUME NEW p \in DOMAIN policies, NEW v \in DOMAIN policies[p],
             NEW attack \in Attacks, NEW expected \in Expectations,
             NEW source \in {0} \union DOMAIN tests, Taking(p, v, attack, expected, source)
      PROVE  Final(t)
  <2>1. t \in DOMAIN tests' /\ tests'[t] = tests[t]
    BY <1>2, TakenTests
  <2>2. QED
    BY <2>1 DEF Final
<1>3. ASSUME NEW u \in DOMAIN tests, NEW verdict \in Verdicts,
             NEW indicators \in SUBSET Indicators, Running(u, verdict, indicators)
      PROVE  Final(t)
  <2> DEFINE ran == Ran(tests[u], verdict, indicators)
  <2>1. /\ ran.verdict = verdict /\ ran.indicators = indicators
        /\ DOMAIN tests' = DOMAIN tests /\ tests'[u] = ran
        /\ \A w \in DOMAIN tests : w # u => tests'[w] = tests[w]
    BY <1>3, RanTests
  <2>2. tests'[u] = Ran(tests[u], tests'[u].verdict, tests'[u].indicators)
    BY <2>1
  <2>3. tests[u].status # "RAN"
    BY <1>3 DEF Running
  <2> HIDE DEF ran
  <2>4. QED
    BY <2>1, <2>2, <2>3 DEF Final
<1>4. QED
  BY <1>1, <1>2, <1>3, EngineStep

(* A test runs once: nothing of a result changes afterwards, and a step    *)
(* that runs a test changes only what the run decides of it.               *)
THEOREM ResultsStay == EngineSpec => ResultsAreFinal
<1>1. TypeOK /\ TestTypeOK /\ [EngineNext]_allVars => \A t \in DOMAIN tests : Final(t)
  BY TestsKept
<1>2. EngineSpec => []TypeOK
  BY EngineAddsNothing, TypeCorrect, PTL
<1>3. EngineSpec => [][\A t \in DOMAIN tests : Final(t)]_allVars
  BY <1>1, <1>2, TestsCorrect, PTL DEF EngineSpec
<1>4. (\A t \in DOMAIN tests : Final(t)) =>
         \A t \in DOMAIN tests :
            /\ t \in DOMAIN tests'
            /\ tests[t].status = "RAN" => tests'[t] = tests[t]
            /\ tests'[t] = Ran(tests[t], tests'[t].verdict, tests'[t].indicators)
                  \/ tests'[t] = tests[t]
  BY DEF Final
<1>5. QED
  BY <1>3, <1>4, PTL DEF ResultsAreFinal

-------------------------------------------------------------------------------
(* Capacity.  The versions that do not exist yet have no tests either.     *)

CapacityInv ==
    \A p, v \in Nat : Cardinality(TestsOf(p, v)) <= MAX_TESTS_PER_VERSION

LEMMA CapacityType == MAX_TESTS_PER_VERSION \in Nat
BY TestConstants

LEMMA TestsOfFinite ==
    ASSUME TestTypeOK, NEW p \in Nat, NEW v \in Nat
    PROVE  IsFiniteSet(TestsOf(p, v)) /\ Cardinality(TestsOf(p, v)) \in Nat
<1>1. IsFiniteSet(DOMAIN tests)
  BY TestsType, FS_Interval
<1>2. IsFiniteSet(TestsOf(p, v))
  BY <1>1, FS_Subset DEF TestsOf
<1>3. QED
  BY <1>2, FS_CardinalityType

LEMMA CapacityStep ==
    ASSUME TypeOK, TestTypeOK, CapacityInv, [EngineNext]_allVars
    PROVE  CapacityInv'
<1>1. SUFFICES ASSUME NEW p \in Nat, NEW v \in Nat
               PROVE  Cardinality(TestsOf(p, v)') <= MAX_TESTS_PER_VERSION
  BY DEF CapacityInv
<1>2. Cardinality(TestsOf(p, v)) <= MAX_TESTS_PER_VERSION
  BY DEF CapacityInv
<1>3. CASE [Next]_vars /\ UNCHANGED tests
  BY <1>2, <1>3 DEF TestsOf
<1>4. ASSUME NEW q \in DOMAIN policies, NEW w \in DOMAIN policies[q],
             NEW attack \in Attacks, NEW expected \in Expectations,
             NEW source \in {0} \union DOMAIN tests, Taking(q, w, attack, expected, source)
      PROVE  Cardinality(TestsOf(p, v)') <= MAX_TESTS_PER_VERSION
  <2> DEFINE n == Len(tests) + 1
             new == NewTest(q, w, attack, expected, source)
  <2>1. /\ DOMAIN tests' = 1..n /\ DOMAIN tests = 1..Len(tests) /\ Len(tests) \in Nat
        /\ n \notin DOMAIN tests /\ tests'[n] = new
        /\ \A t \in DOMAIN tests : tests'[t] = tests[t]
    BY <1>4, TakenTests, TestsType
  <2>2. new.policy = q /\ new.version = w
    BY DEF NewTest
  <2>3. Cardinality(TestsOf(q, w)) < MAX_TESTS_PER_VERSION
    BY <1>4 DEF Taking, TakesTest
  <2> HIDE DEF new
  <2>4. CASE p = q /\ v = w
    <3>1. TestsOf(p, v)' = TestsOf(p, v) \union {n}
      BY <2>1, <2>2, <2>4 DEF TestsOf
    <3>2. n \notin TestsOf(p, v)
      BY <2>1 DEF TestsOf
    <3>3. Cardinality(TestsOf(p, v) \union {n}) = Cardinality(TestsOf(p, v)) + 1
      BY <3>2, TestsOfFinite, FS_AddElement
    <3>4. Cardinality(TestsOf(p, v)) < MAX_TESTS_PER_VERSION
      BY <2>3, <2>4
    <3>5. Cardinality(TestsOf(p, v)) \in Nat
      BY TestsOfFinite
    <3>6. Cardinality(TestsOf(p, v) \union {n}) <= MAX_TESTS_PER_VERSION
      BY <3>3, <3>4, <3>5, CapacityType
    <3>7. QED
      BY <3>1, <3>6
  <2>5. CASE ~(p = q /\ v = w)
    <3>1. TestsOf(p, v)' = TestsOf(p, v)
      BY <2>1, <2>2, <2>5 DEF TestsOf
    <3>2. QED
      BY <1>2, <3>1
  <2>6. QED
    BY <2>4, <2>5
<1>5. ASSUME NEW t \in DOMAIN tests, NEW verdict \in Verdicts,
             NEW indicators \in SUBSET Indicators, Running(t, verdict, indicators)
      PROVE  Cardinality(TestsOf(p, v)') <= MAX_TESTS_PER_VERSION
  <2>1. /\ DOMAIN tests' = DOMAIN tests
        /\ \A u \in DOMAIN tests : /\ tests'[u].policy = tests[u].policy
                                   /\ tests'[u].version = tests[u].version
    BY <1>5, RanTests
  <2>2. TestsOf(p, v)' = TestsOf(p, v)
    BY <2>1 DEF TestsOf
  <2>3. QED
    BY <1>2, <2>2
<1>6. QED
  BY <1>3, <1>4, <1>5, EngineStep

(* No version collects more tests than its capacity, whoever registers or  *)
(* replays them and from whichever version.                                *)
THEOREM CapacityHolds == EngineSpec => []WithinCapacity
<1>1. TestInit => CapacityInv
  <2>1. SUFFICES ASSUME TestInit, NEW p \in Nat, NEW v \in Nat
                 PROVE  Cardinality(TestsOf(p, v)) <= MAX_TESTS_PER_VERSION
    BY DEF CapacityInv
  <2>2. TestsOf(p, v) = {}
    BY <2>1 DEF TestInit, TestsOf
  <2>3. QED
    BY <2>2, FS_EmptySet, CapacityType
<1>2. TypeOK /\ TestTypeOK /\ CapacityInv /\ [EngineNext]_allVars => CapacityInv'
  BY CapacityStep
<1>3. TypeOK /\ CapacityInv => WithinCapacity
  <2>1. SUFFICES ASSUME TypeOK, CapacityInv, NEW p \in DOMAIN policies,
                        NEW v \in DOMAIN policies[p]
                 PROVE  Cardinality(TestsOf(p, v)) <= MAX_TESTS_PER_VERSION
    BY DEF WithinCapacity
  <2>2. DOMAIN policies = 1..Len(policies) /\ DOMAIN policies[p] = 1..Len(policies[p])
    BY <2>1, VersionsType, LenProperties DEF TypeOK, PolicyTypeOK
  <2>3. QED
    BY <2>1, <2>2 DEF CapacityInv
<1>4. EngineSpec => []TypeOK
  BY EngineAddsNothing, TypeCorrect, PTL
<1>5. QED
  BY <1>1, <1>2, <1>3, <1>4, TestsCorrect, PTL DEF EngineSpec

-------------------------------------------------------------------------------
(* What the registries tell a test, and what they would tell a claim.  A   *)
(* claim submitted now is `some[n]`, behind the claims of the ledger.      *)

FreshClaim(some, n, s) ==
    /\ n \notin DOMAIN claims /\ n # NoClaim
    /\ some[n].claimant = s
    /\ \A c \in DOMAIN claims : some[c] = claims[c]

ForgivenEvidence(item, s) ==
    WithdrawnUnjudged(claims[evidence_registry[item.sha256]], s)

LEMMA FreshEvidence ==
    ASSUME TypeOK, NEW s, NEW some, NEW n, FreshClaim(some, n, s),
           NEW item, item.sha256 \in Documents
    PROVE  Had(some)!DuplicateEvidence(item, n)
              <=> TestDuplicateEvidence(item) /\ ~ForgivenEvidence(item, s)
<1>1. PICK first : first = evidence_registry[item.sha256]
  OBVIOUS
<1>2. first \in {NoClaim} \union DOMAIN claims
  BY <1>1 DEF TypeOK
<1>3. CASE first = NoClaim
  BY <1>1, <1>3 DEF Had!DuplicateEvidence, Had!RegistryConflict, Had!NoClaim,
                    TestDuplicateEvidence, NoClaim
<1>4. CASE first \in DOMAIN claims /\ first # NoClaim
  <2>1. some[first] = claims[first] /\ some[n].claimant = s /\ first # n
    BY <1>4 DEF FreshClaim
  <2>2. Had(some)!WithdrawnUnjudged(some[first], some[n].claimant)
           <=> WithdrawnUnjudged(claims[first], s)
    BY <2>1 DEF Had!WithdrawnUnjudged, WithdrawnUnjudged
  <2>3. Had(some)!CommittedAs(some[first], item.sha256, "OWNERSHIP_RECORD")
           <=> CommittedAs(claims[first], item.sha256, "OWNERSHIP_RECORD")
    BY <2>1 DEF Had!CommittedAs, CommittedAs
  <2>4. QED
    BY <1>1, <1>4, <2>1, <2>2, <2>3
    DEF Had!DuplicateEvidence, Had!RegistryConflict, Had!NoClaim, TestDuplicateEvidence,
        ForgivenEvidence, NoClaim
<1>5. QED
  BY <1>2, <1>3, <1>4

(* A recorded number was examined by a round, so its claim cannot be       *)
(* forgiven, and was committed before anything committed now.              *)
LEMMA FreshDocument ==
    ASSUME TypeOK, RegistrySupport, NEW s, NEW some, NEW n, FreshClaim(some, n, s),
           NEW item, item.sha256 \in Documents, item.kind \in StructuredKinds,
           item.committed_seq \in Nat, item.committed_seq > commitment_count
    PROVE  Had(some)!DuplicateDocument(item, n) <=> TestDuplicateDocument(item)
<1>1. PICK k : k = Key(item)
  OBVIOUS
<1>2. k \in DocumentKeys
  BY <1>1, LedgerConstants DEF Key, DocumentKeys
<1>3. Had(some)!Key(item) = k
  BY <1>1 DEF Had!Key, Key
<1>4. PICK entry : entry = document_registry[k]
  OBVIOUS
<1>5. CASE entry = NoEntry
  BY <1>1, <1>3, <1>4, <1>5
  DEF Had!DuplicateDocument, TestDuplicateDocument, Had!NoEntry, NoEntry, Had!NoClaim, NoClaim
<1>6. CASE entry # NoEntry
  <2>1. PICK c : c = entry.claim
    OBVIOUS
  <2>2. /\ c \in DOMAIN claims /\ claims[c].receipts # <<>>
        /\ \E i \in DOMAIN claims[c].evidence : claims[c].evidence[i].committed_seq = entry.seq
    BY <1>2, <1>4, <1>6, <2>1 DEF RegistrySupport, EntriesAreHeld
  <2>3. claims[c] \in Claim /\ c # NoClaim
    BY <2>2, ClaimType
  <2>4. Len(claims[c].receipts) # 0
    BY <2>2, <2>3, EmptySeq DEF Claim
  <2>5. entry.seq \in 1..commitment_count
    BY <2>2 DEF RegistrySupport, SequencesGrow
  <2>6. some[c] = claims[c] /\ c # n
    BY <2>2 DEF FreshClaim
  <2>7. ~Had(some)!WithdrawnUnjudged(some[c], some[n].claimant)
    BY <2>4, <2>6 DEF Had!WithdrawnUnjudged
  <2>8. Had(some)!RegistryConflict(c, n)
    BY <2>3, <2>6, <2>7 DEF Had!RegistryConflict, Had!NoClaim, NoClaim
  <2>9. commitment_count \in Nat
    BY DEF TypeOK
  <2>10. entry.seq < item.committed_seq
    BY <2>5, <2>9
  <2>11. QED
    BY <1>1, <1>3, <1>4, <1>6, <2>1, <2>8, <2>10
    DEF Had!DuplicateDocument, TestDuplicateDocument, Had!NoEntry, NoEntry, Had!NoClaim, NoClaim
<1>7. QED
  BY <1>5, <1>6

LEMMA TestsMeetClaims ==
    ASSUME TypeOK, RegistrySupport
    PROVE  TestsMeetWhatClaimsMeet
<1>1. SUFFICES
         ASSUME NEW p \in DOMAIN policies, NEW s \in Accounts, NEW attack \in Attacks,
                NEW examined \in SUBSET {i \in DOMAIN attack.evidence :
                                            Readable(attack.evidence[i])}
         PROVE  LET test == TestIndicators(attack.evidence, examined) # {}
                    claim == FreshClaimHit(s, p, attack, examined)
                IN /\ claim => test
                   /\ test /\ ~claim => Forgiven(s, attack)
  BY DEF TestsMeetWhatClaimsMeet
<1> DEFINE items == attack.evidence
           fresh == Committed(items, commitment_count)
           new == NewClaim(s, p, CHOOSE r \in References : TRUE, TRUE, fresh)
           some == Append(claims, new)
           n == Len(claims) + 1
<1>2. items \in Seq(Entry) /\ commitment_count \in Nat
  BY TestConstants DEF TypeOK
<1>3. DOMAIN fresh = DOMAIN items
      /\ \A i \in DOMAIN items : /\ fresh[i].kind = items[i].kind
                                 /\ fresh[i].sha256 = items[i].sha256
                                 /\ fresh[i].sha256 \in Documents
                                 /\ fresh[i].committed_seq \in Nat
                                 /\ fresh[i].committed_seq > commitment_count
  <2>1. DOMAIN items = 1..Len(items) /\ Len(items) \in Nat
    BY <1>2, LenProperties
  <2>2. \A i \in DOMAIN items : items[i] \in Entry
    BY <1>2, ElementOfSeq, <2>1
  <2>3. QED
    BY <1>2, <2>1, <2>2 DEF Committed, Entry
<1>4. FreshClaim(some, n, s)
  <2>1. claims \in Seq(Claim) /\ DOMAIN claims = 1..Len(claims) /\ Len(claims) \in Nat
    BY LenProperties DEF TypeOK
  <2>2. new.claimant = s
    BY DEF NewClaim
  <2> HIDE DEF new
  <2>3. some[n] = new /\ \A c \in DOMAIN claims : some[c] = claims[c]
    BY <2>1
  <2>4. QED
    BY <2>1, <2>2, <2>3 DEF FreshClaim, NoClaim
<1>5. FreshClaimHit(s, p, attack, examined) = Had(some)!RegistryHit(n, fresh, examined)
  BY DEF FreshClaimHit
<1> HIDE DEF some, n, fresh
<1>6. Facts(items, examined) = Had(some)!Facts(fresh, examined)
  BY <1>3 DEF Facts, Had!Facts, StructuredKinds, Had!StructuredKinds
<1>7. \A i \in examined :
         Had(some)!DuplicateEvidence(fresh[i], n)
            <=> TestDuplicateEvidence(items[i]) /\ ~ForgivenEvidence(items[i], s)
  <2>1. SUFFICES ASSUME NEW i \in examined
                 PROVE  Had(some)!DuplicateEvidence(fresh[i], n)
                           <=> /\ TestDuplicateEvidence(items[i])
                               /\ ~ForgivenEvidence(items[i], s)
    OBVIOUS
  <2>2. Had(some)!DuplicateEvidence(fresh[i], n)
           <=> TestDuplicateEvidence(fresh[i]) /\ ~ForgivenEvidence(fresh[i], s)
    BY <1>3, <1>4, FreshEvidence
  <2>3. QED
    BY <1>3, <2>2 DEF TestDuplicateEvidence, ForgivenEvidence
<1>8. \A i \in Facts(items, examined) :
         Had(some)!DuplicateDocument(fresh[i], n) <=> TestDuplicateDocument(items[i])
  <2>1. SUFFICES ASSUME NEW i \in Facts(items, examined)
                 PROVE  Had(some)!DuplicateDocument(fresh[i], n)
                           <=> TestDuplicateDocument(items[i])
    OBVIOUS
  <2>2. i \in DOMAIN items /\ fresh[i].kind \in StructuredKinds
    BY <1>3 DEF Facts
  <2>3. Had(some)!DuplicateDocument(fresh[i], n) <=> TestDuplicateDocument(fresh[i])
    BY <1>3, <1>4, <2>2, FreshDocument
  <2>4. QED
    BY <1>3, <2>2, <2>3 DEF TestDuplicateDocument, Key
<1>9. TestIndicators(items, examined) # {}
         <=> \/ \E i \in examined : TestDuplicateEvidence(items[i])
             \/ \E i \in Facts(items, examined) : TestDuplicateDocument(items[i])
  BY DEF TestIndicators, Indicators
<1>10. FreshClaimHit(s, p, attack, examined)
         <=> \/ \E i \in examined : /\ TestDuplicateEvidence(items[i])
                                    /\ ~ForgivenEvidence(items[i], s)
             \/ \E i \in Facts(items, examined) : TestDuplicateDocument(items[i])
  BY <1>5, <1>6, <1>7, <1>8 DEF Had!RegistryHit
<1>11. ASSUME NEW i \in examined, TestDuplicateEvidence(items[i]),
              ForgivenEvidence(items[i], s)
       PROVE  Forgiven(s, attack)
  <2>1. evidence_registry[items[i].sha256] \in DOMAIN claims
    BY <1>3, <1>11 DEF TestDuplicateEvidence, TypeOK
  <2>2. QED
    BY <1>11, <2>1 DEF ForgivenEvidence, Forgiven
<1>12. QED
  BY <1>9, <1>10, <1>11

(* Tests meet exactly what a claim submitted and resolved at the same      *)
(* moment would meet, but for the claims forgiven a withdrawal of their    *)
(* claimant's own: the engine's own copy of the registry rules, which has  *)
(* no commitment number to compare, is neither laxer nor stricter.         *)
THEOREM TestsMeetTheRegistries == EngineSpec => []TestsMeetWhatClaimsMeet
<1>1. TypeOK /\ RegistrySupport => TestsMeetWhatClaimsMeet
  BY TestsMeetClaims
<1>2. EngineSpec => []TypeOK /\ []RegistrySupport
  BY EngineAddsNothing, TypeCorrect, RegistrySupported, PTL
<1>3. QED
  BY <1>1, <1>2, PTL

===============================================================================
