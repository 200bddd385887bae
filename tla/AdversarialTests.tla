--------------------------- MODULE AdversarialTests ---------------------------
(***************************************************************************)
(* The adversarial test engine beside the claim ledger: register_, run_    *)
(* and replay_adversarial_test.  A test is a synthetic claim bound to one  *)
(* policy version; its run goes through admission, a round and the         *)
(* registries as a claim's resolution does, but only reads them.           *)
(*                                                                         *)
(* A test's id is its index in `tests`, 0 stands for no source.  The       *)
(* receipt of a run is folded into its test.                               *)
(***************************************************************************)
EXTENDS ClaimLedger

CONSTANTS
    Attacks,            \* bound: attack payloads explored
    Expectations,       \* bound: expected property and indicator explored
    ReportingWindow,    \* of each definition, in the clock's unit
    WithinLimits(_, _), \* is an attack within a definition's other limits?
    MAX_TESTS_PER_VERSION,      \* 24 in the code
    MaxTests            \* bound: tests explored

\* A property is the set of verdicts it admits: NOT_VALID or a single one.
ExpectedProperties == {Verdicts \ {"VALID"}} \union {{v} : v \in Verdicts}

\* The indicators the registries decide; the round's own are not told apart.
Indicators == {"DUPLICATE_EVIDENCE", "DUPLICATE_DOCUMENT"}

ASSUME TestConstants ==
    /\ \A a \in Attacks : a.incident \in Nat /\ a.evidence \in Seq(Entry)
    /\ Expectations \subseteq
          [property: ExpectedProperties, indicator: Indicators \union {""}]
    /\ ReportingWindow \in [Definitions -> Nat]
    /\ MAX_TESTS_PER_VERSION \in Nat
    /\ MaxTests \in Nat

VARIABLE tests

allVars == <<vars, tests>>

-------------------------------------------------------------------------------
AdversarialTest ==
    [policy: Nat, version: Nat, attack: Attacks, expected: Expectations,
     status: {"REGISTERED", "RAN"}, verdict: Verdicts \union {""},
     indicators: SUBSET Indicators, passed: BOOLEAN,
     source: Nat, created_at: Nat, ran_at: Nat]

(* The tests are typed, bound to a version that exists, copied from an     *)
(* earlier test of their policy, and RAN exactly when a verdict is stored. *)
TestTypeOK ==
    /\ tests \in Seq(AdversarialTest)
    /\ \A t \in DOMAIN tests :
          LET test == tests[t]
          IN /\ test.policy \in DOMAIN policies
             /\ test.version \in DOMAIN policies[test.policy]
             /\ test.source < t
             /\ test.source # 0 => tests[test.source].policy = test.policy
             /\ test.status = "RAN" <=> test.verdict # ""
             /\ test.status = "RAN" <=> test.ran_at # Never

NewTest(p, v, attack, expected, source) ==
    [policy |-> p, version |-> v, attack |-> attack, expected |-> expected,
     status |-> "REGISTERED", verdict |-> "", indicators |-> {},
     passed |-> FALSE, source |-> source, created_at |-> now, ran_at |-> Never]

TestsOf(p, v) ==
    {t \in DOMAIN tests : tests[t].policy = p /\ tests[t].version = v}

\* _attack_error: what a claim submitted today would have to satisfy.
AttackAcceptable(attack, definition) ==
    /\ attack.incident <= now
    /\ Acceptable(attack.evidence, definition, TRUE)

\* What registering and replaying on version v of policy p both require.
TakesTest(sender, p, v, attack) ==
    /\ Len(tests) < MaxTests
    /\ sender = policies[p][v].owner
    /\ policies[p][v].status # "REVOKED"
    /\ Cardinality(TestsOf(p, v)) < MAX_TESTS_PER_VERSION
    /\ AttackAcceptable(attack, policies[p][v].definition)

RegisterAdversarialTest(sender, p, v, attack, expected) ==
    /\ TakesTest(sender, p, v, attack)
    /\ tests' = Append(tests, NewTest(p, v, attack, expected, 0))
    /\ UNCHANGED vars

\* Mutant: only registrations count towards a version's capacity.
ReplayAdversarialTest_Unbounded(sender, t, v) ==
    LET source == tests[t]
    IN /\ Len(tests) < MaxTests
       /\ sender = policies[source.policy][v].owner
       /\ policies[source.policy][v].status # "REVOKED"
       /\ AttackAcceptable(source.attack, policies[source.policy][v].definition)
       /\ tests' = Append(tests, NewTest(source.policy, v, source.attack,
                                         source.expected, t))
       /\ UNCHANGED vars

ReplayAdversarialTest(sender, t, v) ==
    LET source == tests[t]
    IN /\ TakesTest(sender, source.policy, v, source.attack)
       /\ tests' = Append(tests, NewTest(source.policy, v, source.attack,
                                         source.expected, t))
       /\ UNCHANGED vars

-------------------------------------------------------------------------------
(* The registries in test mode: no first committer is forgiven, and every  *)
(* recorded document number is an earlier one.                             *)

TestDuplicateEvidence(item) ==
    LET first == evidence_registry[item.sha256]
    IN /\ first # NoClaim
       /\ ~ /\ item.kind = "OWNERSHIP_RECORD"
            /\ CommittedAs(claims[first], item.sha256, "OWNERSHIP_RECORD")

\* Mutant: without a sequence number of its own a test is never the later one.
TestDuplicateDocument_NoSequence(item) == FALSE

TestDuplicateDocument(item) == document_registry[Key(item)] # NoEntry

TestIndicators(items, examined) ==
    {n \in Indicators :
        \/ /\ n = "DUPLICATE_EVIDENCE"
           /\ \E i \in examined : TestDuplicateEvidence(items[i])
        \/ /\ n = "DUPLICATE_DOCUMENT"
           /\ \E i \in Facts(items, examined) : TestDuplicateDocument(items[i])}

TestAdmitted(test) ==
    LET definition == policies[test.policy][test.version].definition
    IN /\ WithinLimits(test.attack, definition)
       /\ test.created_at <= test.attack.incident + ReportingWindow[definition]

PropertyHolds(property, verdict) == verdict \in property

\* Mutant: the result is stored but the test is not marked as run.
Ran_Unmarked(test, verdict, indicators) ==
    [test EXCEPT !.verdict = verdict, !.indicators = indicators, !.ran_at = now]

Ran(test, verdict, indicators) ==
    [test EXCEPT
       !.status = "RAN", !.verdict = verdict, !.indicators = indicators,
       !.passed = /\ PropertyHolds(test.expected.property, verdict)
                  /\ test.expected.indicator \in indicators \union {""},
       !.ran_at = now]

RunRejected(t) ==
    /\ tests[t].status = "REGISTERED"
    /\ ~TestAdmitted(tests[t])
    /\ tests' = [tests EXCEPT ![t] = Ran(tests[t], "REJECTED", {})]
    /\ UNCHANGED vars

RunRound(t) ==
    LET items == tests[t].attack.evidence
        readable == {i \in DOMAIN items : Readable(items[i])}
    IN /\ tests[t].status = "REGISTERED"
       /\ TestAdmitted(tests[t])
       /\ \E examined \in SUBSET readable :
          \E base \in RoundVerdicts(DOMAIN items, readable, examined) :
             LET found == TestIndicators(items, examined)
                 verdict == IF found = {} THEN base ELSE "SUSPICIOUS"
             IN tests' = [tests EXCEPT ![t] = Ran(tests[t], verdict, found)]
       /\ UNCHANGED vars

\* Mutant: a run records document numbers as a claim's resolution does.
RunAdversarialTest_Records(t) ==
    LET items == Committed(tests[t].attack.evidence, commitment_count)
    IN /\ tests[t].status = "REGISTERED"
       /\ tests' = [tests EXCEPT ![t] = Ran(tests[t], "INCONCLUSIVE", {})]
       /\ document_registry' =
             Recorded(document_registry, items, Facts(items, DOMAIN items), t)
       /\ UNCHANGED <<policyVars, claims, evidence_registry, commitment_count>>

\* Mutant: a test that has run may run again.
RunAdversarialTest_Again(t) ==
    \E verdict \in Verdicts :
        /\ tests' = [tests EXCEPT ![t] = Ran(tests[t], verdict, {})]
        /\ UNCHANGED vars

\* Permissionless, and possible on a version revoked since.
RunAdversarialTest(t) == RunRejected(t) \/ RunRound(t)

TestInit == Init /\ tests = <<>>

TestNext ==
    \/ \E s \in Accounts, p \in DOMAIN policies : \E v \in DOMAIN policies[p] :
          \E attack \in Attacks, expected \in Expectations :
             RegisterAdversarialTest(s, p, v, attack, expected)
    \/ \E t \in DOMAIN tests :
          \/ RunAdversarialTest(t)
          \/ \E s \in Accounts : \E v \in DOMAIN policies[tests[t].policy] :
                ReplayAdversarialTest(s, t, v)

EngineNext == (Next /\ UNCHANGED tests) \/ TestNext

EngineSpec == TestInit /\ [][EngineNext]_allVars

-------------------------------------------------------------------------------
(* What the registries would tell a claim submitted and resolved now, by   *)
(* the definitions of the ledger.                                          *)

Had(someClaims) == INSTANCE ClaimLedger WITH claims <- someClaims

FreshClaimHit(sender, p, attack, examined) ==
    LET items == Committed(attack.evidence, commitment_count)
        claim == NewClaim(sender, p, CHOOSE r \in References : TRUE, TRUE, items)
    IN Had(Append(claims, claim))!RegistryHit(Len(claims) + 1, items, examined)

\* Has the sender withdrawn a claim, unjudged, that committed such a document?
Forgiven(sender, attack) ==
    \E c \in DOMAIN claims :
        /\ WithdrawnUnjudged(claims[c], sender)
        /\ \E i \in DOMAIN attack.evidence :
              evidence_registry[attack.evidence[i].sha256] = c

(* run_adversarial_test: "exactly the pipeline a real claim meets".  At    *)
(* every moment a test is flagged by the registries whenever a claim with  *)
(* the same documents would be, although it has no commitment number; and  *)
(* a claim escapes where the test does not only when its claimant withdrew *)
(* an unjudged claim on one of the documents.                              *)
TestsMeetWhatClaimsMeet ==
    \A p \in DOMAIN policies, s \in Accounts, attack \in Attacks :
        LET items == attack.evidence
        IN \A examined \in SUBSET {i \in DOMAIN items : Readable(items[i])} :
              LET test == TestIndicators(items, examined) # {}
                  claim == FreshClaimHit(s, p, attack, examined)
              IN /\ claim => test
                 /\ test /\ ~claim => Forgiven(s, attack)

(* No version collects more tests than MAX_TESTS_PER_VERSION, by           *)
(* register_ and by replay_adversarial_test from other versions together.  *)
WithinCapacity ==
    \A p \in DOMAIN policies : \A v \in DOMAIN policies[p] :
        Cardinality(TestsOf(p, v)) <= MAX_TESTS_PER_VERSION

(* run_adversarial_test "runs once": a recorded result is final and stays  *)
(* about what was registered.  A test keeps its version, attack and        *)
(* expectation, and once it has run nothing of it changes, whatever        *)
(* happens to its version and its source.                                  *)
ResultsAreFinal ==
    [][\A t \in DOMAIN tests :
          /\ t \in DOMAIN tests'
          /\ tests[t].status = "RAN" => tests'[t] = tests[t]
          /\ tests'[t] = Ran(tests[t], tests'[t].verdict, tests'[t].indicators)
                \/ tests'[t] = tests[t]]_allVars
===============================================================================
