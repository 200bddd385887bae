------------------------- MODULE ConsensusRound_proofs -------------------------
(***************************************************************************)
(* Proofs about one consensus round, for any subjects, any set of          *)
(* validators and any number of rotations, and for leaders that may return *)
(* anything whatever (`Deviations` is not constrained): what is recorded   *)
(* is what every agreeing validator derived and saw, failures are shared,  *)
(* nothing ratified is refused at the boundary, and honest rounds agree    *)
(* unless a note of the leader was cut just after a word.                  *)
(***************************************************************************)
EXTENDS ConsensusRound, FiniteSetTheorems, TLAPS

-------------------------------------------------------------------------------
(* The invariant: every vote to agree is one the rule allows, cast on what *)
(* the leader returned by a node that derived its own round.               *)

BallotsCast ==
    \A v \in Validators :
        votes[v] = "agree" =>
            \E mine \in Derived[subject] :
                ValidatorDecision(leader, mine) /\ own[v] = Unquoted(mine)

OutcomeFounded ==
    /\ outcome \in {"recorded", "refused", "reverted"} => Majority
    /\ outcome = "reverted" => leader.kind = "error"
    /\ outcome = "recorded" => leader.kind # "error" /\ Gate(leader.payload, NoTexts)
    /\ outcome = "refused" => leader.kind # "error" /\ ~Gate(leader.payload, NoTexts)

ConsensusInv ==
    /\ subject \in Subjects
    /\ votes \in [Validators -> {"none", "agree", "disagree"}]
    /\ DOMAIN own = Validators
    /\ leader = Nothing => \A v \in Validators : votes[v] = "none"
    /\ BallotsCast
    /\ OutcomeFounded

LEMMA GateStays ==
    ASSUME UNCHANGED <<subject, leader>>, NEW texts
    PROVE  Gate(leader.payload, texts)' <=> Gate(leader.payload, texts)
<1>1. AsStated(leader.payload)' = AsStated(leader.payload)
  BY DEF AsStated
<1>2. QED
  BY <1>1 DEF Gate

LEMMA DecisionStays ==
    ASSUME UNCHANGED <<subject, leader>>, NEW mine
    PROVE  ValidatorDecision(leader, mine)' <=> ValidatorDecision(leader, mine)
<1>1. \A texts : Gate(leader.payload, texts)' <=> Gate(leader.payload, texts)
  BY GateStays
<1>2. QED
  BY <1>1 DEF ValidatorDecision

LEMMA MajorityStays ==
    ASSUME UNCHANGED votes
    PROVE  Majority' <=> Majority
BY DEF Majority, Agreeing

LEMMA OutcomeStays ==
    ASSUME OutcomeFounded, UNCHANGED <<subject, leader, votes, outcome>>
    PROVE  OutcomeFounded'
BY GateStays, MajorityStays DEF OutcomeFounded

LEMMA ConsensusInductive == ConsensusInv /\ [Next]_roundVars => ConsensusInv'
<1> SUFFICES ASSUME ConsensusInv, [Next]_roundVars
             PROVE  ConsensusInv'
  OBVIOUS
<1> USE DEF ConsensusInv
<1>1. ASSUME UNCHANGED <<subject, leader, votes, own>>
      PROVE  BallotsCast'
  BY <1>1, DecisionStays DEF BallotsCast
<1>2. CASE Lead
  <2>1. leader = Nothing /\ outcome = "open"
    BY <1>2 DEF Lead
  <2>2. UNCHANGED <<subject, votes, own, outcome>>
    BY <1>2 DEF Lead
  <2>3. \A v \in Validators : votes[v] # "agree"
    BY <2>1
  <2>4. BallotsCast'
    BY <2>2, <2>3 DEF BallotsCast
  <2>5. QED
    BY <2>1, <2>2, <2>4 DEF OutcomeFounded
<1>3. ASSUME NEW v \in Validators, Vote(v)
      PROVE  ConsensusInv'
  <2>1. PICK mine \in Derived[subject] :
           /\ votes' = [votes EXCEPT ![v] = Ballot(mine).vote]
           /\ own' = [own EXCEPT ![v] = Ballot(mine).own]
    BY <1>3 DEF Vote
  <2>2. UNCHANGED <<subject, leader, outcome>> /\ outcome = "open"
    BY <1>3 DEF Vote
  <2>3. Ballot(mine).vote \in {"none", "agree", "disagree"}
    BY DEF Ballot
  <2>4. BallotsCast'
    <3> SUFFICES ASSUME NEW w \in Validators, votes'[w] = "agree"
                 PROVE  \E other \in Derived[subject] :
                           ValidatorDecision(leader, other)' /\ own'[w] = Unquoted(other)
      BY <2>2 DEF BallotsCast
    <3>1. CASE w = v
      <4>1. ValidatorDecision(leader, mine) /\ own'[w] = Unquoted(mine)
        BY <2>1, <3>1 DEF Ballot
      <4>2. QED
        BY <2>2, <4>1, DecisionStays
    <3>2. CASE w # v
      <4>1. votes[w] = "agree" /\ own'[w] = own[w]
        BY <2>1, <3>2
      <4>2. QED
        BY <2>2, <4>1, DecisionStays DEF BallotsCast
    <3>3. QED
      BY <3>1, <3>2
  <2>5. QED
    BY <1>3, <2>1, <2>2, <2>3, <2>4 DEF OutcomeFounded, Vote
<1>4. CASE Ratify
  <2>1. UNCHANGED <<subject, leader, votes, own>> /\ Majority
    BY <1>4 DEF Ratify
  <2>2. outcome' = IF leader.kind = "error" THEN "reverted"
                   ELSE IF Gate(leader.payload, NoTexts) THEN "recorded" ELSE "refused"
    BY <1>4 DEF Ratify
  <2>3. OutcomeFounded'
    BY <2>1, <2>2, GateStays, MajorityStays DEF OutcomeFounded
  <2>4. QED
    BY <1>1, <2>1, <2>3
<1>5. CASE Rotate
  <2>1. /\ UNCHANGED <<subject, outcome>> /\ outcome = "open"
        /\ votes' = [v \in Validators |-> "none"]
        /\ own' = [v \in Validators |-> Nothing]
    BY <1>5 DEF Rotate, AllVoted
  <2>2. BallotsCast'
    BY <2>1 DEF BallotsCast
  <2>3. QED
    BY <2>1, <2>2 DEF OutcomeFounded
<1>6. CASE GiveUp
  <2>1. UNCHANGED <<subject, leader, votes, own>> /\ outcome' = "undetermined"
    BY <1>6 DEF GiveUp
  <2>2. QED
    BY <1>1, <2>1 DEF OutcomeFounded
<1>7. CASE UNCHANGED roundVars
  <2>1. UNCHANGED <<subject, leader, votes, own, outcome>>
    BY <1>7 DEF roundVars
  <2>2. QED
    BY <1>1, <2>1, OutcomeStays
<1>8. QED
  BY <1>2, <1>3, <1>4, <1>5, <1>6, <1>7 DEF Next

LEMMA ConsensusInvariant == Spec => []ConsensusInv
<1>1. Init => ConsensusInv
  BY DEF Init, ConsensusInv, BallotsCast, OutcomeFounded
<1>2. QED
  BY <1>1, ConsensusInductive, PTL DEF Spec

-------------------------------------------------------------------------------
(* The boundary, and failures.                                             *)

LEMMA SomeoneAgreed ==
    ASSUME Majority
    PROVE  Agreeing # {}
<1>1. Cardinality({}) = 0 /\ Cardinality(Validators) \in Nat
  BY ConsensusConstants, FS_EmptySet, FS_CardinalityType
<1>2. QED
  BY <1>1 DEF Majority

\* What passes the gate of a node passes the gate that holds no document.
LEMMA GateWithoutTexts ==
    ASSUME NEW p, NEW texts, Gate(p, texts)
    PROVE  Gate(p, NoTexts)
<1>1. ASSUME NEW q, NEW eligible, QuoteGrounded(q, eligible, texts)
      PROVE  QuoteGrounded(q, eligible, NoTexts)
  BY <1>1 DEF QuoteGrounded
<1>2. ASSUME NEW f, NEW record, NEW read, NEW id,
             CheckPanelFinding(f, record, read, id, texts)
      PROVE  CheckPanelFinding(f, record, read, id, NoTexts)
  BY <1>1, <1>2 DEF CheckPanelFinding
<1>3. ASSUME NEW record, NEW read, FindingsAdmissible(p, record, read, texts)
      PROVE  FindingsAdmissible(p, record, read, NoTexts)
  BY <1>2, <1>3 DEF FindingsAdmissible
<1>4. QED
  BY <1>3 DEF Gate

(* No round that a majority agreed on is refused at the boundary.          *)
THEOREM BoundaryRefusesNothing == Spec => []NeverRefused
<1>1. ConsensusInv => NeverRefused
  <2> SUFFICES ASSUME ConsensusInv, outcome = "refused"
               PROVE  FALSE
    BY DEF NeverRefused
  <2>1. leader.kind # "error" /\ ~Gate(leader.payload, NoTexts) /\ Majority
    BY DEF ConsensusInv, OutcomeFounded
  <2>2. PICK mine : ValidatorDecision(leader, mine)
    BY <2>1, SomeoneAgreed DEF ConsensusInv, BallotsCast, Agreeing
  <2>3. Gate(leader.payload, NoTexts)
    BY <2>1, <2>2, GateWithoutTexts DEF ValidatorDecision
  <2>4. QED
    BY <2>1, <2>3
<1>2. QED
  BY <1>1, ConsensusInvariant, PTL

\* What a node derives is a payload or a transient failure.
LEMMA ResultsAre ==
    ASSUME NEW record, NEW result \in NodeResults(record)
    PROVE  \/ result = Failed("TRANSIENT")
           \/ \E p \in NodePayloads(record) : result = Returned(p)
BY DEF NodeResults

(* A failure is recorded only if every validator that agreed failed too.   *)
THEOREM FailuresAreShared == Spec => []ErrorsAreShared
<1>1. ConsensusInv => ErrorsAreShared
  <2> SUFFICES ASSUME ConsensusInv, outcome = "reverted", NEW v \in Agreeing
               PROVE  own[v] = Failed("TRANSIENT")
    BY DEF ErrorsAreShared
  <2>1. leader.kind = "error"
    BY DEF ConsensusInv, OutcomeFounded
  <2>2. PICK mine \in Derived[subject] :
           ValidatorDecision(leader, mine) /\ own[v] = Unquoted(mine)
    BY DEF ConsensusInv, BallotsCast, Agreeing
  <2>3. mine.kind = "error"
    BY <2>1, <2>2 DEF ValidatorDecision, VoteOnLeaderError
  <2>4. mine \in NodeResults(subject)
    BY DEF ConsensusInv, Derived
  <2>5. mine = Failed("TRANSIENT")
    BY <2>3, <2>4, ResultsAre DEF Returned
  <2>6. QED
    BY <2>2, <2>3, <2>5 DEF Unquoted
<1>2. QED
  BY <1>1, ConsensusInvariant, PTL

-------------------------------------------------------------------------------
(* Quotes.                                                                 *)

\* Held against bytes, every quote of a payload is in bytes the node has.
LEMMA GateSeesQuotes ==
    ASSUME NEW p, NEW texts, texts # NoTexts, Gate(p, texts),
           NEW id \in DOMAIN p.findings, NEW q \in p.findings[id].quotes
    PROVE  q.held /\ q.document \in texts
<1> DEFINE record == AsStated(p)
           read == ExaminedIn(p.rows)
<1>1. /\ DOMAIN p.findings = PanelIds(record) \union CodeIds(record, read)
      /\ FindingsAdmissible(p, record, read, texts)
      /\ \A i \in CodeIds(record, read) : p.findings[i] = FixedFinding(record, read, i)
      /\ p.panel_state \in {"SKIPPED", "ASSESSED", "MODEL_OUTPUT_INVALID"}
  BY DEF Gate
<1> HIDE DEF record, read
<1>2. \A i : FixedFinding(record, read, i).quotes = {}
  BY DEF FixedFinding, Finding
<1>3. id \in PanelIds(record)
  BY <1>1, <1>2
<1>4. \A by : SkippedFindings(record, read, by)[id].quotes = {}
  BY <1>2, <1>3 DEF SkippedFindings, Finding
<1>5. /\ p.panel_state = "ASSESSED"
      /\ CheckPanelFinding(p.findings[id], record, read, id, texts)
  <2> DEFINE panel == [i \in PanelIds(record) |-> p.findings[i]]
  <2>1. panel[id] = p.findings[id]
    BY <1>3
  <2>2. /\ p.panel_state = "SKIPPED" => panel = SkippedFindings(record, read, "CODE")
        /\ p.panel_state = "MODEL_OUTPUT_INVALID" =>
              panel = SkippedFindings(record, read, "PANEL")
        /\ p.panel_state = "ASSESSED" =>
              CheckPanelFinding(panel[id], record, read, id, texts)
    BY <1>1, <1>3 DEF FindingsAdmissible
  <2> HIDE DEF panel
  <2>3. QED
    BY <1>1, <1>4, <2>1, <2>2
<1>6. QED
  BY <1>2, <1>5 DEF CheckPanelFinding, QuoteGrounded

\* The shape of what a node derives.
LEMMA PayloadsAre ==
    ASSUME NEW record, NEW p \in NodePayloads(record)
    PROVE  \E rows \in RowsOf(record) :
              LET read == ExaminedIn(rows)
              IN \/ /\ SkipReason(record, read) # ""
                    /\ p = Payload(record, rows, "SKIPPED",
                                   SkippedFindings(record, read, "CODE"))
                 \/ /\ SkipReason(record, read) = ""
                    /\ p = Payload(record, rows, "MODEL_OUTPUT_INVALID",
                                   SkippedFindings(record, read, "PANEL"))
                 \/ /\ SkipReason(record, read) = ""
                    /\ \E f \in PanelRounds(record, read) :
                          p = Payload(record, rows, "ASSESSED", f)
<1>1. PICK rows \in RowsOf(record) :
         p \in LET read == ExaminedIn(rows)
               IN IF SkipReason(record, read) # ""
                  THEN {Payload(record, rows, "SKIPPED",
                                SkippedFindings(record, read, "CODE"))}
                  ELSE {Payload(record, rows, "MODEL_OUTPUT_INVALID",
                                SkippedFindings(record, read, "PANEL"))}
                       \union {Payload(record, rows, "ASSESSED", f) :
                                  f \in PanelRounds(record, read)}
  BY DEF NodePayloads
<1>2. QED
  BY <1>1

LEMMA PayloadFields ==
    ASSUME NEW record, NEW p \in NodePayloads(record)
    PROVE  /\ p = [header |-> "ours", rows |-> p.rows, facts |-> p.facts,
                   markers |-> p.markers, panel_state |-> p.panel_state,
                   panel_reason |-> p.panel_reason, findings |-> p.findings]
           /\ DOMAIN p.rows = DOMAIN record.documents
           /\ DOMAIN p.findings = PanelIds(record) \union CodeIds(record, ExaminedIn(p.rows))
<1>1. PICK rows, panel, f : rows \in RowsOf(record) /\ p = Payload(record, rows, panel, f)
  <2>1. PICK rows \in RowsOf(record) : \E panel, f : p = Payload(record, rows, panel, f)
    <3> DEFINE shape(rows, read) ==
                  \/ /\ SkipReason(record, read) # ""
                     /\ p = Payload(record, rows, "SKIPPED",
                                    SkippedFindings(record, read, "CODE"))
                  \/ /\ SkipReason(record, read) = ""
                     /\ p = Payload(record, rows, "MODEL_OUTPUT_INVALID",
                                    SkippedFindings(record, read, "PANEL"))
                  \/ /\ SkipReason(record, read) = ""
                     /\ \E f \in PanelRounds(record, read) :
                           p = Payload(record, rows, "ASSESSED", f)
    <3>1. PICK rows \in RowsOf(record) : shape(rows, ExaminedIn(rows))
      BY PayloadsAre
    <3>2. QED
      BY <3>1
  <2>2. QED
    BY <2>1
<1>2. DOMAIN rows = DOMAIN record.documents
  BY <1>1 DEF RowsOf
<1>3. p.rows = rows
  BY <1>1 DEF Payload
<1>4. DOMAIN p.findings = PanelIds(record) \union CodeIds(record, ExaminedIn(rows))
  BY <1>1 DEF Payload
<1>5. p = [header |-> "ours", rows |-> p.rows, facts |-> p.facts,
           markers |-> p.markers, panel_state |-> p.panel_state,
           panel_reason |-> p.panel_reason, findings |-> p.findings]
  BY <1>1 DEF Payload
<1>6. QED
  BY <1>2, <1>3, <1>4, <1>5

\* What an agreeing validator keeps of its own round.
LEMMA KeptRound ==
    ASSUME ConsensusInv, NEW v \in Agreeing, leader.kind # "error"
    PROVE  \E p \in NodePayloads(subject) :
              /\ DecisionFieldsEqual(p, leader.payload)
              /\ Gate(leader.payload, ExaminedIn(p.rows))
              /\ own[v].payload = [p EXCEPT !.findings =
                    [id \in DOMAIN @ |-> Stripped(@[id])]]
<1>1. PICK mine \in Derived[subject] :
         ValidatorDecision(leader, mine) /\ own[v] = Unquoted(mine)
  BY DEF ConsensusInv, BallotsCast, Agreeing
<1>2. /\ mine.kind = "return"
      /\ DecisionFieldsEqual(mine.payload, leader.payload)
      /\ Gate(leader.payload, ExaminedIn(mine.payload.rows))
  BY <1>1 DEF ValidatorDecision
<1>3. mine \in NodeResults(subject)
  BY DEF ConsensusInv, Derived
<1>4. PICK p \in NodePayloads(subject) : mine = Returned(p)
  BY <1>2, <1>3, ResultsAre DEF Failed
<1>5. mine.payload = p
  BY <1>4 DEF Returned
<1>6. own[v].payload = [p EXCEPT !.findings =
                          [id \in DOMAIN @ |-> Stripped(@[id])]]
  BY <1>1, <1>2, <1>4 DEF Unquoted, Returned
<1>7. QED
  BY <1>2, <1>5, <1>6

(* Every quote recorded is in its document, in bytes every validator that  *)
(* agreed had examined itself.                                             *)
THEOREM QuotesWereSeen == Spec => []RecordedQuotesWereSeen
<1>1. ConsensusInv => RecordedQuotesWereSeen
  <2> SUFFICES ASSUME ConsensusInv, outcome = "recorded",
                      NEW id \in DOMAIN leader.payload.findings,
                      NEW q \in leader.payload.findings[id].quotes
               PROVE  /\ q.held
                      /\ \A v \in Agreeing : q.document \in ExaminedIn(own[v].payload.rows)
    BY DEF RecordedQuotesWereSeen
  <2>1. leader.kind # "error" /\ Agreeing # {}
    BY SomeoneAgreed DEF ConsensusInv, OutcomeFounded
  <2>2. ASSUME NEW v \in Agreeing
        PROVE  q.held /\ q.document \in ExaminedIn(own[v].payload.rows)
    <3>1. PICK p \in NodePayloads(subject) :
             /\ Gate(leader.payload, ExaminedIn(p.rows))
             /\ own[v].payload = [p EXCEPT !.findings =
                   [i \in DOMAIN @ |-> Stripped(@[i])]]
      BY <2>1, KeptRound
    <3>2. own[v].payload.rows = p.rows
      BY <3>1, PayloadFields
    <3>3. ExaminedIn(p.rows) # NoTexts
      <4>1. subject.documents \in Seq(Reading(subject)!Document)
        BY SubjectsAreClaims DEF ConsensusInv, Reading!Context
      <4>2. 0 \notin DOMAIN p.rows
        BY <4>1, PayloadFields
      <4>3. QED
        BY <4>2 DEF ExaminedIn, NoTexts
    <3>4. q.held /\ q.document \in ExaminedIn(p.rows)
      BY <3>1, <3>3, GateSeesQuotes
    <3>5. QED
      BY <3>2, <3>4
  <2>3. QED
    BY <2>1, <2>2
<1>2. QED
  BY <1>1, ConsensusInvariant, PTL

-------------------------------------------------------------------------------
(* The verdict.                                                            *)

\* Quotes do not enter the derivation.
LEMMA DeriveByStates ==
    ASSUME NEW record, NEW statuses, NEW read, NEW state, NEW f, NEW g,
           DOMAIN f.criteria = DOMAIN g.criteria,
           \A k \in DOMAIN f.criteria : f.criteria[k].state = g.criteria[k].state,
           DOMAIN f.exclusions = DOMAIN g.exclusions,
           \A k \in DOMAIN f.exclusions : f.exclusions[k].state = g.exclusions[k].state,
           f.indicators = g.indicators
    PROVE  Reading(record)!Derive(statuses, read, state, f)
              = Reading(record)!Derive(statuses, read, state, g)
<1> DEFINE hard == Reading(record)!HardFacts(read)
<1>1. /\ Reading(record)!CriticalUnmet(f) <=> Reading(record)!CriticalUnmet(g)
      /\ Reading(record)!ExclusionApplies(f) <=> Reading(record)!ExclusionApplies(g)
      /\ Reading(record)!Unmet(f) <=> Reading(record)!Unmet(g)
  BY DEF Reading!CriticalUnmet, Reading!ExclusionApplies, Reading!Unmet
<1>2. \A names : Reading(record)!RaisedIn(f, names) <=> Reading(record)!RaisedIn(g, names)
  BY DEF Reading!RaisedIn
<1>3. Reading(record)!AnyUndecided(f, hard) <=> Reading(record)!AnyUndecided(g, hard)
  BY DEF Reading!AnyUndecided
<1>4. Reading(record)!Conclusion(read, f) = Reading(record)!Conclusion(read, g)
  BY <1>1, <1>2, <1>3 DEF Reading!Conclusion
<1>5. QED
  BY <1>4 DEF Reading!Derive, Reading!Outcome

\* A payload's facts and markers change nothing else of the subject.
LEMMA StatedRecord ==
    ASSUME subject \in Subjects, NEW p
    PROVE  /\ AsStated(p).criteria = subject.criteria
           /\ AsStated(p).exclusions = subject.exclusions
           /\ AsStated(p).claimed = subject.claimed
           /\ AsStated(p).incident = subject.incident
           /\ AsStated(p).submitted_on = subject.submitted_on
           /\ AsStated(p).tolerance_bps = subject.tolerance_bps
           /\ DOMAIN AsStated(p).documents = DOMAIN subject.documents
<1>1. subject \in Reading(subject)!Context
  BY SubjectsAreClaims
<1>2. {"documents", "criteria", "exclusions", "claimed", "incident", "submitted_on",
       "tolerance_bps"} = DOMAIN subject
  BY <1>1 DEF Reading!Context
<1>3. QED
  BY <1>2 DEF AsStated

\* What the derivation reads of a payload's findings.
FindingsRead(p, record) ==
    [criteria |-> [k \in DOMAIN record.criteria |->
                      [state |-> p.findings[<<"criterion", k>>].state,
                       quoted |-> p.findings[<<"criterion", k>>].quotes # {}]],
     exclusions |-> [k \in DOMAIN record.exclusions |->
                        [state |-> p.findings[<<"exclusion", k>>].state,
                         quoted |-> p.findings[<<"exclusion", k>>].quotes # {}]],
     indicators |-> [n \in Reading(record)!PanelIndicators |->
                        p.findings[<<"indicator", n>>].state]]

LEMMA VerdictReads ==
    ASSUME NEW p
    PROVE  VerdictOf(p) =
              Reading(AsStated(p))!Derive(
                 {p.rows[i].status : i \in DOMAIN p.rows}, ExaminedIn(p.rows),
                 IF p.panel_state = "MODEL_OUTPUT_INVALID" THEN "INVALID" ELSE p.panel_state,
                 FindingsRead(p, AsStated(p)))
BY DEF VerdictOf, FindingsRead

(* The verdict recorded is the one each agreeing validator's own round     *)
(* leads to, whatever the leader returned and whatever each quoted.        *)
THEOREM VerdictIsEveryones == Spec => []RecordedVerdictIsEveryones
<1>1. ConsensusInv => RecordedVerdictIsEveryones
  <2> SUFFICES ASSUME ConsensusInv, outcome = "recorded", NEW v \in Agreeing
               PROVE  VerdictOf(own[v].payload) = VerdictOf(leader.payload)
    BY DEF RecordedVerdictIsEveryones
  <2>1. leader.kind # "error"
    BY DEF ConsensusInv, OutcomeFounded
  <2>2. PICK p \in NodePayloads(subject) :
           /\ DecisionFieldsEqual(p, leader.payload)
           /\ own[v].payload = [p EXCEPT !.findings =
                 [id \in DOMAIN @ |-> Stripped(@[id])]]
    BY <2>1, KeptRound
  <2> DEFINE theirs == leader.payload
             mine == own[v].payload
             record == AsStated(theirs)
  <2>3. /\ mine.rows = theirs.rows /\ mine.panel_state = theirs.panel_state
        /\ mine.facts = theirs.facts /\ mine.markers = theirs.markers
    BY <2>2, PayloadFields DEF DecisionFieldsEqual
  <2>4. AsStated(mine) = record
    BY <2>3 DEF AsStated
  <2>5. \A id \in DOMAIN p.findings : mine.findings[id].state = theirs.findings[id].state
    <3>1. mine.findings = [id \in DOMAIN p.findings |-> Stripped(p.findings[id])]
      BY <2>2, PayloadFields
    <3>2. QED
      BY <2>2, <3>1 DEF DecisionFieldsEqual, Stripped, Finding
  <2>6. PanelIds(record) \subseteq DOMAIN p.findings
    <3>1. PanelIds(record) = PanelIds(subject)
      BY StatedRecord DEF ConsensusInv, PanelIds, CriterionIds, ExclusionIds, IndicatorIds,
         Reading!PanelIndicators, Reading!PANEL_INDICATOR_RULES, Reading!Rule
    <3>2. QED
      BY <3>1, PayloadFields
  <2>7. Reading(record)!Derive(
           {mine.rows[i].status : i \in DOMAIN mine.rows}, ExaminedIn(mine.rows),
           IF mine.panel_state = "MODEL_OUTPUT_INVALID" THEN "INVALID" ELSE mine.panel_state,
           FindingsRead(mine, record))
        = Reading(record)!Derive(
           {mine.rows[i].status : i \in DOMAIN mine.rows}, ExaminedIn(mine.rows),
           IF mine.panel_state = "MODEL_OUTPUT_INVALID" THEN "INVALID" ELSE mine.panel_state,
           FindingsRead(theirs, record))
    <3> DEFINE f == FindingsRead(mine, record)
               g == FindingsRead(theirs, record)
    <3>1. \A id \in PanelIds(record) : mine.findings[id].state = theirs.findings[id].state
      BY <2>5, <2>6
    <3> HIDE DEF mine, theirs, record
    <3>2. /\ DOMAIN f.criteria = DOMAIN g.criteria
          /\ \A k \in DOMAIN f.criteria : f.criteria[k].state = g.criteria[k].state
      BY <3>1 DEF FindingsRead, PanelIds, CriterionIds
    <3>3. /\ DOMAIN f.exclusions = DOMAIN g.exclusions
          /\ \A k \in DOMAIN f.exclusions : f.exclusions[k].state = g.exclusions[k].state
      BY <3>1 DEF FindingsRead, PanelIds, ExclusionIds
    <3>4. f.indicators = g.indicators
      BY <3>1 DEF FindingsRead, PanelIds, IndicatorIds
    <3>5. QED
      BY <3>2, <3>3, <3>4, DeriveByStates
  <2>8. QED
    BY <2>3, <2>4, <2>7, VerdictReads
<1>2. QED
  BY <1>1, ConsensusInvariant, PTL

-------------------------------------------------------------------------------
(* Honest rounds.  A payload states its reader's own facts and markers, so *)
(* the record a gate reads it against differs from the subject at most in  *)
(* the markers of documents nobody examined; and none of what the plan and *)
(* the gate compute looks at those.                                        *)

Alike(r, s, read) ==
    /\ r.criteria = s.criteria /\ r.exclusions = s.exclusions
    /\ r.claimed = s.claimed /\ r.incident = s.incident
    /\ r.submitted_on = s.submitted_on /\ r.tolerance_bps = s.tolerance_bps
    /\ DOMAIN r.documents = DOMAIN s.documents
    /\ read \subseteq DOMAIN s.documents
    /\ \A i \in DOMAIN s.documents :
          LET a == r.documents[i]
              b == s.documents[i]
          IN /\ a.kind = b.kind /\ a.trusted = b.trusted
             /\ a.in_currency = b.in_currency /\ a.total = b.total
             /\ a.line_sum = b.line_sum /\ a.issued = b.issued
             /\ i \in read => a.marker = b.marker

\* A sum and a count do not depend on the record they are taken in.
LEMMA SameSum ==
    ASSUME NEW r, NEW s, NEW f, NEW among
    PROVE  Reading(r)!SumFunctionOnSet(f, among) = Reading(s)!SumFunctionOnSet(f, among)
BY DEF Reading!SumFunctionOnSet, Reading!FoldFunctionOnSet, Reading!MapThenFoldSet

LEMMA SameSize ==
    ASSUME NEW r, NEW s, NEW among
    PROVE  Reading(r)!Cardinality(among) = Reading(s)!Cardinality(among)
BY DEF Reading!Cardinality

LEMMA AlikeDocuments ==
    ASSUME NEW r, NEW s, NEW read, Alike(r, s, read)
    PROVE  /\ Reading(r)!AllDocuments = Reading(s)!AllDocuments
           /\ \A kinds : Reading(r)!OfKinds(kinds) = Reading(s)!OfKinds(kinds)
           /\ \A kinds : Reading(r)!Counted(kinds, read) = Reading(s)!Counted(kinds, read)
           /\ \A kinds : Reading(s)!Counted(kinds, read) \subseteq DOMAIN s.documents
           /\ \A kind, trusted : \A among \in SUBSET DOMAIN s.documents :
                 /\ Reading(r)!Eligible(kind, trusted, among)
                       = Reading(s)!Eligible(kind, trusted, among)
                 /\ Reading(s)!Eligible(kind, trusted, among) \subseteq among
           /\ \A among \in SUBSET DOMAIN s.documents :
                 Reading(r)!Total(among) = Reading(s)!Total(among)
<1>1. Reading(r)!AllDocuments = Reading(s)!AllDocuments
  BY DEF Alike, Reading!AllDocuments
<1>2. ASSUME NEW kinds
      PROVE  /\ Reading(r)!OfKinds(kinds) = Reading(s)!OfKinds(kinds)
             /\ Reading(r)!Counted(kinds, read) = Reading(s)!Counted(kinds, read)
             /\ Reading(s)!Counted(kinds, read) \subseteq DOMAIN s.documents
  BY DEF Alike, Reading!OfKinds, Reading!Counted, Reading!AllDocuments, Reading!Doc
<1>3. ASSUME NEW kind, NEW trusted, NEW among \in SUBSET DOMAIN s.documents
      PROVE  /\ Reading(r)!Eligible(kind, trusted, among)
                   = Reading(s)!Eligible(kind, trusted, among)
             /\ Reading(s)!Eligible(kind, trusted, among) \subseteq among
  BY DEF Alike, Reading!Eligible, Reading!Doc
<1>4. ASSUME NEW among \in SUBSET DOMAIN s.documents
      PROVE  Reading(r)!Total(among) = Reading(s)!Total(among)
  <2>1. [i \in among |-> r.documents[i].total] = [i \in among |-> s.documents[i].total]
    BY DEF Alike
  <2>2. QED
    BY <2>1, SameSum DEF Reading!Total, Reading!Doc
<1>5. QED
  BY <1>1, <1>2, <1>3, <1>4

LEMMA AlikeFacts ==
    ASSUME NEW r, NEW s, NEW read, Alike(r, s, read)
    PROVE  Reading(r)!CodeIndicators(read) = Reading(s)!CodeIndicators(read)
<1> USE AlikeDocuments
<1>1. /\ Reading(r)!StructuredKinds = Reading(s)!StructuredKinds
      /\ Reading(r)!BPS_MAX = Reading(s)!BPS_MAX
      /\ Reading(r)!BasisKinds = Reading(s)!BasisKinds
  BY DEF Reading!StructuredKinds, Reading!BPS_MAX, Reading!BasisKinds
<1>2. Reading(r)!ArithmeticMismatch(read) = Reading(s)!ArithmeticMismatch(read)
  <2> DEFINE S == Reading(s)!OfKinds(Reading(s)!StructuredKinds)
  <2>1. {i \in read \cap S : r.documents[i].line_sum # r.documents[i].total}
        = {i \in read \cap S : s.documents[i].line_sum # s.documents[i].total}
    BY DEF Alike
  <2>2. QED
    BY <1>1, <2>1 DEF Reading!ArithmeticMismatch, Reading!PerDocument, Reading!Doc
<1>3. Reading(r)!DateConflict(read) = Reading(s)!DateConflict(read)
  <2> DEFINE S == Reading(s)!OfKinds(Reading(s)!StructuredKinds)
  <2>1. {i \in read \cap S : \/ r.documents[i].issued < r.incident
                             \/ r.documents[i].issued > r.submitted_on}
        = {i \in read \cap S : \/ s.documents[i].issued < s.incident
                               \/ s.documents[i].issued > s.submitted_on}
    BY DEF Alike
  <2>2. QED
    BY <1>1, <2>1 DEF Reading!DateConflict, Reading!PerDocument, Reading!Doc
<1>4. Reading(r)!InjectionMarker(read) = Reading(s)!InjectionMarker(read)
  <2>1. {i \in read : r.documents[i].marker} = {i \in read : s.documents[i].marker}
    BY DEF Alike
  <2>2. QED
    BY <2>1 DEF Reading!InjectionMarker, Reading!PerDocument, Reading!Doc
<1>5. Reading(r)!AmountInflated(read) = Reading(s)!AmountInflated(read)
  BY <1>1 DEF Reading!AmountInflated, Reading!Compared, Alike
<1>6. Reading(r)!EstimateExceeded(read) = Reading(s)!EstimateExceeded(read)
  <2> DEFINE invoices == Reading(s)!Counted({"INVOICE"}, read)
             estimates == Reading(s)!Counted({"REPAIR_ESTIMATE"}, read)
  <2>1. /\ Reading(r)!Counted({"INVOICE"}, read) = invoices
        /\ Reading(r)!Counted({"REPAIR_ESTIMATE"}, read) = estimates
        /\ \A kinds : Reading(r)!OfKinds(kinds) = Reading(s)!OfKinds(kinds)
    OBVIOUS
  <2>2. invoices \in SUBSET DOMAIN s.documents /\ estimates \in SUBSET DOMAIN s.documents
    OBVIOUS
  <2>3. /\ Reading(r)!Total(invoices) = Reading(s)!Total(invoices)
        /\ Reading(r)!Total(estimates) = Reading(s)!Total(estimates)
    BY <2>2
  <2>4. r.tolerance_bps = s.tolerance_bps
    BY DEF Alike
  <2> HIDE AlikeDocuments
  <2>5. QED
    BY <1>1, <2>1, <2>3, <2>4 DEF Reading!EstimateExceeded, Reading!Compared
<1>7. QED
  BY <1>2, <1>3, <1>4, <1>5, <1>6 DEF Reading!CodeIndicators

\* The subjects of a round, and what is planned for each of them.
LEMMA AlikePlan ==
    ASSUME NEW r, NEW s, NEW read, Alike(r, s, read)
    PROVE  /\ PanelIds(r) = PanelIds(s) /\ CodeIds(r, read) = CodeIds(s, read)
           /\ Structured(r) = Structured(s)
           /\ SkipReason(r, read) = SkipReason(s, read)
           /\ \A id \in PanelIds(s) :
                 /\ Asked(r, read, id) <=> Asked(s, read, id)
                 /\ QuotableFor(r, read, id) = QuotableFor(s, read, id)
                 /\ QuotableFor(s, read, id) \subseteq read
           /\ \A id \in PanelIds(s) \union CodeIds(s, read) :
                 FixedFinding(r, read, id) = FixedFinding(s, read, id)
<1>1. Reading(r)!CodeIndicators(read) = Reading(s)!CodeIndicators(read)
  BY AlikeFacts
<1>2. /\ read \in SUBSET DOMAIN s.documents
      /\ DOMAIN s.documents \in SUBSET DOMAIN s.documents
  BY DEF Alike
<1>3. /\ Reading(r)!AllDocuments = DOMAIN s.documents
      /\ Reading(s)!AllDocuments = DOMAIN s.documents
  BY DEF Alike, Reading!AllDocuments
<1>4. \A kind, trusted :
         /\ Reading(r)!Eligible(kind, trusted, read) = Reading(s)!Eligible(kind, trusted, read)
         /\ Reading(s)!Eligible(kind, trusted, read) \subseteq read
         /\ Reading(r)!Eligible(kind, trusted, DOMAIN s.documents)
               = Reading(s)!Eligible(kind, trusted, DOMAIN s.documents)
  BY <1>2, AlikeDocuments
<1>5. /\ PanelIds(r) = PanelIds(s) /\ CodeIds(r, read) = CodeIds(s, read)
      /\ Structured(r) = Structured(s)
  <2>1. PanelIds(r) = PanelIds(s)
    BY DEF Alike, PanelIds, CriterionIds, ExclusionIds, IndicatorIds,
       Reading!PanelIndicators, Reading!PANEL_INDICATOR_RULES, Reading!Rule
  <2>2. Structured(r) = Structured(s)
    BY DEF Alike, Structured, Reading!StructuredKinds
  <2>3. QED
    BY <1>1, <2>1, <2>2 DEF CodeIds
<1>6. SkipReason(r, read) = SkipReason(s, read)
  <2>1. Reading(r)!SkipPanel(read) <=> Reading(s)!SkipPanel(read)
    BY <1>1, <1>3 DEF Reading!SkipPanel, Reading!HardFact
  <2>2. QED
    BY <2>1 DEF SkipReason, Alike
<1>7. ASSUME NEW crit
      PROVE  /\ Reading(r)!AsksCriterion(crit, read) <=> Reading(s)!AsksCriterion(crit, read)
             /\ Reading(r)!CodeCriterion(crit, read) = Reading(s)!CodeCriterion(crit, read)
  <2>1. Reading(r)!Undecided = Reading(s)!Undecided
    BY DEF Reading!Undecided
  <2>2. Reading(r)!AmountDocumented(crit, read) = Reading(s)!AmountDocumented(crit, read)
    <3> DEFINE committed == Reading(s)!Eligible(crit.evidence_kind, crit.trusted_only,
                                                DOMAIN s.documents)
               used == {i \in committed \cap read : s.documents[i].in_currency}
    <3>1. {i \in committed \cap read : r.documents[i].in_currency} = used
      BY <1>2 DEF Alike
    <3>2. used \in SUBSET DOMAIN s.documents
      BY <1>2
    <3>3. Reading(r)!Total(used) = Reading(s)!Total(used)
      BY <3>2, AlikeDocuments
    <3>4. r.claimed = s.claimed
      BY DEF Alike
    <3>5. Reading(r)!Eligible(crit.evidence_kind, crit.trusted_only, DOMAIN s.documents)
             = committed
      BY <1>4
    <3>6. QED
      BY <1>3, <2>1, <3>1, <3>3, <3>4, <3>5 DEF Reading!AmountDocumented, Reading!Doc
  <2>3. QED
    BY <1>4, <2>1, <2>2 DEF Reading!AsksCriterion, Reading!CodeCriterion
<1>8. ASSUME NEW name, NEW excl
      PROVE  /\ Reading(r)!AsksExclusion(excl, read) <=> Reading(s)!AsksExclusion(excl, read)
             /\ Reading(r)!AsksIndicator(name, read) <=> Reading(s)!AsksIndicator(name, read)
  <2>1. Reading(r)!PANEL_INDICATOR_RULES = Reading(s)!PANEL_INDICATOR_RULES
    BY DEF Reading!PANEL_INDICATOR_RULES, Reading!Rule, Reading!StructuredKinds
  <2>2. \A i \in read : r.documents[i].kind = s.documents[i].kind
    BY DEF Alike
  <2>3. \A group : (\E i \in read : r.documents[i].kind \in group)
                    <=> (\E i \in read : s.documents[i].kind \in group)
    BY <2>2
  <2>4. Reading(r)!AsksIndicator(name, read) <=> Reading(s)!AsksIndicator(name, read)
    <3> DEFINE rule == Reading(s)!PANEL_INDICATOR_RULES[name]
    <3>1. Reading(r)!AsksIndicator(name, read)
             <=> /\ Reading(s)!Cardinality(read) >= rule.min_examined
                 /\ \A group \in rule.requires : \E i \in read : r.documents[i].kind \in group
      BY <2>1, SameSize DEF Reading!AsksIndicator, Reading!Doc
    <3>2. Reading(s)!AsksIndicator(name, read)
             <=> /\ Reading(s)!Cardinality(read) >= rule.min_examined
                 /\ \A group \in rule.requires : \E i \in read : s.documents[i].kind \in group
      BY DEF Reading!AsksIndicator, Reading!Doc
    <3>3. QED
      BY <2>3, <3>1, <3>2
  <2>5. QED
    BY <1>4, <2>4 DEF Reading!AsksExclusion
<1>9. r.criteria = s.criteria /\ r.exclusions = s.exclusions
  BY DEF Alike
<1>10. ASSUME NEW id \in PanelIds(s)
       PROVE  /\ Asked(r, read, id) <=> Asked(s, read, id)
              /\ QuotableFor(r, read, id) = QuotableFor(s, read, id)
              /\ QuotableFor(s, read, id) \subseteq read
  BY <1>4, <1>7, <1>8, <1>9 DEF Asked, QuotableFor
<1>11. ASSUME NEW id
       PROVE  FixedFinding(r, read, id) = FixedFinding(s, read, id)
  BY <1>1, <1>7, <1>9 DEF FixedFinding, CodeState
<1>12. QED
  BY <1>5, <1>6, <1>10, <1>11

LEMMA AlikeSupport ==
    ASSUME NEW r, NEW s, NEW read, Alike(r, s, read),
           NEW id, NEW state, NEW quotes, \A q \in quotes : q.document \in read
    PROVE  Supported(r, id, state, quotes) <=> Supported(s, id, state, quotes)
<1> DEFINE documents == {q.document : q \in quotes}
<1>1. \A i \in documents : r.documents[i].kind = s.documents[i].kind
  BY DEF Alike
<1>2. Reading(r)!PANEL_INDICATOR_RULES = Reading(s)!PANEL_INDICATOR_RULES
  BY DEF Reading!PANEL_INDICATOR_RULES, Reading!Rule, Reading!StructuredKinds
<1>3. Reading(r)!QuotesSatisfy(id[2], documents) <=> Reading(s)!QuotesSatisfy(id[2], documents)
  <2>1. \A kinds : (\E i \in documents : r.documents[i].kind \in kinds)
                    <=> (\E i \in documents : s.documents[i].kind \in kinds)
    BY <1>1
  <2> HIDE DEF documents
  <2>2. QED
    <3> DEFINE rule == Reading(s)!PANEL_INDICATOR_RULES[id[2]]
    <3>1. Reading(r)!QuotesSatisfy(id[2], documents)
             <=> /\ Reading(s)!Cardinality(documents) >= rule.min_docs
                 /\ rule.quote_kinds # {} =>
                       \E i \in documents : r.documents[i].kind \in rule.quote_kinds
      BY <1>2, SameSize DEF Reading!QuotesSatisfy, Reading!Doc
    <3>2. Reading(s)!QuotesSatisfy(id[2], documents)
             <=> /\ Reading(s)!Cardinality(documents) >= rule.min_docs
                 /\ rule.quote_kinds # {} =>
                       \E i \in documents : s.documents[i].kind \in rule.quote_kinds
      BY DEF Reading!QuotesSatisfy, Reading!Doc
    <3>3. QED
      BY <2>1, <3>1, <3>2
<1>4. QED
  BY <1>3 DEF Supported

\* What is in a payload a node derives.
HonestPayload(record, p) ==
    LET read == ExaminedIn(p.rows)
    IN /\ p.rows \in RowsOf(record) /\ p.header = "ours"
       /\ p.facts = [i \in read \cap Structured(record) |-> FactsOf(record.documents[i])]
       /\ p.markers = {i \in read : record.documents[i].marker}
       /\ p.panel_reason = SkipReason(record, read)
       /\ DOMAIN p.findings = PanelIds(record) \union CodeIds(record, read)
       /\ \A id \in CodeIds(record, read) : p.findings[id] = FixedFinding(record, read, id)
       /\ \/ /\ p.panel_state = "SKIPPED" /\ p.panel_reason # ""
             /\ \A id \in PanelIds(record) :
                   p.findings[id] = SkippedFindings(record, read, "CODE")[id]
          \/ /\ p.panel_state = "MODEL_OUTPUT_INVALID" /\ p.panel_reason = ""
             /\ \A id \in PanelIds(record) :
                   p.findings[id] = SkippedFindings(record, read, "PANEL")[id]
          \/ /\ p.panel_state = "ASSESSED" /\ p.panel_reason = ""
             /\ \A id \in PanelIds(record) : p.findings[id] \in PanelAnswers(record, read, id)

PayloadOf(p, record, rows, panel, f, read) ==
    /\ p.rows = rows /\ p.header = "ours" /\ p.panel_state = panel
    /\ p.facts = [i \in read \cap Structured(record) |-> FactsOf(record.documents[i])]
    /\ p.markers = {i \in read : record.documents[i].marker}
    /\ p.panel_reason = SkipReason(record, read)
    /\ DOMAIN p.findings = PanelIds(record) \union CodeIds(record, read)
    /\ \A id \in CodeIds(record, read) : p.findings[id] = FixedFinding(record, read, id)
    /\ \A id \in PanelIds(record) : p.findings[id] = f[id]

LEMMA PayloadRead ==
    ASSUME NEW record, NEW rows, NEW panel, NEW f, NEW p, p = Payload(record, rows, panel, f)
    PROVE  PayloadOf(p, record, rows, panel, f, ExaminedIn(p.rows))
<1> DEFINE read == ExaminedIn(rows)
<1>1. /\ p.rows = rows /\ p.header = "ours" /\ p.panel_state = panel
      /\ p.facts = [i \in read \cap Structured(record) |-> FactsOf(record.documents[i])]
      /\ p.markers = {i \in read : record.documents[i].marker}
      /\ p.panel_reason = SkipReason(record, read)
      /\ p.findings = [id \in PanelIds(record) \union CodeIds(record, read) |->
                          IF id[1] = "fact" THEN FixedFinding(record, read, id) ELSE f[id]]
  BY DEF Payload
<1>2. \A id \in CodeIds(record, read) : id[1] = "fact"
  BY DEF CodeIds
<1>3. \A id \in PanelIds(record) : id[1] # "fact"
  BY DEF PanelIds, CriterionIds, ExclusionIds, IndicatorIds
<1>4. QED
  BY <1>1, <1>2, <1>3 DEF PayloadOf

LEMMA NodesAreHonest ==
    ASSUME NEW record, NEW p \in NodePayloads(record)
    PROVE  HonestPayload(record, p)
<1> DEFINE shape(rows, read) ==
              \/ /\ SkipReason(record, read) # ""
                 /\ p = Payload(record, rows, "SKIPPED",
                                SkippedFindings(record, read, "CODE"))
              \/ /\ SkipReason(record, read) = ""
                 /\ p = Payload(record, rows, "MODEL_OUTPUT_INVALID",
                                SkippedFindings(record, read, "PANEL"))
              \/ /\ SkipReason(record, read) = ""
                 /\ \E f \in PanelRounds(record, read) :
                       p = Payload(record, rows, "ASSESSED", f)
<1>1. PICK rows \in RowsOf(record) : shape(rows, ExaminedIn(rows))
  BY PayloadsAre
<1>2. PICK panel, f :
         /\ p = Payload(record, rows, panel, f)
         /\ \/ /\ panel = "SKIPPED" /\ SkipReason(record, ExaminedIn(rows)) # ""
               /\ f = SkippedFindings(record, ExaminedIn(rows), "CODE")
            \/ /\ panel = "MODEL_OUTPUT_INVALID" /\ SkipReason(record, ExaminedIn(rows)) = ""
               /\ f = SkippedFindings(record, ExaminedIn(rows), "PANEL")
            \/ /\ panel = "ASSESSED" /\ SkipReason(record, ExaminedIn(rows)) = ""
               /\ f \in PanelRounds(record, ExaminedIn(rows))
  BY <1>1
<1> DEFINE read == ExaminedIn(p.rows)
<1>3. PayloadOf(p, record, rows, panel, f, read)
  BY <1>2, PayloadRead
<1>4. f \in PanelRounds(record, read) =>
         \A id \in PanelIds(record) : f[id] \in PanelAnswers(record, read, id)
  BY DEF PanelRounds
<1>5. \/ /\ p.panel_state = "SKIPPED" /\ p.panel_reason # ""
         /\ f = SkippedFindings(record, read, "CODE")
      \/ /\ p.panel_state = "MODEL_OUTPUT_INVALID" /\ p.panel_reason = ""
         /\ f = SkippedFindings(record, read, "PANEL")
      \/ /\ p.panel_state = "ASSESSED" /\ p.panel_reason = ""
         /\ f \in PanelRounds(record, read)
  BY <1>2, <1>3 DEF PayloadOf
<1> HIDE DEF shape
<1>6. QED
  BY <1>1, <1>3, <1>4, <1>5, Zenon DEF HonestPayload, PayloadOf

LEMMA HonestStates ==
    ASSUME subject \in Subjects, NEW p, HonestPayload(subject, p)
    PROVE  Alike(AsStated(p), subject, ExaminedIn(p.rows))
<1> DEFINE r == AsStated(p)
           read == ExaminedIn(p.rows)
<1>1. subject \in Reading(subject)!Context
  BY SubjectsAreClaims
<1>2. read \subseteq DOMAIN subject.documents
  BY DEF HonestPayload, RowsOf, ExaminedIn
<1>3. ASSUME NEW i \in DOMAIN subject.documents
      PROVE  LET a == r.documents[i]
                 b == subject.documents[i]
             IN /\ a.kind = b.kind /\ a.trusted = b.trusted
                /\ a.in_currency = b.in_currency /\ a.total = b.total
                /\ a.line_sum = b.line_sum /\ a.issued = b.issued
                /\ i \in read => a.marker = b.marker
  <2> DEFINE b == subject.documents[i]
             doc == [b EXCEPT !.marker = i \in p.markers]
  <2>1. b \in Reading(subject)!Document
    BY <1>1 DEF Reading!Context
  <2>2. /\ DOMAIN b = {"kind", "trusted", "bytes", "in_currency", "total", "line_sum",
                       "issued", "marker", "known_bytes", "known_number"}
        /\ b.marker \in BOOLEAN
    BY <2>1 DEF Reading!Document
  <2>3. r.documents[i] = IF i \in DOMAIN p.facts
                         THEN [f \in DOMAIN doc |->
                                  IF f \in DOMAIN p.facts[i] THEN p.facts[i][f] ELSE doc[f]]
                         ELSE doc
    BY <1>1 DEF AsStated, Reading!Context
  <2>4. /\ DOMAIN doc = DOMAIN b
        /\ doc.marker = (i \in p.markers)
        /\ \A f \in DOMAIN b \ {"marker"} : doc[f] = b[f]
    BY <2>2
  <2>5. i \in read => doc.marker = b.marker
    <3>1. p.markers = {j \in read : subject.documents[j].marker}
      BY DEF HonestPayload
    <3>2. i \in read => (i \in p.markers <=> b.marker)
      BY <3>1
    <3> HIDE DEF b, doc, read
    <3>3. QED
      BY <2>2, <2>4, <3>2
  <2>6. i \in DOMAIN p.facts =>
           /\ DOMAIN p.facts[i] = {"in_currency", "total", "line_sum", "issued",
                                   "known_number"}
           /\ \A f \in DOMAIN p.facts[i] : p.facts[i][f] = b[f]
    <3>1. p.facts = [j \in read \cap Structured(subject) |-> FactsOf(subject.documents[j])]
      BY DEF HonestPayload
    <3>2. i \in DOMAIN p.facts => p.facts[i] = FactsOf(b)
      BY <3>1
    <3> HIDE DEF b, doc, read
    <3>3. QED
      BY <3>2 DEF FactsOf
  <2> HIDE DEF b, doc
  <2>7. \A f \in DOMAIN b : f # "marker" \/ i \in read => r.documents[i][f] = b[f]
    BY <2>2, <2>3, <2>4, <2>5, <2>6
  <2>8. QED
    BY <2>2, <2>7 DEF b
<1>4. QED
  BY <1>2, <1>3, StatedRecord DEF Alike

LEMMA HonestRows ==
    ASSUME subject \in Subjects, NEW rows \in RowsOf(subject), NEW i \in DOMAIN rows
    PROVE  RowAdmissible(rows[i])
<1>1. PICK statuses :
         /\ rows = [j \in DOMAIN subject.documents |->
                       FetchedRow(subject.documents[j], statuses[j])]
         /\ DOMAIN statuses = DOMAIN subject.documents
         /\ \A j \in DOMAIN statuses :
               statuses[j] \in Reading(subject)!FetchOutcomes(subject.documents[j])
  BY DEF RowsOf
<1> DEFINE doc == subject.documents[i]
           status == statuses[i]
<1>2. rows[i] = FetchedRow(doc, status) /\ status \in Reading(subject)!FetchOutcomes(doc)
  BY <1>1
<1>3. doc.bytes \in {"readable", "oversized", "malformed"}
  <2>1. doc \in Reading(subject)!Document
    BY <1>1, SubjectsAreClaims DEF Reading!Context
  <2>2. QED
    BY <2>1 DEF Reading!Document
<1> HIDE DEF doc, status
<1>4. \/ status \in {"UNAVAILABLE", "HASH_MISMATCH"}
      \/ doc.bytes = "readable" /\ status = "EXAMINED"
      \/ doc.bytes = "oversized" /\ status = "TOO_LARGE"
      \/ doc.bytes = "malformed" /\ status = "UNPARSEABLE"
  BY <1>2, <1>3 DEF Reading!FetchOutcomes
<1>5. QED
  BY <1>2, <1>4 DEF RowAdmissible, FetchedRow, Row, BytesVerified, FETCH_BYTES_CAP

\* What a panel may answer is admissible unless its note was cut just after
\* a word, and says who decided.
LEMMA HonestAnswers ==
    ASSUME NEW r, NEW s, NEW read, Alike(r, s, read), NEW id \in PanelIds(s),
           NEW f \in PanelAnswers(s, read, id), read # NoTexts
    PROVE  /\ CheckPanelFinding(f, r, read, id, read) <=> CleanNote(f.note) = f.note
           /\ f.by = IF Asked(s, read, id) THEN "PANEL" ELSE "CODE"
<1>1. /\ Asked(r, read, id) <=> Asked(s, read, id)
      /\ QuotableFor(r, read, id) = QuotableFor(s, read, id)
      /\ QuotableFor(s, read, id) \subseteq read
      /\ FixedFinding(r, read, id) = FixedFinding(s, read, id)
  BY AlikePlan
<1>2. CASE ~Asked(s, read, id)
  <2>1. f = FixedFinding(s, read, id)
    BY <1>2 DEF PanelAnswers
  <2>2. f.by = "CODE" /\ CleanNote(f.note) = f.note
    BY <2>1 DEF FixedFinding, Finding, CleanNote, NoNote
  <2>3. QED
    BY <1>1, <1>2, <2>1, <2>2 DEF CheckPanelFinding
<1>3. CASE Asked(s, read, id)
  <2>1. PICK state \in Vocabulary(id), cited \in SUBSET QuotableFor(s, read, id),
            note \in Notes(id) :
           /\ Supported(s, id, state, {Quote(i, TRUE) : i \in cited})
           /\ f = Finding(state, "PANEL", {Quote(i, TRUE) : i \in cited}, note)
    <3>1. PICK a \in Vocabulary(id) \X (SUBSET QuotableFor(s, read, id)) \X Notes(id) :
             /\ Supported(s, id, a[1], {Quote(i, TRUE) : i \in a[2]})
             /\ f = Finding(a[1], "PANEL", {Quote(i, TRUE) : i \in a[2]}, a[3])
      BY <1>3 DEF PanelAnswers
    <3>2. QED
      BY <3>1
  <2> DEFINE quotes == {Quote(i, TRUE) : i \in cited}
  <2>2. f.state = state /\ f.by = "PANEL" /\ f.quotes = quotes
    BY <2>1 DEF Finding
  <2>3. \A q \in quotes : q.document \in cited /\ q.held
    BY DEF Quote
  <2>4. Supported(r, id, state, quotes)
    BY <1>1, <2>1, <2>3, AlikeSupport
  <2>5. \A q \in quotes : QuoteGrounded(q, QuotableFor(r, read, id), read)
    BY <1>1, <2>1, <2>3 DEF QuoteGrounded
  <2> HIDE DEF quotes
  <2>6. QED
    BY <1>1, <1>3, <2>1, <2>2, <2>4, <2>5 DEF CheckPanelFinding
<1>4. QED
  BY <1>2, <1>3

\* Code writes no notes.
LEMMA NoteOfCode ==
    ASSUME NEW s, NEW read, NEW id
    PROVE  /\ CleanNote(FixedFinding(s, read, id).note) = FixedFinding(s, read, id).note
           /\ id \in PanelIds(s) =>
                 \A by : CleanNote(SkippedFindings(s, read, by)[id].note)
                            = SkippedFindings(s, read, by)[id].note
<1>1. FixedFinding(s, read, id).note = NoNote
  BY DEF FixedFinding, Finding
<1>2. ASSUME NEW by, id \in PanelIds(s)
      PROVE  SkippedFindings(s, read, by)[id].note = NoNote
  BY <1>1, <1>2 DEF SkippedFindings, Finding
<1>3. QED
  BY <1>1, <1>2 DEF CleanNote, NoNote

\* A derived payload passes the gate of a node with the same bytes exactly
\* when no note in it was cut just after a word.
LEMMA HonestPassesGate ==
    ASSUME subject \in Subjects, NEW p, HonestPayload(subject, p)
    PROVE  Gate(p, ExaminedIn(p.rows)) <=> NotesStand(p)
<1> DEFINE r == AsStated(p)
           read == ExaminedIn(p.rows)
<1>1. Alike(r, subject, read)
  BY HonestStates
<1>2. /\ PanelIds(r) = PanelIds(subject) /\ CodeIds(r, read) = CodeIds(subject, read)
      /\ Structured(r) = Structured(subject)
      /\ SkipReason(r, read) = SkipReason(subject, read)
      /\ \A id \in PanelIds(subject) : Asked(r, read, id) <=> Asked(subject, read, id)
      /\ \A id \in PanelIds(subject) \union CodeIds(subject, read) :
            FixedFinding(r, read, id) = FixedFinding(subject, read, id)
  BY <1>1, AlikePlan
<1>3. read # NoTexts
  <2>1. subject.documents \in Seq(Reading(subject)!Document)
    BY SubjectsAreClaims DEF Reading!Context
  <2>2. 0 \notin DOMAIN subject.documents
    BY <2>1
  <2>3. QED
    BY <1>1, <2>2 DEF Alike, NoTexts
<1>4. \A by : SkippedFindings(r, read, by) = SkippedFindings(subject, read, by)
  BY <1>2 DEF SkippedFindings
<1>5. FindingsAdmissible(p, r, read, read) <=> NotesStand(p)
  <2> DEFINE panel == [id \in PanelIds(r) |-> p.findings[id]]
  <2>1. ASSUME NEW by, \A id \in PanelIds(subject) :
                  p.findings[id] = SkippedFindings(subject, read, by)[id]
        PROVE  panel = SkippedFindings(r, read, by)
    <3>1. SkippedFindings(r, read, by)
             = [id \in PanelIds(r) |-> SkippedFindings(subject, read, by)[id]]
      BY <1>2, <1>4 DEF SkippedFindings
    <3>2. QED
      BY <1>2, <2>1, <3>1
  <2>2. p.panel_state = "SKIPPED" => panel = SkippedFindings(r, read, "CODE")
    BY <2>1 DEF HonestPayload
  <2>3. p.panel_state = "MODEL_OUTPUT_INVALID" => panel = SkippedFindings(r, read, "PANEL")
    BY <2>1 DEF HonestPayload
  <2>4. ASSUME p.panel_state = "ASSESSED", NEW id \in PanelIds(r)
        PROVE  CheckPanelFinding(panel[id], r, read, id, read)
                  <=> CleanNote(p.findings[id].note) = p.findings[id].note
    <3>1. p.findings[id] \in PanelAnswers(subject, read, id)
      BY <1>2, <2>4 DEF HonestPayload
    <3>2. panel[id] = p.findings[id]
      OBVIOUS
    <3>3. QED
      BY <1>1, <1>2, <1>3, <3>1, <3>2, HonestAnswers
  <2>5. ASSUME NEW id \in CodeIds(subject, read)
        PROVE  CleanNote(p.findings[id].note) = p.findings[id].note
    <3>1. p.findings[id] = FixedFinding(subject, read, id)
      BY <2>5 DEF HonestPayload
    <3> HIDE DEF read
    <3>2. QED
      BY <3>1, NoteOfCode
  <2>6. ASSUME p.panel_state # "ASSESSED", NEW id \in PanelIds(subject)
        PROVE  CleanNote(p.findings[id].note) = p.findings[id].note
    <3>1. \E by : p.findings[id] = SkippedFindings(subject, read, by)[id]
      BY <2>6 DEF HonestPayload
    <3> HIDE DEF read
    <3>2. QED
      BY <2>6, <3>1, NoteOfCode
  <2>7. DOMAIN p.findings = PanelIds(r) \union CodeIds(subject, read)
    BY <1>2 DEF HonestPayload
  <2>8. NotesStand(p) <=> (p.panel_state = "ASSESSED" =>
           \A id \in PanelIds(r) : CleanNote(p.findings[id].note) = p.findings[id].note)
    BY <1>2, <2>5, <2>6, <2>7 DEF NotesStand
  <2>9. QED
    BY <2>2, <2>3, <2>4, <2>8 DEF FindingsAdmissible
<1>6. /\ p.header = "ours" /\ p.markers \subseteq read
      /\ DOMAIN p.facts = read \cap Structured(r)
      /\ p.panel_reason = SkipReason(r, read)
      /\ DOMAIN p.findings = PanelIds(r) \union CodeIds(r, read)
      /\ \A id \in CodeIds(r, read) : p.findings[id] = FixedFinding(r, read, id)
  <2> HIDE DEF r
  <2>1. QED
    BY <1>2 DEF HonestPayload
<1>7. p.panel_state \in IF p.panel_reason # "" THEN {"SKIPPED"}
                        ELSE {"ASSESSED", "MODEL_OUTPUT_INVALID"}
  BY DEF HonestPayload
<1>8. \A i \in DOMAIN p.rows : RowAdmissible(p.rows[i])
  BY HonestRows DEF HonestPayload
<1>9. QED
  BY <1>5, <1>6, <1>7, <1>8 DEF Gate

LEMMA HonestFieldsEqual ==
    ASSUME subject \in Subjects, NEW a, NEW b,
           HonestPayload(subject, a), HonestPayload(subject, b), SameAnswers(a, b)
    PROVE  DecisionFieldsEqual(a, b)
<1> DEFINE read == ExaminedIn(a.rows)
<1>1. /\ a.rows = b.rows /\ a.panel_state = b.panel_state
      /\ \A id \in DOMAIN a.findings : a.findings[id].state = b.findings[id].state
  BY DEF SameAnswers
<1>2. /\ a.panel_reason = b.panel_reason /\ a.markers = b.markers /\ a.facts = b.facts
  BY <1>1 DEF HonestPayload
<1>3. ExaminedIn(b.rows) = read
  BY <1>1
<1>4. ASSUME NEW f, NEW id, f \in PanelAnswers(subject, read, id)
      PROVE  f.by = IF Asked(subject, read, id) THEN "PANEL" ELSE "CODE"
  <2>1. CASE Asked(subject, read, id)
    <3>1. \E state, quotes, note : f = Finding(state, "PANEL", quotes, note)
      BY <1>4, <2>1 DEF PanelAnswers
    <3>2. QED
      BY <2>1, <3>1 DEF Finding
  <2>2. CASE ~Asked(subject, read, id)
    BY <1>4, <2>2 DEF PanelAnswers, FixedFinding, Finding
  <2>3. QED
    BY <2>1, <2>2
<1> HIDE DEF read
<1>5. ASSUME NEW id \in DOMAIN a.findings
      PROVE  a.findings[id].by = b.findings[id].by
  <2>1. id \in PanelIds(subject) \/ id \in CodeIds(subject, read)
    BY DEF HonestPayload, read
  <2>2. CASE id \in CodeIds(subject, read)
    <3>1. /\ a.findings[id] = FixedFinding(subject, read, id)
          /\ b.findings[id] = FixedFinding(subject, read, id)
      BY <1>3, <2>2, Zenon DEF HonestPayload, read
    <3>2. QED
      BY <3>1
  <2>3. CASE id \in PanelIds(subject)
    <3>1. CASE a.panel_state = "ASSESSED"
      <4>1. /\ a.findings[id] \in PanelAnswers(subject, read, id)
            /\ b.findings[id] \in PanelAnswers(subject, read, id)
        BY <1>1, <1>3, <2>3, <3>1 DEF HonestPayload, read
      <4>2. QED
        BY <1>4, <4>1
    <3>2. ASSUME NEW state, NEW by, state # "ASSESSED",
                 a.panel_state = state, b.panel_state = state,
                 by = IF state = "SKIPPED" THEN "CODE" ELSE "PANEL"
          PROVE  a.findings[id].by = b.findings[id].by
      <4>1. /\ a.findings[id] = SkippedFindings(subject, read, by)[id]
            /\ b.findings[id] = SkippedFindings(subject, read, by)[id]
        BY <1>3, <2>3, <3>2 DEF HonestPayload, read
      <4>2. QED
        BY <4>1
    <3>3. QED
      BY <1>1, <3>1, <3>2
  <2>4. QED
    BY <2>1, <2>2, <2>3
<1>6. QED
  BY <1>1, <1>2, <1>5 DEF DecisionFieldsEqual

(* Validators whose own fetches and answers are the leader's agree with    *)
(* it, however each of them quotes, exactly when the gate takes the        *)
(* leader's notes; their own notes do not count.                           *)
THEOREM HonestRoundsAgree == Spec => []HonestAnswersAgree
<1>1. ConsensusInv => HonestAnswersAgree
  <2> SUFFICES ASSUME ConsensusInv, leader.kind = "return", leader \in Derived[subject],
                      NEW mine \in Derived[subject], mine.kind = "return",
                      SameAnswers(mine.payload, leader.payload)
               PROVE  ValidatorDecision(leader, mine) <=> NotesStand(leader.payload)
    BY DEF HonestAnswersAgree
  <2>1. subject \in Subjects /\ Derived[subject] = NodeResults(subject)
    BY DEF ConsensusInv, Derived
  <2>2. ASSUME NEW result \in NodeResults(subject), result.kind = "return"
        PROVE  HonestPayload(subject, result.payload)
    <3>1. PICK p \in NodePayloads(subject) : result = Returned(p)
      BY <2>2, ResultsAre DEF Failed
    <3>2. QED
      BY <3>1, NodesAreHonest DEF Returned
  <2>3. HonestPayload(subject, leader.payload) /\ HonestPayload(subject, mine.payload)
    BY <2>1, <2>2
  <2>4. DecisionFieldsEqual(mine.payload, leader.payload)
    BY <2>1, <2>3, HonestFieldsEqual
  <2>5. Gate(leader.payload, ExaminedIn(leader.payload.rows)) <=> NotesStand(leader.payload)
    BY <2>1, <2>3, HonestPassesGate
  <2>6. QED
    BY <2>4, <2>5 DEF ValidatorDecision, DecisionFieldsEqual
<1>2. QED
  BY <1>1, ConsensusInvariant, PTL

===============================================================================
