----------------------------- MODULE ConsensusRound -----------------------------
(***************************************************************************)
(* One consensus round (_run_round): a leader returns a payload or fails,  *)
(* every validator derives the round anew from its own fetch and its own   *)
(* panel and votes (_validator_decision), and what the network ratifies is *)
(* gated once more before it is recorded.                                  *)
(*                                                                         *)
(* What a node derives is taken from module ResolutionRound, read through  *)
(* `Reading`: the same definitions over the facts and markers a payload    *)
(* states.  Validators assume nothing of a leader: it may return what no   *)
(* node would derive.  The network itself, rotation of leaders and         *)
(* majority, is external.                                                  *)
(***************************************************************************)
EXTENDS Naturals, Sequences, FiniteSetsExt, TLC

CONSTANTS
    Subjects,       \* bound: the subjects explored, as in ResolutionRound
    Notes(_),       \* bound: the notes explored for each subject of the panel
    Deviations(_, _),   \* bound: what a leader may return instead of a payload
    Validators,
    MaxRotations    \* external: leaders tried before the network gives up

ASSUME ConsensusConstants == MaxRotations \in Nat /\ IsFiniteSet(Validators)

VARIABLES
    subject,        \* constant during a behaviour
    rotations,      \* leaders replaced so far
    leader,         \* what the leader returned
    votes,          \* votes[v] is "none", "agree" or "disagree"
    own,            \* history: what each validator that agreed derived
    outcome         \* "open", then what the transaction did

roundVars == <<subject, rotations, leader, votes, own, outcome>>

-------------------------------------------------------------------------------
(* Payloads.                                                               *)

Reading(record) ==
    INSTANCE ResolutionRound WITH
        ctx <- record, rows <- <<>>, panel <- "", findings <- <<>>, verdict <- ""

ASSUME SubjectsAreClaims == \A s \in Subjects : s \in Reading(s)!Context

\* FETCH_BYTES_CAP, in units: verified bytes are at the cap or one above it.
FETCH_BYTES_CAP == 1

BytesVerified == {"EXAMINED", "TOO_LARGE", "UNPARSEABLE"}

Row(status, bytes) == [status |-> status, byte_count |-> bytes]

\* A byte count is recorded only for verified bytes.
FetchedRow(doc, status) ==
    Row(status, IF status \notin BytesVerified THEN 0
                ELSE IF doc.bytes = "oversized" THEN FETCH_BYTES_CAP + 1
                ELSE FETCH_BYTES_CAP)

ExaminedIn(rows) == {i \in DOMAIN rows : rows[i].status = "EXAMINED"}

Structured(record) == {i \in DOMAIN record.documents :
                          record.documents[i].kind \in Reading(record)!StructuredKinds}

\* The facts of a structured document, its number known to the registry or not.
FactsOf(doc) == [in_currency |-> doc.in_currency, total |-> doc.total,
                 line_sum |-> doc.line_sum, issued |-> doc.issued,
                 known_number |-> doc.known_number]

\* The subject as a payload's facts and markers describe it.
AsStated(p) ==
    LET stated(i) ==
            LET doc == [subject.documents[i] EXCEPT !.marker = i \in p.markers]
            IN IF i \in DOMAIN p.facts
               THEN [f \in DOMAIN doc |->
                        IF f \in DOMAIN p.facts[i] THEN p.facts[i][f] ELSE doc[f]]
               ELSE doc
    IN [subject EXCEPT !.documents = [i \in DOMAIN subject.documents |-> stated(i)]]

Quote(document, held) == [document |-> document, held |-> held]

Finding(state, by, quotes, note) ==
    [state |-> state, by |-> by, quotes |-> quotes, note |-> note]

\* A finding of code, and of an asked subject nobody answered, has no note.
NoNote == ""

(* What _clean_note makes of a note.  It collapses blanks and then cuts at *)
(* NOTE_CAP, so what it leaves may end in the blank after a word ("cut");  *)
(* cleaned again, that note loses the blank.  Longer and unclean notes are *)
(* changed by it as well.  PanelGrounding has the function itself.         *)
CleanNote(note) == IF note = "cut" THEN "short" ELSE note

-------------------------------------------------------------------------------
(* The plan over a record and the documents examined in it (_plan): for    *)
(* every subject of the round, whether the panel is asked, what code says  *)
(* otherwise, and which documents may be quoted.                           *)

CriterionIds(record) == {<<"criterion", k>> : k \in DOMAIN record.criteria}
ExclusionIds(record) == {<<"exclusion", k>> : k \in DOMAIN record.exclusions}
IndicatorIds(record) == {<<"indicator", n>> : n \in Reading(record)!PanelIndicators}
CodeIds(record, read) ==
    {<<"fact", n>> : n \in DOMAIN Reading(record)!CodeIndicators(read)}

PanelIds(record) == CriterionIds(record) \union ExclusionIds(record)
                       \union IndicatorIds(record)

Asked(record, read, id) ==
    \/ id[1] = "criterion" /\ Reading(record)!AsksCriterion(record.criteria[id[2]], read)
    \/ id[1] = "exclusion" /\ Reading(record)!AsksExclusion(record.exclusions[id[2]], read)
    \/ id[1] = "indicator" /\ Reading(record)!AsksIndicator(id[2], read)

CodeState(record, read, id) ==
    IF id[1] = "criterion" THEN Reading(record)!CodeCriterion(record.criteria[id[2]], read)
    ELSE IF id[1] = "exclusion" THEN "UNVERIFIABLE"
    ELSE IF id[1] = "indicator" THEN "NOT_APPLICABLE"
    ELSE Reading(record)!CodeIndicators(read)[id[2]]

QuotableFor(record, read, id) ==
    IF id[1] = "criterion"
    THEN LET crit == record.criteria[id[2]]
         IN Reading(record)!Eligible(crit.evidence_kind, crit.trusted_only, read)
    ELSE IF id[1] = "exclusion"
    THEN Reading(record)!Eligible(record.exclusions[id[2]].evidence_kind, FALSE, read)
    ELSE read

Vocabulary(id) ==
    IF id[1] = "criterion" THEN {"SATISFIED", "NOT_SATISFIED", "UNVERIFIABLE"}
    ELSE IF id[1] = "exclusion" THEN {"APPLIES", "DOES_NOT_APPLY", "UNVERIFIABLE"}
    ELSE {"PRESENT", "ABSENT", "UNDETERMINED"}

Undecided(id) == IF id[1] = "indicator" THEN "UNDETERMINED" ELSE "UNVERIFIABLE"

\* What must be quoted, and how much.
Supported(record, id, state, quotes) ==
    LET documents == {q.document : q \in quotes}
    IN /\ state \in {"SATISFIED", "APPLIES"} => quotes # {}
       /\ state = "PRESENT" => Reading(record)!QuotesSatisfy(id[2], documents)

SkipReason(record, read) ==
    IF read # DOMAIN record.documents THEN "EVIDENCE_NOT_EXAMINED"
    ELSE IF Reading(record)!SkipPanel(read) THEN "HARD_FACT_PRESENT" ELSE ""

FixedFinding(record, read, id) ==
    Finding(CodeState(record, read, id), "CODE", {}, NoNote)

\* Every asked subject stays undecided.
SkippedFindings(record, read, by) ==
    [id \in PanelIds(record) |->
        IF Asked(record, read, id) THEN Finding(Undecided(id), by, {}, NoNote)
        ELSE FixedFinding(record, read, id)]

-------------------------------------------------------------------------------
(* What a node derives (_node_round).                                      *)

\* Findings a panel may give one subject; every kept quote is in its document,
\* and any note is one that _clean_note may leave.
PanelAnswers(record, read, id) ==
    IF Asked(record, read, id)
    THEN {Finding(a[1], "PANEL", {Quote(i, TRUE) : i \in a[2]}, a[3]) :
             a \in {b \in Vocabulary(id) \X (SUBSET QuotableFor(record, read, id)) \X Notes(id) :
                       Supported(record, id, b[1], {Quote(i, TRUE) : i \in b[2]})}}
    ELSE {FixedFinding(record, read, id)}

\* Answers put together one subject after the other.
Combinations(record, read) ==
    FoldSet(LAMBDA id, rounds : {f @@ (id :> a) : f \in rounds,
                                                  a \in PanelAnswers(record, read, id)},
            {<<>>}, PanelIds(record))

\* One answer for every subject.
PanelRounds(record, read) ==
    {f \in Combinations(record, read) :
        /\ DOMAIN f = PanelIds(record)
        /\ \A id \in PanelIds(record) : f[id] \in PanelAnswers(record, read, id)}

Payload(record, rows, panel, findings) ==
    LET read == ExaminedIn(rows)
    IN [header |-> "ours", rows |-> rows,
        facts |-> [i \in read \cap Structured(record) |-> FactsOf(record.documents[i])],
        markers |-> {i \in read : record.documents[i].marker},
        panel_state |-> panel, panel_reason |-> SkipReason(record, read),
        findings |-> [id \in PanelIds(record) \union CodeIds(record, read) |->
                         IF id[1] = "fact" THEN FixedFinding(record, read, id)
                                           ELSE findings[id]]]

RowsOf(record) ==
    {[i \in DOMAIN record.documents |-> FetchedRow(record.documents[i], statuses[i])] :
        statuses \in {s \in [DOMAIN record.documents -> Reading(record)!RowStatus] :
                         \A i \in DOMAIN s :
                            s[i] \in Reading(record)!FetchOutcomes(record.documents[i])}}

\* The payloads of a node whose panel answers, usably or not.
NodePayloads(record) ==
    UNION {LET read == ExaminedIn(rows)
           IN IF SkipReason(record, read) # ""
              THEN {Payload(record, rows, "SKIPPED", SkippedFindings(record, read, "CODE"))}
              ELSE {Payload(record, rows, "MODEL_OUTPUT_INVALID",
                            SkippedFindings(record, read, "PANEL"))}
                   \union {Payload(record, rows, "ASSESSED", f) :
                              f \in PanelRounds(record, read)}
           : rows \in RowsOf(record)}

Returned(p) == [kind |-> "return", payload |-> p]
Failed(error) == [kind |-> "error", error |-> error]

\* A failed model call reverts the node's round, once a panel is convened.
NodeResults(record) ==
    LET payloads == NodePayloads(record)
    IN {Returned(p) : p \in payloads}
          \union {Failed("TRANSIENT") :
                     p \in {q \in payloads : q.panel_state # "SKIPPED"}}

Derived == [record \in Subjects |-> NodeResults(record)]

-------------------------------------------------------------------------------
(* The gate (_parse_payload).  `texts` are the documents whose bytes the   *)
(* reader holds; the boundary holds none and checks no words.              *)

NoTexts == {0}

\* Mutant: without bytes at hand no quote is taken.
QuoteGrounded_NeedsTexts(q, eligible, texts) ==
    q.document \in eligible \cap texts /\ q.held

QuoteGrounded(q, eligible, texts) ==
    /\ q.document \in eligible
    /\ texts = NoTexts \/ (q.document \in texts /\ q.held)

RowAdmissible(row) ==
    IF row.status \notin BytesVerified THEN row.byte_count = 0
    ELSE /\ row.byte_count >= 1
         /\ row.status = "TOO_LARGE" <=> row.byte_count > FETCH_BYTES_CAP

CheckPanelFinding(f, record, read, id, texts) ==
    IF ~Asked(record, read, id) THEN f = FixedFinding(record, read, id)
    ELSE /\ CleanNote(f.note) = f.note
         /\ f.by = "PANEL" /\ f.state \in Vocabulary(id)
         /\ \A q \in f.quotes : QuoteGrounded(q, QuotableFor(record, read, id), texts)
         /\ Supported(record, id, f.state, f.quotes)

FindingsAdmissible(p, record, read, texts) ==
    LET panel == [id \in PanelIds(record) |-> p.findings[id]]
    IN /\ p.panel_state = "SKIPPED" => panel = SkippedFindings(record, read, "CODE")
       /\ p.panel_state = "MODEL_OUTPUT_INVALID" =>
             panel = SkippedFindings(record, read, "PANEL")
       /\ p.panel_state = "ASSESSED" =>
             \A id \in PanelIds(record) :
                CheckPanelFinding(panel[id], record, read, id, texts)

Gate(p, texts) ==
    LET record == AsStated(p)
        read == ExaminedIn(p.rows)
    IN /\ p.header = "ours"
       /\ \A i \in DOMAIN p.rows : RowAdmissible(p.rows[i])
       /\ DOMAIN p.facts = read \cap Structured(record)
       /\ p.markers \subseteq read
       /\ p.panel_reason = SkipReason(record, read)
       /\ p.panel_state \in IF p.panel_reason # "" THEN {"SKIPPED"}
                            ELSE {"ASSESSED", "MODEL_OUTPUT_INVALID"}
       /\ DOMAIN p.findings = PanelIds(record) \union CodeIds(record, read)
       /\ FindingsAdmissible(p, record, read, texts)
       /\ \A id \in CodeIds(record, read) :
             p.findings[id] = FixedFinding(record, read, id)

-------------------------------------------------------------------------------
(* The equivalence rule and the vote.                                      *)

\* Mutant: rows are compared by what was examined.
DecisionFieldsEqual_Examined(a, b) ==
    /\ a.panel_state = b.panel_state /\ a.panel_reason = b.panel_reason
    /\ a.markers = b.markers /\ a.facts = b.facts
    /\ ExaminedIn(a.rows) = ExaminedIn(b.rows)
    /\ \A id \in DOMAIN a.findings :
          /\ a.findings[id].state = b.findings[id].state
          /\ a.findings[id].by = b.findings[id].by

\* Mutant: findings are compared whole.
DecisionFieldsEqual_Quotes(a, b) == a = b

\* _first_difference finds none; quotes and notes are not among the fields compared.
DecisionFieldsEqual(a, b) ==
    /\ a.panel_state = b.panel_state /\ a.panel_reason = b.panel_reason
    /\ a.markers = b.markers /\ a.facts = b.facts
    /\ a.rows = b.rows
    /\ \A id \in DOMAIN a.findings :
          /\ a.findings[id].state = b.findings[id].state
          /\ a.findings[id].by = b.findings[id].by

\* Mutant: a validator agrees that the model call failed without trying.
VoteOnLeaderError_Trusting(error, mine) ==
    \/ error = "TRANSIENT"
    \/ error \in {"EXPECTED", "EXTERNAL"} /\ mine.kind = "error" /\ mine.error = error

(* [LLM_ERROR] and anything but a user error disagree; [TRANSIENT] agrees  *)
(* with a validator whose own run was transient; other texts must match,   *)
(* and no node's round fails with one.                                     *)
VoteOnLeaderError(error, mine) ==
    /\ error \in {"TRANSIENT", "EXPECTED", "EXTERNAL"}
    /\ mine.kind = "error" /\ mine.error = error

\* Mutant: the leader's payload is gated without the validator's own bytes.
ValidatorDecision_Unread(result, mine) ==
    IF result.kind = "error" THEN VoteOnLeaderError(result.error, mine)
    ELSE /\ mine.kind = "return"
         /\ DecisionFieldsEqual(mine.payload, result.payload)
         /\ Gate(result.payload, NoTexts)

\* A validator whose own round fails cannot agree to a payload.  Both the
\* gate and the comparison must pass; which is tried first does not matter.
ValidatorDecision(result, mine) ==
    IF result.kind = "error" THEN VoteOnLeaderError(result.error, mine)
    ELSE /\ mine.kind = "return"
         /\ DecisionFieldsEqual(mine.payload, result.payload)
         /\ Gate(result.payload, ExaminedIn(mine.payload.rows))

-------------------------------------------------------------------------------
(* The round.                                                              *)

Nothing == [kind |-> "nothing"]

Init ==
    /\ subject \in Subjects
    /\ rotations = 0 /\ leader = Nothing /\ outcome = "open"
    /\ votes = [v \in Validators |-> "none"]
    /\ own = [v \in Validators |-> Nothing]

\* A leader that follows the code, or one that returns something else.
LeaderResults == Derived[subject] \union Deviations(subject, Derived[subject])

Lead ==
    /\ leader = Nothing /\ outcome = "open"
    /\ leader' \in LeaderResults
    /\ UNCHANGED <<subject, rotations, votes, own, outcome>>

\* A node's own quotes and notes are seen by nobody else, and are not kept.
Stripped(finding) == Finding(finding.state, finding.by, {}, NoNote)

Unquoted(result) ==
    IF result.kind = "error" THEN result
    ELSE [result EXCEPT !.payload.findings = [id \in DOMAIN @ |-> Stripped(@[id])]]

Ballot(mine) ==
    IF ValidatorDecision(leader, mine) THEN [vote |-> "agree", own |-> Unquoted(mine)]
    ELSE [vote |-> "disagree", own |-> Nothing]

Vote(v) ==
    /\ leader # Nothing /\ outcome = "open" /\ votes[v] = "none"
    /\ \E ballot \in {Ballot(mine) : mine \in Derived[subject]} :
          /\ votes' = [votes EXCEPT ![v] = ballot.vote]
          /\ own' = [own EXCEPT ![v] = ballot.own]
    /\ UNCHANGED <<subject, rotations, leader, outcome>>

AllVoted == leader # Nothing /\ outcome = "open" /\ \A v \in Validators : votes[v] # "none"

Agreeing == {v \in Validators : votes[v] = "agree"}

Majority == 2 * Cardinality(Agreeing) > Cardinality(Validators)

\* The ratified text passes the boundary's gate and is recorded, or reverts.
Ratify ==
    /\ AllVoted /\ Majority
    /\ outcome' = IF leader.kind = "error" THEN "reverted"
                  ELSE IF Gate(leader.payload, NoTexts) THEN "recorded"
                  ELSE "refused"
    /\ UNCHANGED <<subject, rotations, leader, votes, own>>

Rotate ==
    /\ AllVoted /\ ~Majority /\ rotations < MaxRotations
    /\ rotations' = rotations + 1
    /\ leader' = Nothing
    /\ votes' = [v \in Validators |-> "none"]
    /\ own' = [v \in Validators |-> Nothing]
    /\ UNCHANGED <<subject, outcome>>

GiveUp ==
    /\ AllVoted /\ ~Majority /\ rotations = MaxRotations
    /\ outcome' = "undetermined"
    /\ UNCHANGED <<subject, rotations, leader, votes, own>>

Next == Lead \/ (\E v \in Validators : Vote(v)) \/ Ratify \/ Rotate \/ GiveUp

Spec == Init /\ [][Next]_roundVars

-------------------------------------------------------------------------------
(* The verdict a payload leads to: what _adjudicate derives from it with   *)
(* the registries (the documents' known bytes and numbers).                *)
VerdictOf(p) ==
    LET record == AsStated(p)
        state(id) == [state |-> p.findings[id].state, quoted |-> p.findings[id].quotes # {}]
        findings == [criteria |-> [k \in DOMAIN record.criteria |-> state(<<"criterion", k>>)],
                     exclusions |-> [k \in DOMAIN record.exclusions |-> state(<<"exclusion", k>>)],
                     indicators |-> [n \in Reading(record)!PanelIndicators |->
                                        p.findings[<<"indicator", n>>].state]]
    IN Reading(record)!Derive(
           {p.rows[i].status : i \in DOMAIN p.rows}, ExaminedIn(p.rows),
           IF p.panel_state = "MODEL_OUTPUT_INVALID" THEN "INVALID" ELSE p.panel_state,
           findings)

(* docs/CONSENSUS.md, "every field the verdict reads is either compared or *)
(* computed from compared fields": whatever a leader returned, the verdict *)
(* recorded is the one every agreeing validator's own round leads to,      *)
(* though their quotes differ.                                             *)
RecordedVerdictIsEveryones ==
    outcome = "recorded" =>
        \A v \in Agreeing : VerdictOf(own[v].payload) = VerdictOf(leader.payload)

(* A leader cannot store a passage no other node saw: every quote recorded *)
(* is held by its document, and every validator that agreed examined it.   *)
RecordedQuotesWereSeen ==
    outcome = "recorded" =>
        \A id \in DOMAIN leader.payload.findings :
            \A q \in leader.payload.findings[id].quotes :
                /\ q.held
                /\ \A v \in Agreeing : q.document \in ExaminedIn(own[v].payload.rows)

\* The same documents fetched and the same answers, whatever is quoted.
SameAnswers(a, b) ==
    /\ a.rows = b.rows /\ a.panel_state = b.panel_state
    /\ \A id \in DOMAIN a.findings : a.findings[id].state = b.findings[id].state

\* The gate takes every note: none was cut just after a word.
NotesStand(p) ==
    \A id \in DOMAIN p.findings : CleanNote(p.findings[id].note) = p.findings[id].note

(* Two nodes that follow the code, fetch alike and whose panels answer     *)
(* alike agree, however differently they quote and word their notes, when  *)
(* no note of the leader was cut just after a word; when one was, none of  *)
(* them agrees.  So honest rounds are lost to the equivalence rule or the  *)
(* gate for the leader's note alone, never for a validator's (what the     *)
(* gate does to such a note is PanelGrounding's NotesNeverDecide).         *)
HonestAnswersAgree ==
    /\ \A v \in Validators : votes[v] = "none"
    /\ leader.kind = "return"
    /\ leader \in Derived[subject]
    => \A mine \in Derived[subject] :
            mine.kind = "return" /\ SameAnswers(mine.payload, leader.payload)
                => (ValidatorDecision(leader, mine) <=> NotesStand(leader.payload))

(* A leader's failure is ratified only when the validators that agree      *)
(* failed themselves: a leader cannot revert a round others could answer.  *)
ErrorsAreShared ==
    outcome = "reverted" => \A v \in Agreeing : own[v] = Failed("TRANSIENT")

(* What validators ratify always passes the boundary, which reads it again *)
(* without any document: no agreed round is lost to [LLM_ERROR].           *)
NeverRefused == outcome # "refused"
===============================================================================
