--------------------------- MODULE ResolutionRound ---------------------------
(***************************************************************************)
(* One resolution round as one node derives it (_node_round), followed by  *)
(* the registry findings and the verdict (_adjudicate, _derive): fetch and *)
(* verify every committed document in order, read the hard facts, plan the *)
(* panel, convene it or skip it, check the registries, derive.             *)
(*                                                                         *)
(* The subject of a round (`ctx`) never changes during it.  What bytes say *)
(* is part of the subject; whether they are served is not: any document    *)
(* may be unreachable or changed in any round.                             *)
(***************************************************************************)
EXTENDS Naturals, Sequences, FiniteSets, Functions, RoundOutcome

CONSTANTS
    Subjects        \* bound: the claims whose rounds are explored

StructuredKinds == {"INVOICE", "REPAIR_ESTIMATE"}
BPS_MAX == 10000

RowStatus == {"EXAMINED", "UNAVAILABLE", "HASH_MISMATCH",
              "TOO_LARGE", "UNPARSEABLE"}

(* A committed document: its declared kind, whether its location is under  *)
(* a trusted prefix, what its bytes are as that kind, the facts a          *)
(* structured document yields, whether it carries an injection marker, and *)
(* whether the registries hold an earlier commitment of its bytes or of    *)
(* its document number by a conflicting claim.                             *)
Document == [kind: STRING, trusted: BOOLEAN,
             bytes: {"readable", "oversized", "malformed"},
             in_currency: BOOLEAN, total: Nat, line_sum: Nat, issued: Nat,
             marker: BOOLEAN, known_bytes: BOOLEAN, known_number: BOOLEAN]

Criterion == [kind: {"EVIDENCE_EXAMINED", "AMOUNT_DOCUMENTED", "SEMANTIC"},
              evidence_kind: STRING, trusted_only: BOOLEAN, critical: BOOLEAN]

\* The context of a round (`ctx`), in its policy's unit of amounts and days.
Context ==
    [documents: {d \in Seq(Document) : Len(d) > 0}, criteria: Seq(Criterion),
     exclusions: Seq([evidence_kind: STRING]), claimed: Nat, incident: Nat,
     submitted_on: Nat, tolerance_bps: Nat]

ASSUME SubjectsAreClaims == Subjects \subseteq Context

VARIABLES
    ctx,            \* the subject
    rows,           \* statuses of the documents fetched so far
    panel,          \* "" until planned, then ASSESSED, SKIPPED or INVALID
    findings,       \* of the panel round: criteria, exclusions, indicators
    verdict         \* "" until derived

roundVars == <<ctx, rows, panel, findings, verdict>>

-------------------------------------------------------------------------------
(* Reading the record.  `read` is a set of examined document indices, so   *)
(* that the same definitions describe what another reading would conclude. *)

AllDocuments == DOMAIN ctx.documents

Doc(i) == ctx.documents[i]

OfKinds(kinds) == {i \in AllDocuments : Doc(i).kind \in kinds}

Examined == {i \in DOMAIN rows : rows[i] = "EXAMINED"}

ReadableDocuments == {i \in AllDocuments : Doc(i).bytes = "readable"}

Total(documents) ==
    SumFunctionOnSet([i \in documents |-> Doc(i).total], documents)

\* The facts entering a sum are those in the policy's currency.
Counted(kinds, read) ==
    {i \in read : Doc(i).kind \in kinds /\ Doc(i).in_currency}

\* _per_document: PRESENT on any, ABSENT only when all were examined.
PerDocument(bad, committed, read) ==
    IF committed = {} THEN "NOT_APPLICABLE"
    ELSE IF bad # {} THEN "PRESENT"
    ELSE IF committed \subseteq read THEN "ABSENT"
    ELSE "UNDETERMINED"

\* A comparison over a set of documents, once the whole set is examined.
Compared(committed, counted, read, exceeded) ==
    IF committed = {} THEN "NOT_APPLICABLE"
    ELSE IF ~(committed \subseteq read) \/ counted = {} THEN "UNDETERMINED"
    ELSE IF exceeded THEN "PRESENT" ELSE "ABSENT"

ArithmeticMismatch(read) ==
    PerDocument({i \in read \cap OfKinds(StructuredKinds) :
                    Doc(i).line_sum # Doc(i).total},
                OfKinds(StructuredKinds), read)

DateConflict(read) ==
    PerDocument({i \in read \cap OfKinds(StructuredKinds) :
                    \/ Doc(i).issued < ctx.incident
                    \/ Doc(i).issued > ctx.submitted_on},
                OfKinds(StructuredKinds), read)

InjectionMarker(read) ==
    PerDocument({i \in read : Doc(i).marker}, AllDocuments, read)

\* Invoices, or the estimates when no invoice was committed.
BasisKinds ==
    IF OfKinds({"INVOICE"}) # {} THEN {"INVOICE"} ELSE {"REPAIR_ESTIMATE"}

\* Mutant: the basis is chosen among the documents that could be read.
AmountInflated_ReadBasis(read) ==
    LET kinds == IF Counted({"INVOICE"}, read) # {} THEN {"INVOICE"}
                                                    ELSE {"REPAIR_ESTIMATE"}
        basis == Counted(kinds, read)
    IN Compared(OfKinds(kinds), basis, read, ctx.claimed > Total(basis))

AmountInflated(read) ==
    LET basis == Counted(BasisKinds, read)
    IN Compared(OfKinds(BasisKinds), basis, read, ctx.claimed > Total(basis))

EstimateExceeded(read) ==
    LET invoices == Counted({"INVOICE"}, read)
        estimates == Counted({"REPAIR_ESTIMATE"}, read)
    IN IF {} \in {OfKinds({"INVOICE"}), OfKinds({"REPAIR_ESTIMATE"})}
       THEN "NOT_APPLICABLE"
       ELSE IF invoices = {} THEN "UNDETERMINED"
       ELSE Compared(OfKinds(StructuredKinds), estimates, read,
                     Total(invoices) * BPS_MAX
                        > Total(estimates) * (BPS_MAX + ctx.tolerance_bps))

CodeIndicators(read) ==
    [ARITHMETIC_MISMATCH |-> ArithmeticMismatch(read),
     AMOUNT_INFLATED |-> AmountInflated(read),
     ESTIMATE_EXCEEDED |-> EstimateExceeded(read),
     DATE_CONFLICT |-> DateConflict(read),
     INJECTION_MARKER |-> InjectionMarker(read)]

HardFact(states) == \E name \in DOMAIN states : states[name] = "PRESENT"

RegistryIndicators(read) ==
    [DUPLICATE_EVIDENCE |->
        PerDocument({i \in read : Doc(i).known_bytes}, AllDocuments, read),
     DUPLICATE_DOCUMENT |->
        PerDocument({i \in read \cap OfKinds(StructuredKinds) :
                        Doc(i).known_number},
                    OfKinds(StructuredKinds), read)]
-------------------------------------------------------------------------------
(* The plan: what code decides, what the panel is asked, and whether it is *)
(* convened.                                                               *)

Undecided == "UNVERIFIABLE"

Eligible(kind, trustedOnly, read) ==
    {i \in read : /\ kind \in {"", Doc(i).kind}
                  /\ trustedOnly => Doc(i).trusted}

AmountDocumented(crit, read) ==
    LET committed == Eligible(crit.evidence_kind, crit.trusted_only, AllDocuments)
        used == {i \in committed \cap read : Doc(i).in_currency}
    IN IF used = {} \/ ~(committed \subseteq read) THEN Undecided
       ELSE IF Total(used) >= ctx.claimed THEN "SATISFIED" ELSE "NOT_SATISFIED"

\* What code says of a criterion; a SEMANTIC one only without documents.
CodeCriterion(crit, read) ==
    LET eligible == Eligible(crit.evidence_kind, crit.trusted_only, read)
    IN IF crit.kind = "AMOUNT_DOCUMENTED" THEN AmountDocumented(crit, read)
       ELSE IF crit.kind = "EVIDENCE_EXAMINED" /\ eligible # {}
       THEN "SATISFIED" ELSE Undecided

AsksCriterion(crit, read) ==
    /\ crit.kind = "SEMANTIC"
    /\ Eligible(crit.evidence_kind, crit.trusted_only, read) # {}

AsksExclusion(excl, read) == Eligible(excl.evidence_kind, FALSE, read) # {}

Rule(requires, minExamined, minDocs, quoteKinds) ==
    [requires |-> requires, min_examined |-> minExamined,
     min_docs |-> minDocs, quote_kinds |-> quoteKinds]

PANEL_INDICATOR_RULES ==
    [INSTRUCTION_INJECTION |-> Rule({}, 1, 1, {}),
     OWNERSHIP_MISMATCH |->
        Rule({{"OWNERSHIP_RECORD"}}, 1, 1, {"OWNERSHIP_RECORD"}),
     DAMAGE_MISMATCH |->
        Rule({{"PHOTO_LOG"}, StructuredKinds}, 2, 2, {"PHOTO_LOG"}),
     NARRATIVE_CONTRADICTION |-> Rule({}, 2, 2, {}),
     WITNESS_CONFLICT |->
        Rule({{"WITNESS_STATEMENT"}}, 2, 2, {"WITNESS_STATEMENT"})]

PanelIndicators == DOMAIN PANEL_INDICATOR_RULES
ManipulationIndicators ==
    {"INSTRUCTION_INJECTION", "OWNERSHIP_MISMATCH", "DAMAGE_MISMATCH"}
ContradictionIndicators == {"NARRATIVE_CONTRADICTION", "WITNESS_CONFLICT"}

AsksIndicator(name, read) ==
    LET rule == PANEL_INDICATOR_RULES[name]
    IN /\ Cardinality(read) >= rule.min_examined
       /\ \A group \in rule.requires : \E i \in read : Doc(i).kind \in group

\* Mutant: the panel is spared when code left a hard fact undetermined too.
SkipPanel_AnyDoubt(read) ==
    \/ read # AllDocuments
    \/ \E name \in DOMAIN CodeIndicators(read) :
          CodeIndicators(read)[name] \in {"PRESENT", "UNDETERMINED"}

(* The third reason, nothing to ask, cannot arise once every document was  *)
(* examined: INSTRUCTION_INJECTION is always asked then.                   *)
SkipPanel(read) == read # AllDocuments \/ HardFact(CodeIndicators(read))

-------------------------------------------------------------------------------
(* The panel's answer under the grounding rules: a favourable or excluding *)
(* state without a surviving quote is undecided, and a PRESENT indicator   *)
(* needs its quote rule.  A finding keeps whether a quote survived.        *)

Finding(state, quoted) == [state |-> state, quoted |-> quoted]

Grounded(state, quoted, mustQuote) ==
    Finding(IF state \in mustQuote /\ ~quoted THEN Undecided ELSE state, quoted)

Answers(states, mustQuote) ==
    {Grounded(state, quoted, mustQuote) : state \in states, quoted \in BOOLEAN}

CriterionAnswers ==
    Answers({"SATISFIED", "NOT_SATISFIED", Undecided}, {"SATISFIED"})

ExclusionAnswers ==
    Answers({"APPLIES", "DOES_NOT_APPLY", Undecided}, {"APPLIES"})

QuotesSatisfy(name, quoted) ==
    LET rule == PANEL_INDICATOR_RULES[name]
    IN /\ Cardinality(quoted) >= rule.min_docs
       /\ rule.quote_kinds # {} => \E i \in quoted : Doc(i).kind \in rule.quote_kinds

IndicatorAnswers(name, read) ==
    {"ABSENT", "UNDETERMINED"}
        \union {"PRESENT" : quoted \in {q \in SUBSET read : QuotesSatisfy(name, q)}}

\* Findings of a panel that answers, given the documents read.
PanelFindings(read) ==
    LET criterion(k) == IF AsksCriterion(ctx.criteria[k], read)
                        THEN CriterionAnswers
                        ELSE {Finding(CodeCriterion(ctx.criteria[k], read), FALSE)}
        exclusion(k) == IF AsksExclusion(ctx.exclusions[k], read)
                        THEN ExclusionAnswers ELSE {Finding(Undecided, FALSE)}
        indicator(n) == IF AsksIndicator(n, read)
                        THEN IndicatorAnswers(n, read) ELSE {"NOT_APPLICABLE"}
        choices(S, op(_)) == {f \in [S -> UNION {op(e) : e \in S}] :
                                 \A e \in S : f[e] \in op(e)}
    IN [criteria: choices(DOMAIN ctx.criteria, criterion),
        exclusions: choices(DOMAIN ctx.exclusions, exclusion),
        indicators: choices(PanelIndicators, indicator)]

\* Every asked subject stays undecided.
SkippedFindings(read) ==
    [criteria |-> [k \in DOMAIN ctx.criteria |->
                      Finding(CodeCriterion(ctx.criteria[k], read), FALSE)],
     exclusions |-> [k \in DOMAIN ctx.exclusions |-> Finding(Undecided, FALSE)],
     indicators |-> [n \in PanelIndicators |->
                        IF AsksIndicator(n, read) THEN "UNDETERMINED"
                                                  ELSE "NOT_APPLICABLE"]]

-------------------------------------------------------------------------------
(* The verdict, in order of precedence.                                    *)

CriticalUnmet(f) ==
    \E k \in DOMAIN f.criteria :
        f.criteria[k].state = "NOT_SATISFIED" /\ ctx.criteria[k].critical

ExclusionApplies(f) == \E k \in DOMAIN f.exclusions : f.exclusions[k].state = "APPLIES"

Unmet(f) == \E k \in DOMAIN f.criteria : f.criteria[k].state = "NOT_SATISFIED"

\* Mutant: undecided findings do not hold a claim back.
AnyUndecided_Ignored(f, hard) == FALSE

AnyUndecided(f, hard) ==
    \/ \E k \in DOMAIN f.criteria : f.criteria[k].state = Undecided
    \/ \E k \in DOMAIN f.exclusions : f.exclusions[k].state = Undecided
    \/ \E n \in PanelIndicators : f.indicators[n] = "UNDETERMINED"
    \/ \E n \in DOMAIN hard : hard[n] = "UNDETERMINED"

RaisedIn(f, names) == \E n \in names : f.indicators[n] = "PRESENT"

HardFacts(read) ==
    LET code == CodeIndicators(read)
        registry == RegistryIndicators(read)
    IN [n \in DOMAIN code \union DOMAIN registry |->
           IF n \in DOMAIN code THEN code[n] ELSE registry[n]]

Grade(grade, severity, failure) ==
    [verdict |-> grade, severity |-> severity, failure_class |-> failure]

(* What the panel's findings and code's criteria conclude, once every      *)
(* document was examined and no hard fact was found.                       *)
Conclusion(read, f) ==
    IF RaisedIn(f, ManipulationIndicators) THEN Grade("SUSPICIOUS", "HIGH", "NONE")
    ELSE IF RaisedIn(f, ContradictionIndicators)
    THEN Grade("INCONCLUSIVE", "MEDIUM", "CONTRADICTORY_EVIDENCE")
    ELSE IF CriticalUnmet(f) \/ ExclusionApplies(f) THEN Grade("REJECTED", "MEDIUM", "NONE")
    ELSE IF Unmet(f) THEN Grade("INCONCLUSIVE", "LOW", "UNMET_CRITERION")
    ELSE IF AnyUndecided(f, HardFacts(read))
    THEN Grade("INCONCLUSIVE", "LOW", "INSUFFICIENT_EVIDENCE")
    ELSE Grade("VALID", "NONE", "NONE")

\* Mutant: a changed document is one more malformed one.
Changed_Malformed(statuses) == FALSE

Changed(statuses) == "HASH_MISMATCH" \in statuses

Outcome(statuses, read, state, f) ==
    IF HardFact(HardFacts(read)) THEN Grade("SUSPICIOUS", "CRITICAL", "NONE")
    ELSE IF "UNAVAILABLE" \in statuses
    THEN Grade("UNAVAILABLE", "LOW", "EVIDENCE_UNREACHABLE")
    ELSE IF Changed(statuses)
    THEN Grade("UNAVAILABLE", "LOW", "EVIDENCE_CHANGED")
    ELSE IF statuses # {"EXAMINED"} THEN Grade("INCONCLUSIVE", "LOW", "EVIDENCE_MALFORMED")
    ELSE IF state = "INVALID" THEN Grade("INCONCLUSIVE", "LOW", "MODEL_OUTPUT")
    ELSE Conclusion(read, f)

Derive(statuses, read, state, f) == Outcome(statuses, read, state, f).verdict

(* What the receipt says beside the verdict.  A row's reason is kept by    *)
(* its status; an indicator that stayed undecided leaves no reason code.   *)

Reason(about, subject, state) == <<about, subject, state>>

\* Mutant: an exclusion is a reason only when it applies.
NotRuledOut_Applying(f) == {k \in DOMAIN f.exclusions : f.exclusions[k].state = "APPLIES"}

NotRuledOut(f) == {k \in DOMAIN f.exclusions : f.exclusions[k].state # "DOES_NOT_APPLY"}

\* The codes that speak against a claim; ALL_CRITERIA_SATISFIED, which the code
\* writes beside a VALID verdict and nowhere else, is left out.
ReasonCodes(statuses, read, state, f) ==
    LET present(states) == {n \in DOMAIN states : states[n] = "PRESENT"}
    IN {Reason("INDICATOR", n, "PRESENT") :
           n \in present(f.indicators) \union present(HardFacts(read))}
       \union {Reason("ROW", 0, s) : s \in statuses \ {"EXAMINED"}}
       \union {Reason("EXCLUSION", k, f.exclusions[k].state) : k \in NotRuledOut(f)}
       \union {Reason("CRITERION", k, f.criteria[k].state) :
                  k \in {c \in DOMAIN f.criteria : f.criteria[c].state # "SATISFIED"}}
       \union (IF state = "ASSESSED" THEN {} ELSE {Reason("PANEL", 0, state)})

SourceReachability(statuses) ==
    IF "UNAVAILABLE" \notin statuses THEN "REACHABLE"
    ELSE IF statuses = {"UNAVAILABLE"} THEN "UNREACHABLE" ELSE "PARTIAL"

ConfidenceBand(statuses, read, state, f) ==
    IF statuses # {"EXAMINED"} \/ state = "INVALID" THEN "LOW"
    ELSE IF AnyUndecided(f, HardFacts(read)) THEN "MEDIUM" ELSE "HIGH"

-------------------------------------------------------------------------------
NoFindings == [criteria |-> <<>>, exclusions |-> <<>>, indicators |-> <<>>]

Init ==
    /\ ctx \in Subjects
    /\ rows = <<>>
    /\ panel = "" /\ findings = NoFindings /\ verdict = ""

\* What fetching a document may yield, given what its bytes are.
FetchOutcomes(doc) ==
    LET verified == [readable |-> "EXAMINED", oversized |-> "TOO_LARGE",
                     malformed |-> "UNPARSEABLE"]
    IN {"UNAVAILABLE", "HASH_MISMATCH", verified[doc.bytes]}

FetchRow ==
    /\ Len(rows) < Len(ctx.documents)
    /\ \E status \in FetchOutcomes(Doc(Len(rows) + 1)) :
          rows' = Append(rows, status)
    /\ UNCHANGED <<ctx, panel, findings, verdict>>

Fetched == Len(rows) = Len(ctx.documents) /\ panel = ""

PanelSkipped ==
    /\ Fetched /\ SkipPanel(Examined)
    /\ panel' = "SKIPPED"
    /\ findings' = SkippedFindings(Examined)
    /\ UNCHANGED <<ctx, rows, verdict>>

PanelAnswers ==
    /\ Fetched /\ ~SkipPanel(Examined)
    /\ panel' = "ASSESSED"
    /\ findings' \in PanelFindings(Examined)
    /\ UNCHANGED <<ctx, rows, verdict>>

\* The answer holds no usable section.  (A failed model call reverts.)
PanelUnusable ==
    /\ Fetched /\ ~SkipPanel(Examined)
    /\ panel' = "INVALID"
    /\ findings' = SkippedFindings(Examined)
    /\ UNCHANGED <<ctx, rows, verdict>>

Adjudicate ==
    /\ panel # "" /\ verdict = ""
    /\ verdict' = Derive(Range(rows), Examined, panel, findings)
    /\ UNCHANGED <<ctx, rows, panel, findings>>

Next == FetchRow \/ PanelSkipped \/ PanelAnswers \/ PanelUnusable \/ Adjudicate

Spec == Init /\ [][Next]_roundVars

-------------------------------------------------------------------------------
(* Sparing the panel is harmless: whenever it is skipped, every answer it  *)
(* could have given, an unusable one included, would have led to the same  *)
(* verdict.                                                                *)
SkippingIsHarmless ==
    panel = "SKIPPED" =>
        LET D(state, f) == Derive(Range(rows), Examined, state, f)
            skipped == D("SKIPPED", findings)
        IN /\ D("INVALID", findings) = skipped
           /\ \A f \in PanelFindings(Examined) : D("ASSESSED", f) = skipped

(* Once every document is fetched, what code decided on the documents it   *)
(* could read is what it would decide on all that can ever be read: an     *)
(* outage can leave a hard fact or a criterion undecided, never decide it  *)
(* the other way.                                                          *)
PartialReadingsAreFinal ==
    Len(rows) = Len(ctx.documents) =>
        /\ \A n \in DOMAIN HardFacts(Examined) :
              HardFacts(Examined)[n] # "UNDETERMINED" =>
                 HardFacts(ReadableDocuments)[n] = HardFacts(Examined)[n]
        /\ \A k \in DOMAIN ctx.criteria :
              LET code(read) == CodeCriterion(ctx.criteria[k], read)
              IN code(Examined) # Undecided => code(ReadableDocuments) = code(Examined)

(* The derivation stays in the range the ledger assumes of a round, with   *)
(* the registries turning any verdict into SUSPICIOUS.                     *)
VerdictInLedgerRange ==
    verdict # "" =>
        verdict \in IF HardFact(RegistryIndicators(Examined)) THEN {"SUSPICIOUS"}
                    ELSE RoundVerdicts(AllDocuments, ReadableDocuments, Examined)

(* VALID leaves nothing open: every document examined, the panel assessed, *)
(* every criterion satisfied, no exclusion or indicator present or         *)
(* undecided, and every criterion the panel satisfied carries a quote.     *)
ValidLeavesNothingOpen ==
    verdict = "VALID" =>
        /\ Examined = AllDocuments /\ panel = "ASSESSED"
        /\ \A k \in DOMAIN ctx.criteria :
              /\ findings.criteria[k].state = "SATISFIED"
              /\ ctx.criteria[k].kind = "SEMANTIC" => findings.criteria[k].quoted
        /\ \A k \in DOMAIN ctx.exclusions :
              findings.exclusions[k].state = "DOES_NOT_APPLY"
        /\ \A n \in PanelIndicators :
              findings.indicators[n] \in {"ABSENT", "NOT_APPLICABLE"}
        /\ \A n \in DOMAIN HardFacts(Examined) :
              HardFacts(Examined)[n] \in {"ABSENT", "NOT_APPLICABLE"}

(* docs/INTEGRATION.md routes an adverse outcome by its reason codes and   *)
(* its summary.  The codes, collected apart from the order of precedence,  *)
(* name what decided: a claim is VALID exactly when no code speaks against *)
(* it and nothing is undecided, and a SUSPICIOUS or REJECTED outcome names *)
(* a present indicator, or a failed critical criterion or an exclusion;    *)
(* only an undecided indicator may hold a claim back without a code.       *)
(* The summary agrees: adverse findings other than hard facts are never    *)
(* reported on a partly read record, and VALID only with full confidence.  *)
ReasonsExplainTheVerdict ==
    verdict # "" =>
        LET statuses == Range(rows)
            outcome == Outcome(statuses, Examined, panel, findings)
            reasons == ReasonCodes(statuses, Examined, panel, findings)
            band == ConfidenceBand(statuses, Examined, panel, findings)
            named(about) == {r[2] : r \in {q \in reasons : q[1] = about}}
        IN /\ verdict = "VALID" <=> reasons = {} /\ band = "HIGH"
           /\ verdict = "SUSPICIOUS" => named("INDICATOR") # {}
           /\ verdict = "REJECTED" =>
                 \/ \E k \in named("EXCLUSION") : Reason("EXCLUSION", k, "APPLIES") \in reasons
                 \/ \E k \in named("CRITERION") :
                       ctx.criteria[k].critical
                          /\ Reason("CRITERION", k, "NOT_SATISFIED") \in reasons
           /\ reasons = {} /\ verdict # "VALID" =>
                 /\ outcome.failure_class = "INSUFFICIENT_EVIDENCE"
                 /\ \A k \in DOMAIN ctx.exclusions :
                       findings.exclusions[k].state = "DOES_NOT_APPLY"
           /\ outcome.severity \in {"MEDIUM", "HIGH"} => band # "LOW"
           /\ SourceReachability(statuses) # "REACHABLE" =>
                 outcome.severity = "CRITICAL" \/ outcome.failure_class = "EVIDENCE_UNREACHABLE"

(* contracts/insureshield.py:25: every positive or adverse panel finding   *)
(* must carry verbatim quotes.  A rejection rests on an adverse one.       *)
PanelRejectionsAreQuoted ==
    verdict = "REJECTED" =>
        \/ \E k \in DOMAIN ctx.criteria :
              /\ findings.criteria[k].state = "NOT_SATISFIED"
              /\ ctx.criteria[k].critical
              /\ ctx.criteria[k].kind = "SEMANTIC" => findings.criteria[k].quoted
        \/ \E k \in DOMAIN ctx.exclusions :
              findings.exclusions[k].state = "APPLIES" /\ findings.exclusions[k].quoted

===============================================================================
