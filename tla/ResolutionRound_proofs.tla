------------------------- MODULE ResolutionRound_proofs -------------------------
(***************************************************************************)
(* Proofs about one resolution round, for any number of documents,         *)
(* criteria and exclusions and any answers of the panel: the verdict stays *)
(* in the range the ledger assumes, what was decided on a partial reading  *)
(* is final, skipping the panel changes nothing, and VALID leaves nothing  *)
(* open.                                                                   *)
(*                                                                         *)
(* Every property is a consequence of one inductive invariant, which says  *)
(* what the rows, the panel's findings and the verdict are made of.        *)
(***************************************************************************)
EXTENDS ResolutionRound, TLAPS

-------------------------------------------------------------------------------
(* The invariant.                                                          *)

RowsFetched ==
    /\ ctx \in Subjects
    /\ rows \in Seq(RowStatus) /\ Len(rows) <= Len(ctx.documents)
    /\ \A i \in DOMAIN rows : rows[i] \in FetchOutcomes(Doc(i))

PanelPlanned ==
    /\ panel \in {"", "SKIPPED", "ASSESSED", "INVALID"}
    /\ panel # "" => Len(rows) = Len(ctx.documents)
    /\ panel = "SKIPPED" => SkipPanel(Examined)
    /\ panel \in {"ASSESSED", "INVALID"} => ~SkipPanel(Examined)
    /\ panel \in {"SKIPPED", "INVALID"} => findings = SkippedFindings(Examined)
    /\ panel = "ASSESSED" => findings \in PanelFindings(Examined)

Derived == Derive(Range(rows), Examined, panel, findings)

VerdictDerived ==
    /\ panel = "" => verdict = ""
    /\ verdict # "" => verdict = Derived

RoundInv == RowsFetched /\ PanelPlanned /\ VerdictDerived

-------------------------------------------------------------------------------

(* Facts are functions of the record and of what was read.                 *)
LEMMA FactsStay ==
    ASSUME UNCHANGED <<ctx, rows>>
    PROVE  /\ Examined' = Examined
           /\ CodeIndicators(Examined)' = CodeIndicators(Examined)
           /\ RegistryIndicators(Examined)' = RegistryIndicators(Examined)
           /\ HardFacts(Examined)' = HardFacts(Examined)
<1>1. Examined' = Examined
  BY DEF Examined
<1>2. CodeIndicators(Examined)' = CodeIndicators(Examined)
  BY DEF Examined, CodeIndicators, ArithmeticMismatch, DateConflict, InjectionMarker,
         AmountInflated, EstimateExceeded, BasisKinds, Counted, PerDocument, Compared,
         OfKinds, AllDocuments, Doc, Total
<1>3. RegistryIndicators(Examined)' = RegistryIndicators(Examined)
  BY DEF Examined, RegistryIndicators, PerDocument, OfKinds, AllDocuments, Doc
<1>4. HardFacts(Examined)' = HardFacts(Examined)
  BY <1>2, <1>3 DEF HardFacts
<1>5. QED
  BY <1>1, <1>2, <1>3, <1>4

LEMMA DerivedStays ==
    ASSUME UNCHANGED <<ctx, rows, panel, findings>>
    PROVE  Derived' = Derived
<1>1. /\ HardFacts(Examined)' = HardFacts(Examined)
      /\ HardFact(HardFacts(Examined))' <=> HardFact(HardFacts(Examined))
  BY FactsStay DEF HardFact
<1>2. AnyUndecided(findings, HardFacts(Examined))' <=> AnyUndecided(findings, HardFacts(Examined))
  BY <1>1 DEF AnyUndecided
<1>3. /\ CriticalUnmet(findings)' <=> CriticalUnmet(findings)
      /\ ExclusionApplies(findings)' <=> ExclusionApplies(findings)
      /\ Unmet(findings)' <=> Unmet(findings)
      /\ RaisedIn(findings, ManipulationIndicators)' <=> RaisedIn(findings, ManipulationIndicators)
      /\ RaisedIn(findings, ContradictionIndicators)'
            <=> RaisedIn(findings, ContradictionIndicators)
  BY DEF CriticalUnmet, ExclusionApplies, Unmet, RaisedIn
<1>4. Range(rows)' = Range(rows)
  BY DEF Range
<1>5. Conclusion(Examined, findings)' = Conclusion(Examined, findings)
  BY <1>2, <1>3 DEF Conclusion
<1>6. QED
  BY <1>1, <1>4, <1>5 DEF Derived, Derive, Outcome

LEMMA PlanStays ==
    ASSUME UNCHANGED <<ctx, rows>>
    PROVE  /\ SkipPanel(Examined)' = SkipPanel(Examined)
           /\ SkippedFindings(Examined)' = SkippedFindings(Examined)
           /\ PanelFindings(Examined)' = PanelFindings(Examined)
<1>1. SkipPanel(Examined)' = SkipPanel(Examined)
  BY DEF SkipPanel, Examined, HardFact, CodeIndicators,
   ArithmeticMismatch, DateConflict, InjectionMarker, AmountInflated,
   EstimateExceeded, BasisKinds, Counted, PerDocument, Compared, OfKinds, AllDocuments, Doc,
   Total
<1>2. SkippedFindings(Examined)' = SkippedFindings(Examined)
  BY DEF SkippedFindings, Examined, CodeCriterion, AmountDocumented, Eligible, AsksIndicator, AllDocuments, Doc, Total
<1>3. PanelFindings(Examined)' = PanelFindings(Examined)
  BY DEF PanelFindings, Examined, CodeCriterion, AmountDocumented, Eligible, AsksIndicator, AsksCriterion, AsksExclusion,
    IndicatorAnswers, QuotesSatisfy, AllDocuments, Doc, Total
<1>4. QED
  BY <1>1, <1>2, <1>3

(* What a round's state is made of is kept by every step.                  *)
LEMMA RoundInductive == RoundInv /\ [Next]_roundVars => RoundInv'
<1> SUFFICES ASSUME RoundInv, [Next]_roundVars
             PROVE  RoundInv'
  OBVIOUS
<1> USE DEF RoundInv
<1>1. CASE FetchRow
  <2>1. PICK status \in FetchOutcomes(Doc(Len(rows) + 1)) : rows' = Append(rows, status)
    BY <1>1 DEF FetchRow
  <2>2. /\ Len(rows) < Len(ctx.documents) /\ ctx' = ctx
        /\ panel' = panel /\ findings' = findings /\ verdict' = verdict
    BY <1>1 DEF FetchRow
  <2>3. ctx.documents \in Seq(Document)
    BY SubjectsAreClaims DEF RowsFetched, Context
  <2>4. panel = "" /\ verdict = ""
    <3>1. Len(rows) # Len(ctx.documents)
      BY <2>2, <2>3 DEF RowsFetched
    <3>2. QED
      BY <3>1 DEF PanelPlanned, VerdictDerived
  <2>5. status \in RowStatus
    <3>1. Len(rows) + 1 \in DOMAIN ctx.documents
      BY <2>2, <2>3 DEF RowsFetched
    <3>2. Doc(Len(rows) + 1) \in Document
      BY <2>3, <3>1 DEF Doc
    <3>3. Doc(Len(rows) + 1).bytes \in {"readable", "oversized", "malformed"}
      BY <3>2 DEF Document
    <3>4. QED
      BY <2>1, <3>3 DEF FetchOutcomes, RowStatus
  <2>6. RowsFetched'
    <3>1. /\ rows' \in Seq(RowStatus) /\ Len(rows') = Len(rows) + 1
          /\ \A i \in DOMAIN rows' :
                rows'[i] = IF i \in DOMAIN rows THEN rows[i] ELSE status
          /\ \A i \in DOMAIN rows' : i \in DOMAIN rows \/ i = Len(rows) + 1
      BY <2>1, <2>5 DEF RowsFetched
    <3>2. \A i : FetchOutcomes(Doc(i))' = FetchOutcomes(Doc(i))
      BY <2>2 DEF FetchOutcomes, Doc
    <3>3. \A i \in DOMAIN rows' : rows'[i] \in FetchOutcomes(Doc(i))
      BY <2>1, <3>1 DEF RowsFetched
    <3>4. Len(rows') <= Len(ctx.documents)
      BY <2>2, <2>3, <3>1 DEF RowsFetched
    <3>5. QED
      BY <2>2, <3>1, <3>2, <3>3, <3>4 DEF RowsFetched
  <2>7. QED
    BY <2>2, <2>4, <2>6 DEF PanelPlanned, VerdictDerived
<1>2. ASSUME UNCHANGED <<ctx, rows>>
      PROVE  RowsFetched'
  BY <1>2 DEF RowsFetched, FetchOutcomes, Doc
<1>3. CASE PanelSkipped
  BY <1>2, <1>3, PlanStays DEF PanelSkipped, Fetched, PanelPlanned, VerdictDerived
<1>4. CASE PanelAnswers
  BY <1>2, <1>4, PlanStays DEF PanelAnswers, Fetched, PanelPlanned, VerdictDerived
<1>5. CASE PanelUnusable
  BY <1>2, <1>5, PlanStays DEF PanelUnusable, Fetched, PanelPlanned, VerdictDerived
<1>6. CASE Adjudicate
  <2>1. UNCHANGED <<ctx, rows, panel, findings>> /\ verdict' = Derived /\ panel # ""
    BY <1>6 DEF Adjudicate, Derived
  <2>2. PanelPlanned'
    BY <2>1, PlanStays DEF PanelPlanned
  <2>3. VerdictDerived'
    BY <2>1, DerivedStays DEF VerdictDerived
  <2>4. QED
    BY <1>2, <2>1, <2>2, <2>3
<1>7. CASE UNCHANGED roundVars
  <2>1. UNCHANGED <<ctx, rows, panel, findings, verdict>>
    BY <1>7 DEF roundVars
  <2>2. PanelPlanned'
    BY <2>1, PlanStays DEF PanelPlanned
  <2>3. VerdictDerived'
    BY <2>1, DerivedStays DEF VerdictDerived
  <2>4. QED
    BY <1>2, <2>1, <2>2, <2>3
<1>8. QED
  BY <1>1, <1>3, <1>4, <1>5, <1>6, <1>7 DEF Next

LEMMA RoundInvariant == Spec => []RoundInv
<1>1. Init => RoundInv
  <2> SUFFICES ASSUME Init PROVE RoundInv
    OBVIOUS
  <2>1. Len(<<>>) = 0 /\ DOMAIN <<>> = {} /\ <<>> \in Seq(RowStatus)
    OBVIOUS
  <2>2. ctx \in Subjects /\ Len(ctx.documents) \in Nat
    <3>1. ctx \in Subjects
      BY DEF Init
    <3>2. ctx.documents \in Seq(Document)
      BY <3>1, SubjectsAreClaims DEF Context
    <3>3. QED
      BY <3>1, <3>2
  <2>3. rows = <<>> /\ panel = "" /\ verdict = ""
    BY DEF Init
  <2>4. RowsFetched
    <3>1. rows \in Seq(RowStatus) /\ Len(rows) <= Len(ctx.documents)
      <4>1. rows \in Seq(RowStatus) /\ Len(rows) = 0
        BY <2>3, Zenon, <2>1
      <4>2. QED
        BY <2>2, <4>1
    <3>2. DOMAIN rows = {}
      BY <2>1, <2>3
    <3>3. QED
      BY <2>2, <3>1, <3>2 DEF RowsFetched
  <2>5. QED
    BY <2>3, <2>4 DEF RoundInv, PanelPlanned, VerdictDerived
<1>2. QED
  BY <1>1, RoundInductive, PTL DEF Spec

-------------------------------------------------------------------------------
(* What a reading decides.                                                 *)

CodeNames == {"ARITHMETIC_MISMATCH", "AMOUNT_INFLATED", "ESTIMATE_EXCEEDED",
              "DATE_CONFLICT", "INJECTION_MARKER"}
RegistryNames == {"DUPLICATE_EVIDENCE", "DUPLICATE_DOCUMENT"}
FactStates == {"NOT_APPLICABLE", "PRESENT", "ABSENT", "UNDETERMINED"}

LEMMA HardFactsAre ==
    ASSUME NEW read
    PROVE  /\ DOMAIN CodeIndicators(read) = CodeNames
           /\ DOMAIN RegistryIndicators(read) = RegistryNames
           /\ DOMAIN HardFacts(read) = CodeNames \union RegistryNames
           /\ \A n \in CodeNames : HardFacts(read)[n] = CodeIndicators(read)[n]
           /\ \A n \in RegistryNames : HardFacts(read)[n] = RegistryIndicators(read)[n]
<1>1. DOMAIN CodeIndicators(read) = CodeNames
  BY DEF CodeIndicators, CodeNames
<1>2. DOMAIN RegistryIndicators(read) = RegistryNames
  BY DEF RegistryIndicators, RegistryNames
<1>3. CodeNames \cap RegistryNames = {}
  BY DEF CodeNames, RegistryNames
<1>4. QED
  BY <1>1, <1>2, <1>3 DEF HardFacts

LEMMA FactsTyped ==
    ASSUME NEW read
    PROVE  \A n \in DOMAIN HardFacts(read) : HardFacts(read)[n] \in FactStates
<1>1. \A n \in CodeNames : CodeIndicators(read)[n] \in FactStates
  BY DEF CodeNames, CodeIndicators, FactStates, ArithmeticMismatch, DateConflict,
         InjectionMarker, AmountInflated, EstimateExceeded, PerDocument, Compared
<1>2. \A n \in RegistryNames : RegistryIndicators(read)[n] \in FactStates
  BY DEF RegistryNames, RegistryIndicators, FactStates, PerDocument
<1>3. QED
  BY <1>1, <1>2, HardFactsAre

(* A fact found on some documents stays found, and one decided on all of   *)
(* them has no more to learn.                                              *)
LEMMA PerDocumentFinal ==
    ASSUME NEW read, NEW more, read \subseteq more, NEW committed, NEW bad, NEW worse,
           bad \subseteq worse, committed \subseteq read => worse = bad,
           PerDocument(bad, committed, read) # "UNDETERMINED"
    PROVE  PerDocument(worse, committed, more) = PerDocument(bad, committed, read)
BY DEF PerDocument

(* Whatever more is read, a set of kinds read whole counts the same.       *)
LEMMA CountedFinal ==
    ASSUME NEW read, NEW more, read \subseteq more, more \subseteq AllDocuments,
           NEW kinds, OfKinds(kinds) \subseteq read
    PROVE  /\ OfKinds(kinds) \subseteq more
           /\ Counted(kinds, more) = Counted(kinds, read)
BY DEF OfKinds, Counted, AllDocuments

LEMMA FactsFinal ==
    ASSUME NEW read, NEW more, read \subseteq more, more \subseteq AllDocuments,
           NEW n \in DOMAIN HardFacts(read), HardFacts(read)[n] # "UNDETERMINED"
    PROVE  HardFacts(more)[n] = HardFacts(read)[n]
<1>1. ArithmeticMismatch(read) # "UNDETERMINED" =>
         ArithmeticMismatch(more) = ArithmeticMismatch(read)
  BY PerDocumentFinal DEF ArithmeticMismatch
<1>2. DateConflict(read) # "UNDETERMINED" => DateConflict(more) = DateConflict(read)
  <2> DEFINE bad(r) == {i \in r \cap OfKinds(StructuredKinds) :
                           \/ Doc(i).issued < ctx.incident
                           \/ Doc(i).issued > ctx.submitted_on}
  <2>1. /\ bad(read) \subseteq bad(more)
        /\ OfKinds(StructuredKinds) \subseteq read => bad(more) = bad(read)
    OBVIOUS
  <2>2. DateConflict(read) = PerDocument(bad(read), OfKinds(StructuredKinds), read)
    BY DEF DateConflict
  <2>3. DateConflict(more) = PerDocument(bad(more), OfKinds(StructuredKinds), more)
    BY DEF DateConflict
  <2> HIDE DEF bad
  <2>4. QED
    BY <2>1, <2>2, <2>3, PerDocumentFinal
<1>3. InjectionMarker(read) # "UNDETERMINED" =>
         InjectionMarker(more) = InjectionMarker(read)
  BY PerDocumentFinal DEF InjectionMarker
<1>4. AmountInflated(read) # "UNDETERMINED" =>
         AmountInflated(more) = AmountInflated(read)
  BY CountedFinal DEF AmountInflated, Compared
<1>5. EstimateExceeded(read) # "UNDETERMINED" =>
         EstimateExceeded(more) = EstimateExceeded(read)
  <2>1. SUFFICES ASSUME EstimateExceeded(read) # "UNDETERMINED",
                        OfKinds({"INVOICE"}) # {}, OfKinds({"REPAIR_ESTIMATE"}) # {}
                 PROVE  EstimateExceeded(more) = EstimateExceeded(read)
    BY DEF EstimateExceeded
  <2>2. OfKinds(StructuredKinds) \subseteq read
    <3>1. OfKinds(StructuredKinds) # {}
      BY <2>1 DEF OfKinds, StructuredKinds
    <3>2. QED
      BY <2>1, <3>1 DEF EstimateExceeded, Compared
  <2>3. /\ OfKinds({"INVOICE"}) \subseteq read
        /\ OfKinds({"REPAIR_ESTIMATE"}) \subseteq read
    BY <2>2 DEF OfKinds, StructuredKinds
  <2>4. QED
    BY <2>2, <2>3, CountedFinal DEF EstimateExceeded, Compared
<1>6. \A m \in CodeNames : CodeIndicators(read)[m] # "UNDETERMINED" =>
         CodeIndicators(more)[m] = CodeIndicators(read)[m]
  BY <1>1, <1>2, <1>3, <1>4, <1>5 DEF CodeNames, CodeIndicators
<1>7. \A m \in RegistryNames : RegistryIndicators(read)[m] # "UNDETERMINED" =>
         RegistryIndicators(more)[m] = RegistryIndicators(read)[m]
  <2> DEFINE bytes(r) == {i \in r : Doc(i).known_bytes}
             number(r) == {i \in r \cap OfKinds(StructuredKinds) : Doc(i).known_number}
             states(r) ==
                [DUPLICATE_EVIDENCE |-> PerDocument(bytes(r), AllDocuments, r),
                 DUPLICATE_DOCUMENT |->
                    PerDocument(number(r), OfKinds(StructuredKinds), r)]
  <2>1. /\ bytes(read) \subseteq bytes(more)
        /\ AllDocuments \subseteq read => bytes(more) = bytes(read)
        /\ number(read) \subseteq number(more)
        /\ OfKinds(StructuredKinds) \subseteq read => number(more) = number(read)
    OBVIOUS
  <2>2. RegistryIndicators(read) = states(read) /\ RegistryIndicators(more) = states(more)
    BY DEF RegistryIndicators
  <2> HIDE DEF bytes, number
  <2>3. QED
    BY <2>1, <2>2, PerDocumentFinal DEF RegistryNames
<1>8. QED
  BY <1>6, <1>7, HardFactsAre

LEMMA CriterionFinal ==
    ASSUME NEW read, NEW more, read \subseteq more, more \subseteq AllDocuments,
           NEW crit, CodeCriterion(crit, read) # Undecided
    PROVE  CodeCriterion(crit, more) = CodeCriterion(crit, read)
<1>1. CASE crit.kind = "AMOUNT_DOCUMENTED"
  BY <1>1 DEF CodeCriterion, AmountDocumented
<1>2. CASE crit.kind # "AMOUNT_DOCUMENTED"
  <2>1. Eligible(crit.evidence_kind, crit.trusted_only, read)
           \subseteq Eligible(crit.evidence_kind, crit.trusted_only, more)
    BY DEF Eligible
  <2>2. QED
    BY <1>2, <2>1 DEF CodeCriterion
<1>3. QED
  BY <1>1, <1>2

LEMMA NothingReadNothingFound == ~HardFact(HardFacts({}))
<1>1. \A n \in CodeNames : CodeIndicators({})[n] # "PRESENT"
  BY DEF CodeNames, CodeIndicators, ArithmeticMismatch, DateConflict, InjectionMarker,
         AmountInflated, EstimateExceeded, Counted, PerDocument, Compared
<1>2. \A n \in RegistryNames : RegistryIndicators({})[n] # "PRESENT"
  BY DEF RegistryNames, RegistryIndicators, PerDocument
<1>3. QED
  BY <1>1, <1>2, HardFactsAre DEF HardFact

-------------------------------------------------------------------------------
(* What the rows tell once every document was fetched.                     *)

LEMMA DocumentsTyped ==
    ASSUME RowsFetched
    PROVE  /\ ctx.documents \in Seq(Document) /\ AllDocuments # {}
           /\ AllDocuments = 1..Len(ctx.documents)
           /\ \A i \in AllDocuments : Doc(i) \in Document
<1>1. ctx.documents \in Seq(Document) /\ Len(ctx.documents) > 0
  BY SubjectsAreClaims DEF RowsFetched, Context
<1>2. AllDocuments = 1..Len(ctx.documents)
  BY <1>1 DEF AllDocuments
<1>3. 1 \in AllDocuments
  <2>1. Len(ctx.documents) \in Nat \ {0}
    BY <1>1
  <2>2. QED
    BY <1>2, <2>1
<1>4. QED
  BY <1>1, <1>2, <1>3 DEF AllDocuments, Doc

LEMMA RowsTell ==
    ASSUME RowsFetched, Len(rows) = Len(ctx.documents)
    PROVE  /\ DOMAIN rows = AllDocuments
           /\ Examined \subseteq ReadableDocuments
           /\ ReadableDocuments \subseteq AllDocuments
           /\ Range(rows) = {"EXAMINED"} <=> Examined = AllDocuments
           /\ {"UNAVAILABLE", "HASH_MISMATCH"} \cap Range(rows) = {}
                 => Examined = ReadableDocuments
<1>1. DOMAIN rows = AllDocuments
  BY DocumentsTyped DEF RowsFetched
<1>2. \A i \in AllDocuments :
         /\ Doc(i).bytes \in {"readable", "oversized", "malformed"}
         /\ rows[i] \in {"UNAVAILABLE", "HASH_MISMATCH"}
               \/ (rows[i] = "EXAMINED" <=> Doc(i).bytes = "readable")
         /\ rows[i] = "EXAMINED" => Doc(i).bytes = "readable"
  <2> SUFFICES ASSUME NEW i \in AllDocuments
               PROVE  /\ Doc(i).bytes \in {"readable", "oversized", "malformed"}
                      /\ rows[i] \in {"UNAVAILABLE", "HASH_MISMATCH"}
                            \/ (rows[i] = "EXAMINED" <=> Doc(i).bytes = "readable")
                      /\ rows[i] = "EXAMINED" => Doc(i).bytes = "readable"
    OBVIOUS
  <2>1. Doc(i) \in Document
    BY DocumentsTyped
  <2>2. Doc(i).bytes \in {"readable", "oversized", "malformed"}
    BY <2>1 DEF Document
  <2>3. rows[i] \in FetchOutcomes(Doc(i))
    BY <1>1 DEF RowsFetched
  <2>4. QED
    BY <2>2, <2>3 DEF FetchOutcomes
<1>3. Examined \subseteq ReadableDocuments /\ ReadableDocuments \subseteq AllDocuments
  BY <1>1, <1>2 DEF Examined, ReadableDocuments
<1>4. Range(rows) = {"EXAMINED"} <=> Examined = AllDocuments
  BY <1>1, DocumentsTyped DEF Range, Examined
<1>5. {"UNAVAILABLE", "HASH_MISMATCH"} \cap Range(rows) = {}
         => Examined = ReadableDocuments
  BY <1>1, <1>2 DEF Range, Examined, ReadableDocuments
<1>6. QED
  BY <1>1, <1>3, <1>4, <1>5

(* Whatever could not be fetched this time, a fact or a criterion that     *)
(* code decided is what code decides on every readable document.           *)
THEOREM PartialIsFinal == Spec => []PartialReadingsAreFinal
<1>1. RoundInv => PartialReadingsAreFinal
  <2> SUFFICES ASSUME RowsFetched, Len(rows) = Len(ctx.documents)
               PROVE  PartialReadingsAreFinal
    BY DEF RoundInv, PartialReadingsAreFinal
  <2>1. /\ Examined \subseteq ReadableDocuments
        /\ ReadableDocuments \subseteq AllDocuments
    BY RowsTell
  <2>2. QED
    BY <2>1, FactsFinal, CriterionFinal DEF PartialReadingsAreFinal
<1>2. QED
  BY <1>1, RoundInvariant, PTL

-------------------------------------------------------------------------------
(* The derivation.                                                         *)

(* Unless every document was examined and no hard fact found, what the     *)
(* panel says does not matter.                                             *)
LEMMA PanelMatters ==
    ASSUME RowsFetched, Len(rows) = Len(ctx.documents), SkipPanel(Examined),
           NEW state, NEW f, NEW state2, NEW f2
    PROVE  Derive(Range(rows), Examined, state, f) = Derive(Range(rows), Examined, state2, f2)
<1>1. HardFact(CodeIndicators(Examined)) => HardFact(HardFacts(Examined))
  BY HardFactsAre DEF HardFact
<1>2. HardFact(HardFacts(Examined)) \/ Range(rows) # {"EXAMINED"}
  BY <1>1, RowsTell DEF SkipPanel
<1>3. QED
  BY <1>2 DEF Derive, Outcome

(* Sparing the panel never changes a verdict, whatever it would have said. *)
THEOREM SkippingHarmless == Spec => []SkippingIsHarmless
<1>1. RoundInv => SkippingIsHarmless
  <2> SUFFICES ASSUME RoundInv, panel = "SKIPPED"
               PROVE  SkippingIsHarmless
    BY DEF SkippingIsHarmless
  <2>1. RowsFetched /\ Len(rows) = Len(ctx.documents) /\ SkipPanel(Examined)
    BY DEF RoundInv, PanelPlanned
  <2>2. QED
    BY <2>1, PanelMatters DEF SkippingIsHarmless
<1>2. QED
  BY <1>1, RoundInvariant, PTL

(* The ledger may choose a round's verdict within RoundVerdicts, the       *)
(* registries turning it into SUSPICIOUS: no derivation leaves that range. *)
THEOREM LedgerRangeKept == Spec => []VerdictInLedgerRange
<1>1. RoundInv => VerdictInLedgerRange
  <2> SUFFICES ASSUME RoundInv, verdict # ""
               PROVE  VerdictInLedgerRange
    BY DEF VerdictInLedgerRange
  <2>1. /\ RowsFetched /\ Len(rows) = Len(ctx.documents)
        /\ verdict = Outcome(Range(rows), Examined, panel, findings).verdict
    BY DEF RoundInv, PanelPlanned, VerdictDerived, Derived, Derive
  <2>2. HardFact(RegistryIndicators(Examined)) => HardFact(HardFacts(Examined))
    BY HardFactsAre DEF HardFact
  <2>3. CASE HardFact(HardFacts(Examined))
    <3>1. verdict = "SUSPICIOUS"
      BY <2>1, <2>3 DEF Outcome, Grade
    <3>2. Examined # {}
      BY <2>3, NothingReadNothingFound
    <3>3. QED
      BY <3>1, <3>2 DEF VerdictInLedgerRange, RoundVerdicts
  <2>4. CASE ~HardFact(HardFacts(Examined)) /\ Examined = AllDocuments
    <3>1. Range(rows) = {"EXAMINED"}
      BY <2>1, <2>4, RowsTell
    <3>2. verdict \in {"VALID", "SUSPICIOUS", "INCONCLUSIVE", "REJECTED"}
      BY <2>1, <2>4, <3>1 DEF Outcome, Conclusion, Grade, Changed
    <3>3. QED
      BY <2>2, <2>4, <3>2 DEF VerdictInLedgerRange, RoundVerdicts
  <2>5. CASE ~HardFact(HardFacts(Examined)) /\ Examined # AllDocuments
    <3>1. Range(rows) # {"EXAMINED"}
      BY <2>1, <2>5, RowsTell
    <3>2. \/ verdict = "UNAVAILABLE"
          \/ /\ verdict = "INCONCLUSIVE"
             /\ {"UNAVAILABLE", "HASH_MISMATCH"} \cap Range(rows) = {}
      BY <2>1, <2>5, <3>1 DEF Outcome, Grade, Changed
    <3>3. QED
      BY <2>1, <2>2, <2>5, <3>2, RowsTell DEF VerdictInLedgerRange, RoundVerdicts
  <2>6. QED
    BY <2>3, <2>4, <2>5
<1>2. QED
  BY <1>1, RoundInvariant, PTL

(* The vocabulary of findings, and the quote a satisfied criterion of the  *)
(* panel carries.                                                          *)
FindingsTyped(f) ==
    /\ DOMAIN f.criteria = DOMAIN ctx.criteria
    /\ \A k \in DOMAIN f.criteria :
          /\ f.criteria[k].state \in {"SATISFIED", "NOT_SATISFIED", Undecided}
          /\ ctx.criteria[k].kind = "SEMANTIC" /\ f.criteria[k].state = "SATISFIED"
                => f.criteria[k].quoted
    /\ DOMAIN f.exclusions = DOMAIN ctx.exclusions
    /\ \A k \in DOMAIN f.exclusions :
          f.exclusions[k].state \in {"APPLIES", "DOES_NOT_APPLY", Undecided}
    /\ DOMAIN f.indicators = PanelIndicators
    /\ \A n \in PanelIndicators : f.indicators[n] \in FactStates

LEMMA CodeCriterionTyped ==
    ASSUME NEW crit, NEW read
    PROVE  /\ CodeCriterion(crit, read) \in {"SATISFIED", "NOT_SATISFIED", Undecided}
           /\ crit.kind = "SEMANTIC" => CodeCriterion(crit, read) = Undecided
BY DEF CodeCriterion, AmountDocumented

LEMMA SkippedTyped == ASSUME NEW read PROVE FindingsTyped(SkippedFindings(read))
<1>1. "SATISFIED" # Undecided
  BY DEF Undecided
<1>2. QED
  BY <1>1, CodeCriterionTyped DEF FindingsTyped, SkippedFindings, Finding, FactStates

LEMMA AnswersTyped ==
    ASSUME NEW read, NEW f \in PanelFindings(read)
    PROVE  FindingsTyped(f)
<1>1. /\ DOMAIN f.criteria = DOMAIN ctx.criteria
      /\ \A k \in DOMAIN ctx.criteria :
            f.criteria[k] \in IF AsksCriterion(ctx.criteria[k], read)
                              THEN CriterionAnswers
                              ELSE {Finding(CodeCriterion(ctx.criteria[k], read), FALSE)}
  BY DEF PanelFindings
<1>2. /\ DOMAIN f.exclusions = DOMAIN ctx.exclusions
      /\ \A k \in DOMAIN ctx.exclusions :
            f.exclusions[k] \in ExclusionAnswers \union {Finding(Undecided, FALSE)}
  BY DEF PanelFindings
<1>3. /\ DOMAIN f.indicators = PanelIndicators
      /\ \A n \in PanelIndicators :
            f.indicators[n] \in IndicatorAnswers(n, read) \union {"NOT_APPLICABLE"}
  BY DEF PanelFindings
<1>4. \A a \in CriterionAnswers :
         /\ a.state \in {"SATISFIED", "NOT_SATISFIED", Undecided}
         /\ a.state = "SATISFIED" => a.quoted
  BY DEF CriterionAnswers, Answers, Grounded, Finding, Undecided
<1>5. \A a \in ExclusionAnswers : a.state \in {"APPLIES", "DOES_NOT_APPLY", Undecided}
  BY DEF ExclusionAnswers, Answers, Grounded, Finding, Undecided
<1>6. \A n : IndicatorAnswers(n, read) \subseteq FactStates
  BY DEF IndicatorAnswers, FactStates
<1>7. \A k \in DOMAIN ctx.criteria :
         /\ f.criteria[k].state \in {"SATISFIED", "NOT_SATISFIED", Undecided}
         /\ ctx.criteria[k].kind = "SEMANTIC" /\ f.criteria[k].state = "SATISFIED"
               => f.criteria[k].quoted
  <2> SUFFICES ASSUME NEW k \in DOMAIN ctx.criteria
               PROVE  /\ f.criteria[k].state \in {"SATISFIED", "NOT_SATISFIED", Undecided}
                      /\ /\ ctx.criteria[k].kind = "SEMANTIC"
                         /\ f.criteria[k].state = "SATISFIED"
                         => f.criteria[k].quoted
    OBVIOUS
  <2>1. CASE f.criteria[k] \in CriterionAnswers
    BY <1>4, <2>1
  <2>2. CASE f.criteria[k] = Finding(CodeCriterion(ctx.criteria[k], read), FALSE)
    BY <2>2, CodeCriterionTyped DEF Finding, Undecided
  <2>3. QED
    BY <1>1, <2>1, <2>2
<1>8. \A k \in DOMAIN ctx.exclusions :
         f.exclusions[k].state \in {"APPLIES", "DOES_NOT_APPLY", Undecided}
  BY <1>2, <1>5 DEF Finding
<1>9. \A n \in PanelIndicators : f.indicators[n] \in FactStates
  BY <1>3, <1>6 DEF FactStates
<1>10. QED
  BY <1>1, <1>2, <1>3, <1>7, <1>8, <1>9 DEF FindingsTyped

(* What holds of a derived verdict.                                        *)
LEMMA Adjudicated ==
    ASSUME RoundInv, verdict # ""
    PROVE  /\ RowsFetched /\ Len(rows) = Len(ctx.documents)
           /\ panel \in {"SKIPPED", "ASSESSED", "INVALID"}
           /\ verdict = Outcome(Range(rows), Examined, panel, findings).verdict
           /\ panel = "SKIPPED" <=> SkipPanel(Examined)
           /\ FindingsTyped(findings)
<1>1. /\ panel # "" /\ panel \in {"", "SKIPPED", "ASSESSED", "INVALID"}
      /\ verdict = Outcome(Range(rows), Examined, panel, findings).verdict
  BY DEF RoundInv, PanelPlanned, VerdictDerived, Derived, Derive
<1>2. FindingsTyped(findings)
  BY <1>1, SkippedTyped, AnswersTyped DEF RoundInv, PanelPlanned
<1>3. QED
  BY <1>1, <1>2 DEF RoundInv, PanelPlanned

(* Nothing speaks against the claim, and nothing is undecided.             *)
NothingOpen ==
    /\ Range(rows) = {"EXAMINED"} /\ panel = "ASSESSED"
    /\ ~HardFact(HardFacts(Examined))
    /\ ~RaisedIn(findings, ManipulationIndicators)
    /\ ~RaisedIn(findings, ContradictionIndicators)
    /\ ~ExclusionApplies(findings) /\ ~Unmet(findings)
    /\ ~AnyUndecided(findings, HardFacts(Examined))

LEMMA ValidIffNothingOpen ==
    ASSUME RoundInv, verdict # ""
    PROVE  verdict = "VALID" <=> NothingOpen
<1>1. CriticalUnmet(findings) => Unmet(findings)
  BY DEF CriticalUnmet, Unmet
<1>2. verdict = "VALID" <=>
         /\ ~HardFact(HardFacts(Examined))
         /\ "UNAVAILABLE" \notin Range(rows) /\ ~Changed(Range(rows))
         /\ Range(rows) = {"EXAMINED"} /\ panel # "INVALID"
         /\ ~RaisedIn(findings, ManipulationIndicators)
         /\ ~RaisedIn(findings, ContradictionIndicators)
         /\ ~CriticalUnmet(findings) /\ ~ExclusionApplies(findings)
         /\ ~Unmet(findings) /\ ~AnyUndecided(findings, HardFacts(Examined))
  BY Adjudicated DEF Outcome, Conclusion, Grade
<1>3. Range(rows) = {"EXAMINED"} => "UNAVAILABLE" \notin Range(rows) /\ ~Changed(Range(rows))
  BY DEF Changed
<1>4. Range(rows) = {"EXAMINED"} /\ ~HardFact(HardFacts(Examined)) => panel # "SKIPPED"
  <2>1. HardFact(CodeIndicators(Examined)) => HardFact(HardFacts(Examined))
    BY HardFactsAre DEF HardFact
  <2>2. QED
    BY <2>1, Adjudicated, RowsTell DEF SkipPanel
<1>5. panel \in {"SKIPPED", "ASSESSED", "INVALID"}
  BY Adjudicated
<1>6. QED
  BY <1>1, <1>2, <1>3, <1>4, <1>5 DEF NothingOpen

(* A VALID verdict leaves nothing open, for any documents, any criteria    *)
(* and exclusions and any answers of the panel.                            *)
THEOREM ValidIsComplete == Spec => []ValidLeavesNothingOpen
<1>1. RoundInv => ValidLeavesNothingOpen
  <2> SUFFICES ASSUME RoundInv, verdict = "VALID"
               PROVE  ValidLeavesNothingOpen
    BY DEF ValidLeavesNothingOpen
  <2>1. NothingOpen /\ FindingsTyped(findings)
    BY ValidIffNothingOpen, Adjudicated
  <2>2. Examined = AllDocuments /\ panel = "ASSESSED"
    BY <2>1, Adjudicated, RowsTell DEF NothingOpen
  <2>3. \A k \in DOMAIN ctx.criteria :
           /\ findings.criteria[k].state = "SATISFIED"
           /\ ctx.criteria[k].kind = "SEMANTIC" => findings.criteria[k].quoted
    BY <2>1 DEF NothingOpen, FindingsTyped, Unmet, AnyUndecided
  <2>4. \A k \in DOMAIN ctx.exclusions : findings.exclusions[k].state = "DOES_NOT_APPLY"
    BY <2>1 DEF NothingOpen, FindingsTyped, ExclusionApplies, AnyUndecided
  <2>5. \A n \in PanelIndicators : findings.indicators[n] \in {"ABSENT", "NOT_APPLICABLE"}
    <3>1. PanelIndicators = ManipulationIndicators \union ContradictionIndicators
      BY DEF PanelIndicators, PANEL_INDICATOR_RULES, ManipulationIndicators,
             ContradictionIndicators
    <3>2. QED
      BY <2>1, <3>1 DEF NothingOpen, FindingsTyped, RaisedIn, AnyUndecided, FactStates
  <2>6. \A n \in DOMAIN HardFacts(Examined) :
           HardFacts(Examined)[n] \in {"ABSENT", "NOT_APPLICABLE"}
    BY <2>1, FactsTyped DEF NothingOpen, HardFact, AnyUndecided, FactStates
  <2>7. QED
    BY <2>2, <2>3, <2>4, <2>5, <2>6 DEF ValidLeavesNothingOpen
<1>2. QED
  BY <1>1, RoundInvariant, PTL

-------------------------------------------------------------------------------
(* The reason codes.                                                       *)

Reasons == ReasonCodes(Range(rows), Examined, panel, findings)

LEMMA ReasonsAre ==
    /\ \A n \in DOMAIN findings.indicators :
          findings.indicators[n] = "PRESENT" => Reason("INDICATOR", n, "PRESENT") \in Reasons
    /\ \A n \in DOMAIN HardFacts(Examined) :
          HardFacts(Examined)[n] = "PRESENT" => Reason("INDICATOR", n, "PRESENT") \in Reasons
    /\ \A s \in Range(rows) : s # "EXAMINED" => Reason("ROW", 0, s) \in Reasons
    /\ \A k \in DOMAIN findings.exclusions :
          findings.exclusions[k].state # "DOES_NOT_APPLY" =>
             Reason("EXCLUSION", k, findings.exclusions[k].state) \in Reasons
    /\ \A k \in DOMAIN findings.criteria :
          findings.criteria[k].state # "SATISFIED" =>
             Reason("CRITERION", k, findings.criteria[k].state) \in Reasons
    /\ panel # "ASSESSED" => Reason("PANEL", 0, panel) \in Reasons
BY DEF Reasons, ReasonCodes, NotRuledOut

LEMMA NoReasonIff ==
    Reasons = {} <=>
        /\ \A n \in DOMAIN findings.indicators : findings.indicators[n] # "PRESENT"
        /\ \A n \in DOMAIN HardFacts(Examined) : HardFacts(Examined)[n] # "PRESENT"
        /\ Range(rows) \subseteq {"EXAMINED"}
        /\ \A k \in DOMAIN findings.exclusions :
              findings.exclusions[k].state = "DOES_NOT_APPLY"
        /\ \A k \in DOMAIN findings.criteria : findings.criteria[k].state = "SATISFIED"
        /\ panel = "ASSESSED"
BY DEF Reasons, ReasonCodes, NotRuledOut

LEMMA ReasonNames ==
    ASSUME NEW S, NEW about, NEW k, NEW state, Reason(about, k, state) \in S
    PROVE  k \in {r[2] : r \in {q \in S : q[1] = about}}
<1>1. Reason(about, k, state)[1] = about /\ Reason(about, k, state)[2] = k
  BY DEF Reason
<1>2. QED
  BY <1>1

(* The reason codes, the severity, the confidence and the reachability of  *)
(* a receipt, computed beside the verdict, account for it.                 *)
THEOREM ReasonsExplain == Spec => []ReasonsExplainTheVerdict
<1>1. RoundInv => ReasonsExplainTheVerdict
  <2> SUFFICES ASSUME RoundInv, verdict # ""
               PROVE  ReasonsExplainTheVerdict
    BY DEF ReasonsExplainTheVerdict
  <2> DEFINE statuses == Range(rows)
             outcome == Outcome(statuses, Examined, panel, findings)
             band == ConfidenceBand(statuses, Examined, panel, findings)
             named(about) == {r[2] : r \in {q \in Reasons : q[1] = about}}
  <2>1. /\ RowsFetched /\ Len(rows) = Len(ctx.documents)
        /\ panel \in {"SKIPPED", "ASSESSED", "INVALID"}
        /\ verdict = outcome.verdict /\ FindingsTyped(findings)
    BY Adjudicated
  <2>2. statuses # {}
    BY <2>1, RowsTell, DocumentsTyped DEF Range
  <2>3. verdict = "VALID" <=> Reasons = {} /\ band = "HIGH"
    <3>1. band = "HIGH" <=> /\ statuses = {"EXAMINED"} /\ panel # "INVALID"
                            /\ ~AnyUndecided(findings, HardFacts(Examined))
      BY DEF ConfidenceBand
    <3>2. ASSUME Reasons = {}, band = "HIGH"
          PROVE  NothingOpen
      <4>1. PanelIndicators = ManipulationIndicators \union ContradictionIndicators
        BY DEF PanelIndicators, PANEL_INDICATOR_RULES, ManipulationIndicators,
               ContradictionIndicators
      <4>2. QED
        BY <2>1, <3>1, <3>2, <4>1, NoReasonIff
           DEF NothingOpen, FindingsTyped, HardFact, RaisedIn, ExclusionApplies, Unmet
    <3>3. ASSUME NothingOpen
          PROVE  Reasons = {} /\ band = "HIGH"
      <4>1. \A n \in PanelIndicators : findings.indicators[n] # "PRESENT"
        BY <3>3 DEF NothingOpen, RaisedIn, PanelIndicators, PANEL_INDICATOR_RULES,
               ManipulationIndicators, ContradictionIndicators
      <4>2. /\ \A k \in DOMAIN findings.exclusions :
                  findings.exclusions[k].state = "DOES_NOT_APPLY"
            /\ \A k \in DOMAIN findings.criteria : findings.criteria[k].state = "SATISFIED"
        BY <2>1, <3>3 DEF NothingOpen, FindingsTyped, ExclusionApplies, Unmet, AnyUndecided
      <4>3. Reasons = {}
        BY <2>1, <3>3, <4>1, <4>2, NoReasonIff DEF NothingOpen, FindingsTyped, HardFact
      <4>4. QED
        BY <3>1, <3>3, <4>3 DEF NothingOpen
    <3>4. QED
      BY <3>2, <3>3, ValidIffNothingOpen
  <2>4. verdict = "SUSPICIOUS" => named("INDICATOR") # {}
    <3>1. verdict = "SUSPICIOUS" =>
             \/ HardFact(HardFacts(Examined))
             \/ RaisedIn(findings, ManipulationIndicators)
      BY <2>1 DEF Outcome, Conclusion, Grade
    <3>2. ManipulationIndicators \subseteq DOMAIN findings.indicators
      BY <2>1 DEF FindingsTyped, PanelIndicators, PANEL_INDICATOR_RULES,
             ManipulationIndicators
    <3>3. verdict = "SUSPICIOUS" => \E n : Reason("INDICATOR", n, "PRESENT") \in Reasons
      BY <3>1, <3>2, ReasonsAre DEF HardFact, RaisedIn
    <3>4. QED
      BY <3>3, ReasonNames
  <2>5. verdict = "REJECTED" =>
           \/ \E k \in named("EXCLUSION") : Reason("EXCLUSION", k, "APPLIES") \in Reasons
           \/ \E k \in named("CRITERION") :
                 /\ ctx.criteria[k].critical
                 /\ Reason("CRITERION", k, "NOT_SATISFIED") \in Reasons
    <3>1. verdict = "REJECTED" => CriticalUnmet(findings) \/ ExclusionApplies(findings)
      BY <2>1 DEF Outcome, Conclusion, Grade
    <3>2. CriticalUnmet(findings) =>
             \E k : ctx.criteria[k].critical
                       /\ Reason("CRITERION", k, "NOT_SATISFIED") \in Reasons
      BY ReasonsAre DEF CriticalUnmet
    <3>3. ExclusionApplies(findings) =>
             \E k : Reason("EXCLUSION", k, "APPLIES") \in Reasons
      BY ReasonsAre DEF ExclusionApplies
    <3>4. \A about, k, state : Reason(about, k, state) \in Reasons => k \in named(about)
      BY ReasonNames
    <3>5. QED
      BY <3>1, <3>2, <3>3, <3>4
  <2>6. Reasons = {} /\ verdict # "VALID" =>
           /\ outcome.failure_class = "INSUFFICIENT_EVIDENCE"
           /\ \A k \in DOMAIN ctx.exclusions :
                 findings.exclusions[k].state = "DOES_NOT_APPLY"
    <3> SUFFICES ASSUME Reasons = {}, verdict # "VALID"
                 PROVE  /\ outcome.failure_class = "INSUFFICIENT_EVIDENCE"
                        /\ \A k \in DOMAIN ctx.exclusions :
                              findings.exclusions[k].state = "DOES_NOT_APPLY"
      OBVIOUS
    <3>1. statuses = {"EXAMINED"} /\ panel = "ASSESSED"
      BY <2>2, NoReasonIff
    <3>2. /\ ~HardFact(HardFacts(Examined))
          /\ ~RaisedIn(findings, ManipulationIndicators)
          /\ ~RaisedIn(findings, ContradictionIndicators)
          /\ ~CriticalUnmet(findings) /\ ~ExclusionApplies(findings) /\ ~Unmet(findings)
      BY <2>1, NoReasonIff DEF FindingsTyped, HardFact, RaisedIn, CriticalUnmet,
         ExclusionApplies, Unmet, PanelIndicators, PANEL_INDICATOR_RULES,
         ManipulationIndicators, ContradictionIndicators
    <3>3. outcome.failure_class = "INSUFFICIENT_EVIDENCE"
      BY <2>1, <3>1, <3>2 DEF Outcome, Conclusion, Grade, Changed
    <3>4. QED
      BY <2>1, <3>3, NoReasonIff DEF FindingsTyped
  <2>7. outcome.severity \in {"MEDIUM", "HIGH"} => band # "LOW"
    BY DEF Outcome, Conclusion, Grade, ConfidenceBand
  <2>8. SourceReachability(statuses) # "REACHABLE" =>
           outcome.severity = "CRITICAL" \/ outcome.failure_class = "EVIDENCE_UNREACHABLE"
    BY DEF SourceReachability, Outcome, Grade
  <2>9. QED
    BY <2>3, <2>4, <2>5, <2>6, <2>7, <2>8 DEF ReasonsExplainTheVerdict, Reasons
<1>2. QED
  BY <1>1, RoundInvariant, PTL

===============================================================================
