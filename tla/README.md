# InsureShield in TLA+

This directory specifies the InsureShield contract
(`src/contracts/insureshield.py`): an on-chain register of insurance policies
and claims in which code decides hard facts, a model panel reads narrative
evidence under validator consensus, and downstream contracts ask one question,
*is this claim consumable?* The modules are checked with TLC on small
instances. Every safety invariant and action property the passing runs check,
and the refinement of the promise to consumers, are also proved with TLAPS for
every value of the constants; one liveness property is only model-checked.

## 1. Inventory

### Components, their state and operations

| Component | State | Operations | Model |
|---|---|---|---|
| Policy register | `policies`, `policy_heads`, `policy_count` | `create_policy`, `publish_policy_version`, `revoke_policy_version` | `PolicyVersions` |
| Claim ledger | `claims`, `receipts`, `claim_count`, `commitment_count`, `reference_index` | `submit_claim`, `resolve_claim` (permissionless), `retry_claim`, `cancel_claim` | `ClaimLedger` |
| Duplicate registries | `evidence_registry` (bytes), `document_registry` (issuer and number) | written by submit, retry and resolve; read by the registry findings and the views | `ClaimLedger` |
| Consumer views | none | `freshness`, `is_consumable`, `_later_duplicate_of` | `ClaimLedger`; what they promise, `ConsumerPromise` and `ClaimPromise` |
| Evidence admission | a working copy during one call | `_evidence_error` | `EvidenceAdmission`, `Evidence` |
| Resolution round | rows, plan, panel answer, findings of one node | `_node_round`, `_plan`, `_panel_findings`, `_registry_findings`, `_derive` | `ResolutionRound`, `RoundOutcome` |
| Consensus gate | the leader's result and the votes of one round | `_run_round`, `_parse_payload`, `_first_difference`, `_vote_on_leader_error`, `_validator_decision` | `ConsensusRound` |
| Panel answers and grounding | the finding one answer leaves | `_normalize_answer`, `_ground_quote`, `_quote_grounded`, `_clean_note`, `_check_panel_finding` | `PanelGrounding` |
| Panel prompt and tokenising | none | `_panel_blob`, `_panel_sections`, the parser's key aliases, splitting into words | not modelled (text) |
| Adversarial test engine | `tests`, `test_count` | `register_`, `run_`, `replay_adversarial_test` | `AdversarialTests` |
| Definition, text and URL validation | none | `_parse_definition`, `_url_parts`, `_iso_epoch` | not modelled (string work) |
| Paging, statistics, scripts, tests | none | read-only or outside the contract | not modelled |

### How they interact

A claim binds the version that heads its policy when it is submitted, and its
`definition_hash`, for life. A submission draws one commitment number per
document from a counter shared by all claims and enters the bytes in
`evidence_registry`. A resolution runs deterministic admission, otherwise one
consensus round; the registries are read, the verdict derived, and only then
are the document numbers the round examined written to `document_registry`.
The views combine the claim, its last receipt, the version's status, the
registry and the reader's clock. An adversarial test is a synthetic claim bound
to one version; running it reads the registries and writes only the test.

### What is hard in it

There is no shared memory and no thread: every transaction is atomic. What is
hard first is the *order of transactions* by different accounts: which of two
editions of an invoice is judged first, a cancellation between a submission and
a resolution, a revocation between a submission and a read, a retry that adds a
document which another claim committed meanwhile. A second source is *partial
failure inside a round* (some documents unreachable, changed or malformed, an
unusable model answer). A third is the round itself: a leader and validators
fetch at different times, ask different models and quote different passages,
and validators assume nothing of what the leader returns. A fourth is
boundaries: the round limit, the cooldown, the expiry instant, the caps on
quotes and notes. `PROJECT.json` lists each hazard with its line and the
properties that would catch it.

### What makes each component correct

* Policy register: a policy is one line of succession of versions, and a
  version only ever closes.
* Evidence admission: the loop computes the amendment its docstring promises;
  nothing committed is withdrawn or relabelled.
* Registries: bytes stay with their first committer, numbers move only to an
  earlier commitment, and never two claims are consumable for one number.
* Claim ledger: rounds are bounded and spaced, judged evidence stays, records
  are final, a refused claim stays refused, a pending claim is answered.
* Adversarial tests: a test meets what a claim would meet at that moment and
  leaves no trace in the registries; its result is final.
* Consumer views: a claim is settled once, payment can only be withdrawn, and
  claims payable together share no document number.
* Resolution round: skipping the panel never changes the verdict, an outage
  never flips a fact, VALID leaves nothing open, and the reason codes account
  for the verdict.
* Grounding: a quote is kept exactly when some eligible document supports it,
  correct citations are never lost, and what is kept passes the gate.
* Consensus: what is recorded is what every agreeing validator derived and saw,
  honest rounds agree unless a note of the leader was cut just after a word, and
  a failure is ratified only when it is shared.

## 2. The modules and the code

**`PolicyVersions`** A policy is the sequence of its versions, so a head is a
length. `PublishPolicyVersion` closes the predecessor only when it is ACTIVE and
appends the successor in one step; `RevokePolicyVersion` applies to any version
that is not revoked and restamps `closed_at`. The definition hash is the tuple
it is computed from (an injective value). The clock is a variable: transactions
read it, `Tick` advances it, so several transactions may carry one instant.
`Never` (0) is the empty string of an instant that has not come; time starts
at 1.

**`Evidence`** The record types and the pure operators of a call: relocating
committed documents, appending new ones with the next commitment numbers, and
what makes the finished list acceptable.

**`EvidenceAdmission`** `_evidence_error` one loop iteration per step, including
the `_touched` marks, the kind check of a relocation and the final checks.
Calls follow each other on the list the last accepted call left.
`AmendmentAcceptable` and `Amendment` are the reference definition, stated
without the loop (a new document's place is the number of new ones up to it); `ClaimLedger` uses the one-step operators of `Evidence` that
this module justifies.

**`RoundOutcome`** The range of verdicts the ledger assumes a round may derive
from the documents it examined. `ResolutionRound` shows the real derivation
stays inside it (`VerdictInLedgerRange`), which is how the two levels meet.

**`ClaimLedger`** The four claim transactions beside the policy register.
Receipts are kept inside the claim (a receipt's id is its index), so
`reference_index`, `claim_ids` of a version and `receipt_count` are derived sets
(`ReferenceUnused`, `BoundTo`). `AdjudicateRound` chooses the examined subset of
the readable documents and a base verdict within `RoundVerdicts`, lets the
registries turn it into SUSPICIOUS, stores the receipt and writes the document
numbers, in the code's order. A call that reverts, and a round the validators
do not ratify, change nothing: they are stuttering. `admissible` stands for the
answer of `_admission_rejections`, which depends on immutable fields only.
`Consumable(c, at)` is the view at any instant of the reader's choice.

**`ConsumerPromise`, `ClaimPromise`** The abstract specification and the
refinement. `ConsumerPromise` knows three stages of a claim (open, payable,
refused) and the document keys a payable claim rests on: an open claim is
refused or paid once, payable claims can be withdrawn at any time, and a claim
is paid only on keys no payable claim holds. It has no rounds, registries, clock
or policies. `ClaimPromise` maps the ledger to it: payable is what
`is_consumable` answers now, open is PENDING or RETRYABLE (or not yet
submitted), refused the rest. One resolution may pay its claim and, by moving a
registry entry, withdraw others in the same step; a tick withdraws what expires,
a revocation the claims of its version.

**`ResolutionRound`** One node's round: `FetchRow` per document, then
`PanelSkipped`, `PanelAnswers` or `PanelUnusable`, then `Adjudicate`. The
operators over `read` (a set of examined documents) are the code's fact
functions; taking the set as an argument lets a property compare a partial
reading with a fuller one. A panel answer is any answer that survives
grounding; a finding remembers whether a quote survived. A failed model call
reverts the transaction and is stuttering. `Outcome` is the whole record of
`_derive`: one `Grade` of the precedence ladder is verdict, severity and failure
class; `ReasonCodes`, `SourceReachability` and `ConfidenceBand` are computed
beside it, as in the code. An undecided indicator yields no reason code, and
`ReasonsExplainTheVerdict` says that this is the only way to be held back
without one. The codes are those that speak against a claim:
`ALL_CRITERIA_SATISFIED`, which the code adds to a VALID verdict alone (1904), is
left out.

**`PanelGrounding`** One answer of the panel for one subject: `Keep` or `Drop`
per quote, then `Conclude`. A text is a sequence of words, a quote of words and
ellipses, and a length is measured in characters through `Width`, so that caps
and word counts are told apart. `FindRun`, `QuoteGrounded`, `GroundQuote` and
`CleanNote` are the code's functions; `Placed` is the reference they are
compared with. A fragment, the run of words between two ellipses, is known by
its first position in the quote (`Starts`, `Fragment`), and `Search` is the
loop's position after each token, a recursive function. `Picked` is the
comprehension that lists some elements in the order of a list, the eligible
documents of a finding (`InOrder`) or the characters of a note that stay.
`Holding` and `FirstHolding` are the loop over the documents: those that hold
the quote, and of these the cited one or the first on record. A note is a
sequence of blanks and other characters. `CheckPanelFinding` is the gate's side
of the same rules.

**`ConsensusRound`** `_run_round` with its validators. The leader either follows
the code or returns something else (`Deviations`); each validator fetches and
asks its own panel (`Derived`: everything a node may derive for the subject),
gates the leader's payload against the bytes it examined, compares the decision
fields and votes. A ratified payload passes the gate once more without bytes
(`NoTexts`), as at the boundary. What a payload leads to is not written twice:
`Reading` instantiates `ResolutionRound` over the facts and markers the payload
states, which the gate and the verdict use just as the code calls the same
functions on the parsed payload. The header fields, which every honest node
computes alike from the claim, are one value, right or wrong. A finding carries
its note as far as the gate can tell notes apart: `CleanNote` (492-499) leaves
every note alone but one cut at `NOTE_CAP` just after a word, which the note check
of `_valid_finding_shape` (1542) refuses, as it does longer or unclean notes that
only a deviating leader writes; how a cut leaves such a note is in
`PanelGrounding`. Majority and the
rotation of leaders belong to the network and are marked external.

**`AdversarialTests`** The three test operations beside every transaction of the
ledger (`EngineNext`). `TestDuplicateEvidence` and `TestDuplicateDocument` are
the registry checks in test mode: nobody is forgiven, and there is no
commitment number to compare. `FreshClaimHit` asks the ledger's own definitions
(an instance of `ClaimLedger` over the claims with one more) what a claim with
the same documents would meet now. Admission is `WithinLimits` (amount and
coverage dates, a constant) and the reporting window, which is spelled out
because the submission date of a test is its registration date. Texts and test
types are left out, and of the expected indicators only those the registries
decide are told apart.

`MCPolicyVersions`, `MCEvidenceAdmission`, `MCClaimLedger`, `MCAdversarialTests`,
`MCResolutionRound`, `MCPanelGrounding` and `MCConsensusRound` give the constants values for TLC. Operators named
`X_Something` with a comment "Mutant" are plausible faults of `X`; replacing `X`
by one makes the property it is paired with in `PROJECT.json` fail.

## 3. What is model-checked

| Run | Instance | Questions |
|---|---|---|
| `policies` | 2 owners, 2 terms, 2 policies, 2 versions, 3 instants | `SingleLineOfSuccession`, `VersionsOnlyClose` |
| `evidence_admission` | 3 documents, 3 locations, 2 kinds, at most 2 documents in a claim, calls of up to 3 entries | `LoopIsAmendment`, `CommittedDistinct`, `NothingWithdrawn` |
| `reuse` | 2 claimants, 3 claims, a text under two kinds or two editions of one number | `FirstCommitterHolds`, `BytesServeOneClaimant`, `OneConsumablePerDocument`, `EarliestCommitmentHolds` |
| `editions_retried` | 2 claims, 2 rounds, 2 instants, late additions | `RegistrySupport`, `EarliestCommitmentHolds`, `ConsumabilityNeverReturns`, `KeepsPromise` |
| `life` | 1 claim, 3 rounds, 3 instants, 2 versions, relocation, unreadable file | `RoundsAreDisciplined`, `JudgedEvidenceStays`, `AcceptedWhileOpen`, `RecordsAreFinal`, `ConsumabilityNeverReturns`, `PendingIsAnswered` |
| `adversarial_tests` | 2 claimants, 2 claims and 2 tests over two editions, 2 versions, one test a version | `TestsMeetWhatClaimsMeet`, `EarliestCommitmentHolds`, `WithinCapacity`, `ResultsAreFinal` |
| `round` | every pair of 15 documents, some triples, 2 policies | `SkippingIsHarmless`, `PartialReadingsAreFinal`, `VerdictInLedgerRange`, `ValidLeavesNothingOpen`, `ReasonsExplainTheVerdict` |
| `grounding` | 2 documents of at most 4 words over 2 words; single quotes of at most 4 tokens, answers of at most 3 quotes | `SearchIsExact`, `KeptFindingsPassTheGate`, `CorrectCitationsStand`, `SupportedQuotesAreKept` |
| `consensus` | 6 subjects of one or two documents, 3 validators, one rotation, leaders that deviate in one respect | `RecordedVerdictIsEveryones`, `RecordedQuotesWereSeen`, `HonestAnswersAgree`, `ErrorsAreShared`, `NeverRefused` |

All of these pass. `policies`, `life` and `adversarial_tests` also check the type
invariants; the properties are stated, with the code they are about, in the modules.

**Bounds.** `MaxPolicies`, `MaxClaims`, `MaxEntries`, `MaxTests` and `MaxTime`
cap what is explored; `MAX_VERSIONS`, `MAX_ROUNDS`, `MAX_CLAIMS_PER_VERSION` and
`MAX_TESTS_PER_VERSION` are the contract's own limits, given smaller values
except for the three rounds of `life`. A conflict over a document involves an original, a duplicate and one
claim that makes the registry entry move or be forgiven, so three claims reach
every such interaction; two editions of a number are enough because the
registry keeps one entry per key. `EarliestCommitmentHolds` is checked in `reuse`
over the claims' order and in `editions_retried` where claims add documents late
and are resolved again, so that the order of commitments is no longer that of the
claims. The cooldown and the validity are one tick,
so their boundaries lie inside three instants. Documents of `MCResolutionRound`
depart from a clean record in one respect each, so pairs reach every branch of
every fact and of the derivation. In `grounding` an alphabet of two words makes
words repeat, so that fragments overlap, straddle and compete for a place; the
caps (`QUOTE_MIN` 3, `QUOTE_CAP` 6, `MAX_QUOTES` 2, `NOTE_CAP` 3) are small
enough for texts on both sides of each, and an answer offers one quote more than
is kept. In `consensus` a deviating leader changes any one field of an honest
payload without notes (a row, a finding's state, author, quotes or note, the panel
state, the markers, the header), or states all that another document would have led to, or
fails with any error; three validators give every split of votes, and
`MaxRotations` = 1 a second leader after a lost vote. Of the two questions a round
asks there, one is answered with an empty note or a cut one (`MCNotes`), by
leaders and validators alike. Documents or answers with
several faults at once, and coalitions of deviating validators, are outside
these instances. Accounts and claim references, documents
and locations, or validators, are symmetric wherever nothing else tells them apart; `life`,
which checks liveness, uses no symmetry. Deadlock is checked in
`evidence_admission`; elsewhere a bounded instance, or a finished round, really stops.

**Fairness.** `FairSpec` assumes weak fairness of `ResolveClaim(c)` for each
claim. `resolve_claim` is permissionless and no transition other than a
resolution or a cancellation disables it, so anybody may try again after a round
the validators did not ratify; the assumption is that some attempt is ratified
eventually. Nothing is assumed of claimants: `retry_claim` and `cancel_claim`
are not fair, and a RETRYABLE claim may rest for ever.

### Where the code and its documentation disagree

Three runs check a sentence of the documentation and TLC finds it violated.

* `double_dip` / `NoDoubleDipping`. `docs/SECURITY.md:85-87` says a claimant's
  withdrawn, unjudged claim is forgiven but "their own resolved claim does"
  count. The registry names only the first committer: once that is the
  withdrawn claim, two later claims of the same claimant on the same bytes are
  both judged VALID. (For structured documents the number registry still
  catches it.)
* `rejections_quoted` / `PanelRejectionsAreQuoted`. The comment at
  `contracts/insureshield.py:25` wants a quote behind every adverse finding;
  a critical criterion answered NOT_SATISFIED rejects without one.
* `notes_decide` / `NotesNeverDecide`. `docs/CONSENSUS.md:82-85` lists notes
  among the allowed differences. `_clean_note` (498-499) collapses blanks and
  then cuts at `NOTE_CAP`, so a long note cut just after a word keeps a trailing
  blank; the gate (1542) takes only a note that `_clean_note` leaves alone, so
  every honest validator, and the leader's own boundary, refuses the round. A
  strip after the cut would remove it. `KeptFindingsPassTheGate` shows that
  nothing else in a kept finding has this flaw, and `HonestAnswersAgree` what it
  costs: validators that fetched and answered as an honest leader did agree with
  it exactly when none of the leader's notes is cut so.

Two more were met while modelling and have no run of their own.

* `README.md:252` and `:28` say the panel is never convened once a hard fact is
  present, duplicates included. The registries are read after the round, so a
  duplicate does not spare the panel. `SkippingIsHarmless` shows this costs a
  model call, not a verdict.
* The docstring of `_code_indicators` (948) refuses sums over part of the
  record; examined invoices in another currency are left out of the sum and
  AMOUNT_INFLATED is decided on the rest.

One consequence worth knowing is not contradicted anywhere: a replayed test
keeps the incident date of its source and is judged by its own registration
date (`_test_ctx`), so once the reporting window of the incident is over it is
turned away as late notice, and an attack expected NOT_VALID passes whatever
the target version's other rules are.

## 4. What is proved

Checked by TLAPS with no assumption beyond the `ASSUME`s of the modules. They
type the constants, say that a policy asks for at least one document
(`DefinitionsAskForEvidence`) and no more than it admits (`BoundsAreOrdered`),
both checked by `_parse_definition`, that a claim has at least one document
(in `Context`), and that the set of validators is finite. Of a panel's answer
`TasksAreAnswers` says that its quotes and documents are sequences of words, that
the eligible ids are distinct documents of the record (one row per document),
and that the vocabulary has an undecided state, which is not the state that must
be quoted (`CRITERION_STATES` and its companions). The caps that bound
an instance (`MaxClaims`, `MaxTime`, `MaxRotations` and the like) are any
number, so the theorems hold of behaviours of any length. One bound is part of
`Next` itself: a call of `EvidenceAdmission` has at most one entry more than the
policy lets a claim hold, and `LoopIsExact` speaks of such calls; a longer one would
repeat a document or overrun the maximum.

Proof modules build on one another: `ClaimLife_proofs` on `ClaimLedger_proofs`,
`AdversarialTests_proofs` on both.

### The policy register (first part of `ClaimLedger_proofs`)

* `PolicyTypeCorrect`: `PolicySpec => []PolicyTypeOK`.
* `SuccessionCorrect`: `PolicySpec => []SingleLineOfSuccession`. The property is
  not inductive by itself: it compares creation dates with a clock it does not
  mention, and it needs to know that the *latest* version is never SUPERSEDED,
  or a revoked-then-published head could have a superseded version without a
  successor. `SuccessionSupport` adds both facts.
* `HistoryGoesForward`: `PolicySpec => VersionsOnlyClose`, the action property
  that a stored version only ever closes, from the same invariant.

### The claim ledger (`ClaimLedger_proofs`)

* `TypeCorrect`: `Spec => []TypeOK`.
* `RegistrySupported`: `Spec => []RegistrySupport`, the inductive invariant
  described next.
* `NoSharedDocument`: `Spec => []OneConsumablePerDocument`, for any number of
  accounts, claims, documents, versions and rounds. The strengthening is
  `RegistrySupport`, five facts that TLC also checks (`editions_retried`):
  commitment numbers grow along a list and never pass the counter
  (`SequencesGrow`), no two claims own the same number (`SequencesAreOwned`), a
  receipt quotes documents its claim still holds (`ReceiptsQuote`), a registry
  entry is a commitment of a *judged* claim (`EntriesAreHeld`), and it is no
  later than anything a receipt examined under its key (`EntriesCover`). The
  argument: let c and d be consumable with a common key. The entry of that key
  is no later than either commitment; as neither is a later duplicate and the
  entry's claim has been judged, so cannot be a forgiven withdrawal, the entry
  belongs to c (`ConsumableHoldsEntry`) and equally to d. So c = d. That the
  entry's claim has a receipt is essential: without the
  `len(receipt_ids) == 0` test of `_registry_conflict` the proof, like the
  property, fails.

  The theorem is about one instant of the ledger. A duplicate judged before its
  original can have been consumable *earlier*, until the original is examined;
  the documentation says so, and `ConsumabilityNeverReturns` says that once
  refused it stays refused.

### What becomes of a claim (`ClaimLife_proofs`, first part)

* `RecordsStay`: `Spec => RecordsAreFinal`. Every transaction acts on at most
  one claim, and on that only while it is open (`ClaimStep`), so concluded
  claims are frozen and their receipts with them; a registry entry is replaced
  only by an earlier one (`EntryStep`).
* `RefusalIsFinal`: `Spec => ConsumabilityNeverReturns`. Of the conditions of
  `_consumable`, each can only turn against a concluded claim: its receipt is
  fixed, its version only closes (`HistoryGoesForward`'s step), the clock only
  advances, and once an earlier claim holds a key, some earlier claim holds it
  for ever (`DuplicateStays`), judged and hence not to be forgiven. Expiry
  needs `ReceiptsPast`: no receipt is dated later than the clock.
* `PromiseKept`: `Spec => KeepsPromise`. Initial states map to initial states.
  A step acts on at most one open claim; a claim consumable after it was
  consumable before or was acted on (`ConsumableBefore`), so all others stay or
  are withdrawn, and the step maps to `Withdraw`, `Refuse` or `Pay` of that
  claim, or a stutter. That the keys of a paid claim are free is the
  `NoSharedDocument` argument in the next state (`SupportSettles`).

* `AcceptanceIsTimely`: `Spec => []AcceptedWhileOpen`. Needs beside it that
  nothing is dated in the future and that an ACTIVE version was never closed
  (`VersionsDated`, `ClaimsDated`): then a version published or closed after a
  submission carries the present instant, which is no earlier.
* `RoundsCorrect`: `Spec => []RoundsAreDisciplined`. The property looks back at
  finished rounds; the strengthening says what an *open* claim waits for. It
  has rounds left, its last verdict was not terminal, after a first round it is
  admissible, while RETRYABLE its `next_retry_at` is at least a cooldown after
  its last receipt, and once PENDING again that instant has passed (`Waiting`).

### Documents and registries (`ClaimLife_proofs`, second part)

* `EvidenceStays`: `Spec => []JudgedEvidenceStays`. A step commits documents
  for at most one claim (`CommitmentStep`), and a retry's list extends the old
  one in place, relocations included (`AmendedExtends`).
* `FirstCommitterFirst`: `Spec => []FirstCommitterHolds`. New commitments are
  numbered above every older one, an entry once written stays, and the registry
  is empty for a document only while nobody holds it (`FirstInv`). That bytes
  appear once in a list (`NoRepeats`, a check of `_evidence_error`) makes "the
  number of the claim's commitment of d" well defined.

* `EarliestIsHeld`: `Spec => []EarliestCommitmentHolds`. `EntriesCover` gives
  one half; the other is that every entry is backed by a receipt which examined
  that very commitment (`EntriesAreExamined`), true when a round writes it and
  for ever after, as receipts stay. `ListWithinCount` bounds positions by the
  commitment counter (pigeonhole on the numbers of a list), and
  `RoundsCorrect` bounds the rounds.
* `BytesServeOne`: `Spec => []BytesServeOneClaimant`. A claim becomes VALID
  only by a round that examined every document and met no duplicate
  (`BecomesValid`), so each document is `Backed`: the first committer is the
  claim itself, or was withdrawn unjudged by the same claimant, or both declare
  an ownership record. None of the three can be undone (`BackedStays`): first
  committers stay, withdrawn claims are frozen, committed kinds never change.
  Two VALID claims of different claimants cannot both fall under the first two.

### The promise to consumers (`ConsumerPromise_proofs`)

* `PromiseSound`: `PromiseSpec => []DisjointGrounds`: what the promise says in
  actions amounts to the state predicate a consumer relies on, claims payable
  together rest on disjoint keys. With `PromiseKept` the ledger inherits it.

### The amendment loop (`EvidenceAdmission_proofs`)

The loop invariant is `Looped`: of the entries before the index, no two are of
one document and none relabels a committed one (`Consistent`); the committed
documents are still in place, relocated when an entry before the index named
them (`KeepsOld`); behind them stand the new documents before the index, each at
its place (`TakesNew`); and exactly those are marked `_touched`. It is stated of
lists rather than of the variables, so that its lemmas (`LoopBegins`,
`LoopRelocates`, `LoopAppends`, `LoopRejects`) say what one iteration does to it.

* `LoopIsExact`: `Spec => []LoopIsAmendment`. At the end the invariant determines
  the list element by element, and it is the amendment (`LoopAmends`); a call
  refused in the middle breaks `Consistent` and so is no acceptable amendment.
  The mark matters: an entry whose match is marked repeats an entry of the same
  call, and one whose match is not marked can only have met a committed document
  (`UnmarkedIsOld`).
* `CommittedStayDistinct`: `Spec => []CommittedDistinct`. The list returned was
  compared location by location; that it repeats no *document* is not tested by
  the code at the end and follows from the loop invariant (`DocumentsDiffer`).
* `NothingIsWithdrawn`: `Spec => NothingWithdrawn`, from `KeepsOld` at the end.

### The resolution round (`ResolutionRound_proofs`)

All five invariants of the run follow from `RoundInv`: every row is a possible
outcome of its document's fetch, the panel was skipped only when `SkipPanel` says
so and otherwise left possible findings, and a verdict is the one derived from
these. None of the five is inductive by itself, as none says what the rows can be
and what a verdict was derived from.

* `PartialIsFinal`: `Spec => []PartialReadingsAreFinal`. A fact found on some
  documents stays found, and one decided on all its documents has no more to
  learn (`PerDocumentFinal`); a comparison of amounts is decided only when the
  kinds it counts were read whole, and then a fuller reading counts the same
  (`CountedFinal`).
* `SkippingHarmless`: `Spec => []SkippingIsHarmless`. Unless every document was
  examined and no hard fact was found, the panel does not enter the verdict
  (`PanelMatters`), and those are the rounds that skip it.
* `LedgerRangeKept`: `Spec => []VerdictInLedgerRange`: for any record, not only
  those of the instance, the verdict is one `ClaimLedger` allows its rounds. The
  ledger's theorems therefore hold of the rounds as the code derives them.
* `ValidIsComplete`: `Spec => []ValidLeavesNothingOpen`; the quote a satisfied
  criterion carries comes from the gate's condition on answers (`AnswersTyped`).
* `ReasonsExplain`: `Spec => []ReasonsExplainTheVerdict`. The codes are collected
  apart from the precedence of the verdict; `NoReasonIff` and `ReasonNames` say
  when a code is there, and each grade of the precedence is matched with one.

### Grounding a panel's answer (`PanelGrounding_proofs`)

The four invariants are about loops over the tokens of a quote, the words of a
document and the eligible ids. The loops are recursive functions of the position.
That such a function exists and is the only one is proved once (`Iterates`,
`IteratesOnce`), and from it what each loop's definition means step by step
(`SearchIs`, `CharactersIs`, `PickedIs`). Whatever is then true at every
position follows by collecting the positions at which it is true (`Counting`:
a set that holds 0 and, with a number, the next one, holds them all).

* `SearchExact`, the lemma behind two of the theorems: the search succeeds
  exactly when the quote is `Placed`. If it is placed, the search never passes
  the place of a fragment still to come: the first occurrence of a fragment is
  no later than its place, and what follows is beyond that (`PlacedIsFound`).
  If the search succeeds, the places it found are in order, as the position only
  grows (`FoundIsPlaced`).
* `GroundQuoteIs` says what one quote becomes: nothing, if it is too short or
  held nowhere, and otherwise its cut text with one of its holders, the cited one
  if it is among them. `CutType` puts the cut text within `QUOTE_CAP`.
* The inductive invariant is `GroundingInv` (theorem `GroundingInvariant`): a
  kept quote is what some quote read so far becomes (`KeptAreGrounded`); what a
  quote read so far becomes is nothing or kept, or else the list was full
  *before the last quote was read* (`NoneIsLost`); a finding is the one concluded
  from these. The strict comparison in `NoneIsLost` is what
  `CorrectCitationsStand` needs: an answer of no more than `MAX_QUOTES` quotes,
  repeated ones included, never loses one to a full list.
* `SearchCorrect`: `Spec => []SearchIsExact`.
* `KeptPass`: `Spec => []KeptFindingsPassTheGate`. `InOrderIs` says that the ids
  of a finding are distinct, exactly the eligible ones named or quoted, and that
  the gate's filter returns them unchanged; quotes pass by `KeptQuoteIs`.
* `CitationsStand`: `Spec => []CorrectCitationsStand`. Each quote is kept under
  the document it cites, so the documents quoted are those cited and satisfy the
  same rule.
* `SupportedKept`: `Spec => []SupportedQuotesAreKept`.

### Consensus (`ConsensusRound_proofs`)

Nothing is assumed of `Deviations`: leaders may return anything at all. The
invariant, `ConsensusInv`, says that every vote to agree is one the rule allows,
cast on what the leader returned by a node that derived its own round of the
subject (`BallotsCast`), and that an outcome has a majority behind it and is
what the boundary makes of the leader's result (`OutcomeFounded`). A majority
has an agreeing member (`SomeoneAgreed`, from the finiteness of `Validators`).

* `BoundaryRefusesNothing`: `Spec => []NeverRefused`. An agreeing validator
  passed the payload through its own gate, and what passes with bytes passes
  without (`GateWithoutTexts`).
* `FailuresAreShared`: `Spec => []ErrorsAreShared`.
* `QuotesWereSeen`: `Spec => []RecordedQuotesWereSeen`: with bytes, the gate
  searches every quote (`GateSeesQuotes`), and agreeing rows are equal.
* `VerdictIsEveryones`: `Spec => []RecordedVerdictIsEveryones`. The verdict reads
  of a payload its rows, facts, markers, panel state and the state of each
  finding (`VerdictReads`), never its quotes (`DeriveByStates`), and the decision
  fields compare all of these. This is the claim of `docs/CONSENSUS.md` that
  every field the verdict reads is compared or computed from compared fields.
* `HonestRoundsAgree`: `Spec => []HonestAnswersAgree`. Validators that fetched and
  answered as an honest leader did agree with it exactly when the gate takes the
  leader's notes (`NotesStand`); their own notes and quotes do not count. The
  longest argument: a payload a node derives passes every check of the gate, the
  one on notes aside (`HonestPassesGate`), and only an answer of the panel has a
  note (`NoteOfCode`).
  The gate recomputes plan and facts on the record *as the payload states it*,
  which differs from the subject in the markers of documents nobody examined;
  the `Alike` lemmas show that nothing the gate computes looks at those.

### The test engine (`AdversarialTests_proofs`)

* `EngineAddsNothing`: `EngineSpec => Spec`. Every step of the engine is a step
  of the ledger or leaves it alone, so each theorem above holds beside it, among
  them `TestsRecordNothing`: `EngineSpec => []EarliestCommitmentHolds`.
* `TestsCorrect`: `EngineSpec => []TestTypeOK`, and `ResultsStay`:
  `EngineSpec => ResultsAreFinal`.
* `CapacityHolds`: `EngineSpec => []WithinCapacity`. The property counts the
  tests of the versions that exist; a version published later would start with
  an unknown count, so `CapacityInv` counts those of every pair of numbers.
* `TestsMeetTheRegistries`: `EngineSpec => []TestsMeetWhatClaimsMeet`. A test has
  no commitment number to compare. What makes the comparison superfluous is
  `RegistrySupport`: the claim behind a recorded number has been judged, so it
  is never forgiven, and its commitment is no later than the counter, hence
  earlier than anything a claim would commit now (`FreshDocument`).

### What is only model-checked

* `PendingIsAnswered`, a liveness property: TLAPS proves neither liveness under
  fairness nor ENABLED.

## 5. What is not modelled, and the plan

Left out for good: parsing and validation of definitions, texts, dates and URLs
(string algorithms without state; a model would be a second parser), the text
of the prompt and its sections, the aliases of keys the answer parser accepts
and the splitting of text into words, the JSON shape and length limits of a
payload, paging and statistics views (they change nothing), the scripts and
fixtures. The network's rotation and majority, the model and the web are
external: the models say what they may return, not how.

Left to do:

* a fairness argument for `ConsensusRound`, which ends today in "undetermined"
  when the network gives up and leaves the retry to the claim ledger's
  `FairSpec`.
