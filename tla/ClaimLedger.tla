----------------------------- MODULE ClaimLedger -----------------------------
(***************************************************************************)
(* The claims side of the InsureShield contract: submit_claim,             *)
(* resolve_claim, retry_claim and cancel_claim over the claims, their      *)
(* receipts and the two duplicate registries, beside the policy register   *)
(* of module PolicyVersions.  Every transaction is atomic, the consensus   *)
(* round of a resolution included: a call that fails, or a round the       *)
(* validators do not ratify, changes nothing.                              *)
(*                                                                         *)
(* A claim's id is its index in `claims` and a receipt's id its index in   *)
(* the claim's `receipts`; 0 stands for an absent registry value.          *)
(***************************************************************************)
EXTENDS PolicyVersions, Evidence, RoundOutcome, FiniteSets

CONSTANTS
    References,     \* claim_reference values
    Numbers,        \* issuer and number of a structured document, normalised
    Content,        \* what the bytes of each document say
    MAX_ROUNDS,     \* the first resolution plus the retries (3 in the code)
    MAX_CLAIMS_PER_VERSION,     \* 5000 in the code
    CallEntries,    \* bound: evidence entries the explored callers pass
    AdmissionOutcomes,  \* bound: answers of _admission_rejections explored
    MaxEntries,     \* bound: new documents in one call
    MaxClaims       \* bound: submit_claim calls explored

(* Bytes are a structured document of one kind, some other text, or cannot *)
(* be examined under any kind (not UTF-8, empty, above the byte cap).      *)
ContentTypes == StructuredKinds \union {"TEXT", "UNREADABLE"}

ASSUME LedgerConstants ==
    /\ Content \in [Documents -> [type: ContentTypes, number: Numbers]]
    /\ CallEntries \subseteq Entry
    /\ AdmissionOutcomes \subseteq BOOLEAN
    /\ MAX_ROUNDS \in Nat \ {0}
    /\ MAX_CLAIMS_PER_VERSION \in Nat
    /\ MaxEntries \in Nat
    /\ MaxClaims \in Nat

ASSUME DefinitionsAskForEvidence ==
    \A d \in Definitions : d.minimum_evidence > 0

VARIABLES
    claims,
    evidence_registry,  \* sha256 -> the claim that first committed it
    document_registry,  \* document key -> earliest examined commitment
    commitment_count    \* the last committed_seq given out

ledgerVars == <<claims, evidence_registry, document_registry, commitment_count>>
vars == <<policyVars, ledgerVars>>

-------------------------------------------------------------------------------
ClaimStatus == {"PENDING", "RETRYABLE", "RESOLVED", "CANCELLED"}

NoClaim == 0

Receipt == [verdict: Verdicts, created_at: Nat,
            evidence: Seq(EvidenceItem), examined: SUBSET Nat]

Claim == [policy: Nat, version: Nat,
          definition_hash: Nat \X Nat \X Accounts \X Definitions,
          claimant: Accounts, claim_reference: References,
          admissible: BOOLEAN, submitted_at: Nat,
          evidence: Seq(EvidenceItem), receipts: Seq(Receipt),
          status: ClaimStatus, verdict: Verdicts \union {""},
          retry_count: Nat, next_retry_at: Nat, resolved_at: Nat]

\* The same issuer and number may name both an invoice and an estimate.
DocumentKeys == StructuredKinds \X Numbers

RegistryEntry == [seq: Nat, claim: Nat]
NoEntry == [seq |-> 0, claim |-> NoClaim]

TypeOK ==
    /\ PolicyTypeOK
    /\ claims \in Seq(Claim)
    /\ \A c \in DOMAIN claims :
          /\ claims[c].policy \in DOMAIN policies
          /\ claims[c].version \in DOMAIN policies[claims[c].policy]
    /\ evidence_registry \in [Documents -> {NoClaim} \union DOMAIN claims]
    /\ document_registry \in [DocumentKeys -> RegistryEntry]
    /\ commitment_count \in Nat

-------------------------------------------------------------------------------
VersionOf(claim) == policies[claim.policy][claim.version]

LastReceipt(claim) == claim.receipts[Len(claim.receipts)]

\* A structured kind whose bytes do not follow its schema is UNPARSEABLE.
Readable(item) ==
    /\ Content[item.sha256].type # "UNREADABLE"
    /\ item.kind \in StructuredKinds => Content[item.sha256].type = item.kind

\* The structured documents of a record yield facts once they are examined.
Facts(items, examined) == {i \in examined : items[i].kind \in StructuredKinds}

Key(item) == <<item.kind, Content[item.sha256].number>>

First(indices) == CHOOSE i \in indices : \A j \in indices : i <= j

-------------------------------------------------------------------------------
(* The registries.                                                         *)

\* Mutant: the latest writer takes the document over.
Registered_LastWriter(registry, items, c) ==
    [d \in Documents |->
        IF \E i \in DOMAIN items : items[i].sha256 = d THEN c ELSE registry[d]]

\* Mutant: the id is read after the counter has moved on.
Registered_NextId(registry, items, c) ==
    [d \in Documents |->
        IF registry[d] = NoClaim /\ \E i \in DOMAIN items : items[i].sha256 = d
        THEN c + 1 ELSE registry[d]]

\* _register_items: the first writer of a document keeps it.
Registered(registry, items, c) ==
    [d \in Documents |->
        IF registry[d] = NoClaim /\ \E i \in DOMAIN items : items[i].sha256 = d
        THEN c ELSE registry[d]]

\* Mutant: the first examination of a key keeps it.
Recorded_FirstWriter(registry, items, facts, c) ==
    [k \in DocumentKeys |->
        LET carriers == {i \in facts : Key(items[i]) = k}
        IN IF carriers # {} /\ registry[k] = NoEntry
           THEN [seq |-> items[First(carriers)].committed_seq, claim |-> c]
           ELSE registry[k]]

\* A document number goes to the earliest commitment that carried it.
Recorded(registry, items, facts, c) ==
    [k \in DocumentKeys |->
        LET carriers == {i \in facts : Key(items[i]) = k}
            seq == items[First(carriers)].committed_seq
        IN IF /\ carriers # {}
              /\ registry[k] = NoEntry \/ seq < registry[k].seq
           THEN [seq |-> seq, claim |-> c]
           ELSE registry[k]]

\* Mutant: a claim cancelled after a round is forgiven too.
WithdrawnUnjudged_Whenever(claim, claimant) ==
    /\ claim.status = "CANCELLED"
    /\ claim.claimant = claimant

\* Withdrawn by its claimant before any round judged it.
WithdrawnUnjudged(claim, claimant) ==
    /\ claim.status = "CANCELLED"
    /\ claim.claimant = claimant
    /\ Len(claim.receipts) = 0

RegistryConflict(first, c) ==
    /\ first \notin {NoClaim, c}
    /\ ~WithdrawnUnjudged(claims[first], claims[c].claimant)

CommittedAs(claim, sha256, kind) ==
    \E i \in DOMAIN claim.evidence :
        claim.evidence[i].sha256 = sha256 /\ claim.evidence[i].kind = kind

\* Mutant: the kind of the first commitment is not looked at.
DuplicateEvidence_OwnKind(item, c) ==
    /\ RegistryConflict(evidence_registry[item.sha256], c)
    /\ item.kind # "OWNERSHIP_RECORD"

DuplicateEvidence(item, c) ==
    LET first == evidence_registry[item.sha256]
    IN /\ RegistryConflict(first, c)
       /\ ~ /\ item.kind = "OWNERSHIP_RECORD"
            /\ CommittedAs(claims[first], item.sha256, "OWNERSHIP_RECORD")

DuplicateDocument(item, c) ==
    LET entry == document_registry[Key(item)]
    IN /\ entry # NoEntry
       /\ entry.seq < item.committed_seq
       /\ RegistryConflict(entry.claim, c)

RegistryHit(c, items, examined) ==
    \/ \E i \in examined : DuplicateEvidence(items[i], c)
    \/ \E i \in Facts(items, examined) : DuplicateDocument(items[i], c)

-------------------------------------------------------------------------------
(* The transactions.                                                       *)

LedgerInit ==
    /\ claims = <<>>
    /\ evidence_registry = [d \in Documents |-> NoClaim]
    /\ document_registry = [k \in DocumentKeys |-> NoEntry]
    /\ commitment_count = 0

Batches(least) == UNION {[1..n -> CallEntries] : n \in least..MaxEntries}

NewClaim(sender, p, reference, admissible, items) ==
    [policy |-> p, version |-> PolicyHead(p),
     definition_hash |-> DefinitionHash(p, PolicyHead(p)),
     claimant |-> sender, claim_reference |-> reference,
     admissible |-> admissible, submitted_at |-> now,
     evidence |-> items, receipts |-> <<>>,
     status |-> "PENDING", verdict |-> "",
     retry_count |-> 0, next_retry_at |-> 0, resolved_at |-> Never]

ReferenceUnused(sender, p, reference) ==
    \A c \in DOMAIN claims :
        ~ /\ claims[c].policy = p
          /\ claims[c].claimant = sender
          /\ claims[c].claim_reference = reference

BoundTo(p, v) ==
    {c \in DOMAIN claims : claims[c].policy = p /\ claims[c].version = v}

\* Mutant: a closed version still takes claims.
SubmitClaim_Closed(sender, p, reference, admissible, batch) ==
    LET c == Len(claims) + 1
        items == Committed(batch, commitment_count)
    IN /\ Len(claims) < MaxClaims
       /\ Cardinality(BoundTo(p, PolicyHead(p))) < MAX_CLAIMS_PER_VERSION
       /\ ReferenceUnused(sender, p, reference)
       /\ Acceptable(items, Latest(p).definition, TRUE)
       /\ claims' = Append(claims,
                           NewClaim(sender, p, reference, admissible, items))
       /\ commitment_count' = commitment_count + Len(batch)
       /\ evidence_registry' = Registered(evidence_registry, items, c)
       /\ UNCHANGED <<policyVars, document_registry>>

(* `admissible` says whether the declared amount and dates are within the  *)
(* policy's limits: they never change, so neither does the answer.         *)
SubmitClaim(sender, p, reference, admissible, batch) ==
    LET c == Len(claims) + 1
        items == Committed(batch, commitment_count)
    IN /\ Len(claims) < MaxClaims
       /\ Latest(p).status = "ACTIVE"
       /\ Cardinality(BoundTo(p, PolicyHead(p))) < MAX_CLAIMS_PER_VERSION
       /\ ReferenceUnused(sender, p, reference)
       /\ Acceptable(items, Latest(p).definition, TRUE)
       /\ claims' = Append(claims,
                           NewClaim(sender, p, reference, admissible, items))
       /\ commitment_count' = commitment_count + Len(batch)
       /\ evidence_registry' = Registered(evidence_registry, items, c)
       /\ UNCHANGED <<policyVars, document_registry>>

\* The receipt is stored and the claim concludes or waits out the cooldown.
Judged(claim, verdict, examined) ==
    LET receipts == Append(claim.receipts,
                           [verdict |-> verdict, created_at |-> now,
                            evidence |-> claim.evidence, examined |-> examined])
        terminal == verdict \in TerminalVerdicts \/ Len(receipts) >= MAX_ROUNDS
        cooldown == VersionOf(claim).definition.retry_cooldown
    IN [claim EXCEPT
          !.receipts = receipts,
          !.verdict = verdict,
          !.status = IF terminal THEN "RESOLVED" ELSE "RETRYABLE",
          !.resolved_at = IF terminal THEN now ELSE claim.resolved_at,
          !.next_retry_at = IF terminal THEN claim.next_retry_at
                                        ELSE now + cooldown]

\* Mutant: an inadmissible claim makes resolve_claim revert.
RejectAtAdmission_Reverts(c) == FALSE

RejectAtAdmission(c) ==
    /\ claims[c].status = "PENDING"
    /\ ~claims[c].admissible
    /\ claims' = [claims EXCEPT ![c] = Judged(claims[c], "REJECTED", {})]
    /\ UNCHANGED <<policyVars, evidence_registry, document_registry,
                   commitment_count>>

(* The round examined some readable documents and derives `base` from      *)
(* them; the registries, read before this round writes to them, may turn   *)
(* it into SUSPICIOUS.                                                     *)
AdjudicateRound(c) ==
    LET items == claims[c].evidence
        readable == {i \in DOMAIN items : Readable(items[i])}
    IN /\ claims[c].status = "PENDING"
       /\ claims[c].admissible
       /\ \E examined \in SUBSET readable :
          \E base \in RoundVerdicts(DOMAIN items, readable, examined) :
             LET verdict == IF RegistryHit(c, items, examined)
                            THEN "SUSPICIOUS" ELSE base
             IN /\ claims' = [claims EXCEPT ![c] = Judged(claims[c], verdict, examined)]
                /\ document_registry' =
                      Recorded(document_registry, items,
                               Facts(items, examined), c)
       /\ UNCHANGED <<policyVars, evidence_registry, commitment_count>>

\* Permissionless: no sender.
ResolveClaim(c) == RejectAtAdmission(c) \/ AdjudicateRound(c)

\* New locations for committed documents, of the same kind.
Moves(items) ==
    UNION {{moves \in [moved -> Urls] :
              \A i \in moved : \E e \in CallEntries :
                  /\ e.sha256 = items[i].sha256
                  /\ e.kind = items[i].kind
                  /\ e.url = moves[i]} : moved \in SUBSET DOMAIN items}

Retried(claim, items) ==
    [claim EXCEPT !.evidence = items,
                  !.retry_count = claim.retry_count + 1,
                  !.status = "PENDING"]

\* Mutant: the cooldown is not awaited.
RetryClaim_AtOnce(sender, c, moves, batch) ==
    LET items == Amended(claims[c].evidence, moves, batch, commitment_count)
    IN /\ sender = claims[c].claimant
       /\ claims[c].status = "RETRYABLE"
       /\ Acceptable(items, VersionOf(claims[c]).definition, FALSE)
       /\ claims' = [claims EXCEPT ![c] = Retried(claims[c], items)]
       /\ commitment_count' = commitment_count + Len(batch)
       /\ evidence_registry' = Registered(evidence_registry, items, c)
       /\ UNCHANGED <<policyVars, document_registry>>

RetryClaim(sender, c, moves, batch) ==
    LET items == Amended(claims[c].evidence, moves, batch, commitment_count)
    IN /\ sender = claims[c].claimant
       /\ claims[c].status = "RETRYABLE"
       /\ now >= claims[c].next_retry_at
       /\ Acceptable(items, VersionOf(claims[c]).definition, FALSE)
       /\ claims' = [claims EXCEPT ![c] = Retried(claims[c], items)]
       /\ commitment_count' = commitment_count + Len(batch)
       /\ evidence_registry' = Registered(evidence_registry, items, c)
       /\ UNCHANGED <<policyVars, document_registry>>

Cancelled(claim) ==
    [claim EXCEPT !.status = "CANCELLED", !.resolved_at = now]

\* Mutant: a terminal claim can be withdrawn.
CancelClaim_Terminal(sender, c) ==
    /\ sender = claims[c].claimant
    /\ claims' = [claims EXCEPT ![c] = Cancelled(claims[c])]
    /\ UNCHANGED <<policyVars, evidence_registry, document_registry,
                   commitment_count>>

CancelClaim(sender, c) ==
    /\ sender = claims[c].claimant
    /\ claims[c].status \in {"PENDING", "RETRYABLE"}
    /\ claims' = [claims EXCEPT ![c] = Cancelled(claims[c])]
    /\ UNCHANGED <<policyVars, evidence_registry, document_registry,
                   commitment_count>>

Init == PolicyInit /\ LedgerInit

ClaimNext ==
    \/ \E s \in Accounts, p \in DOMAIN policies, r \in References,
          ok \in AdmissionOutcomes, batch \in Batches(1) : SubmitClaim(s, p, r, ok, batch)
    \/ \E c \in DOMAIN claims :
          \/ ResolveClaim(c)
          \/ \E s \in Accounts, moves \in Moves(claims[c].evidence),
                batch \in Batches(0) : RetryClaim(s, c, moves, batch)
          \/ \E s \in Accounts : CancelClaim(s, c)

Next == (PolicyNext /\ UNCHANGED ledgerVars) \/ ClaimNext

Spec == Init /\ [][Next]_vars

(* resolve_claim is permissionless and nothing disables it while a claim   *)
(* is PENDING, so someone can always try again until a round is ratified.  *)
Fairness ==
    \A c \in 1..MaxClaims : WF_vars(c \in DOMAIN claims /\ ResolveClaim(c))

FairSpec == Spec /\ Fairness

-------------------------------------------------------------------------------
(* The consumer's view, at an instant of the caller's choice.              *)

Expired(receipt, pv, at) ==
    at > receipt.created_at + pv.definition.receipt_validity

Freshness(claim, at) ==
    LET receipt == LastReceipt(claim)
        pv == VersionOf(claim)
    IN IF claim.receipts = <<>> \/ claim.status = "CANCELLED" THEN "UNKNOWN"
       ELSE IF at < receipt.created_at THEN "UNKNOWN"
       ELSE IF receipt.verdict = "UNAVAILABLE" THEN "BLOCKED"
       ELSE IF pv.status = "REVOKED" \/ Expired(receipt, pv, at) THEN "STALE"
       ELSE "RELIABLE"

\* Mutant: consumability trusts the verdict of the resolution.
LaterDuplicate_Unchecked(c) == FALSE

LaterDuplicate(c) ==
    /\ claims[c].receipts # <<>>
    /\ LET receipt == LastReceipt(claims[c])
       IN \E i \in Facts(receipt.evidence, receipt.examined) :
             DuplicateDocument(receipt.evidence[i], c)

Consumable(c, at) ==
    /\ claims[c].status = "RESOLVED"
    /\ claims[c].verdict = "VALID"
    /\ ~LaterDuplicate(c)
    /\ VersionOf(claims[c]).status # "REVOKED"
    /\ claims[c].definition_hash =
          DefinitionHash(claims[c].policy, claims[c].version)
    /\ Freshness(claims[c], at) = "RELIABLE"
-------------------------------------------------------------------------------
(* Properties.                                                             *)

\* The document keys the receipt a consumer reads vouches for.
CarriedKeys(claim) ==
    LET receipt == LastReceipt(claim)
    IN {Key(receipt.evidence[i]) : i \in Facts(receipt.evidence, receipt.examined)}

(* However resolutions of an original and its duplicates interleave with   *)
(* submissions, cancellations and retries, two claims are never consumable *)
(* together on the strength of the same issuer and document number: this   *)
(* is what _registry_findings and, for a duplicate judged before its       *)
(* original, _later_duplicate_of are for.                                  *)
OneConsumablePerDocument ==
    \A c, d \in DOMAIN claims : \A at1, at2 \in Time :
        c # d /\ Consumable(c, at1) /\ Consumable(d, at2)
            => CarriedKeys(claims[c]) \cap CarriedKeys(claims[d]) = {}

\* Every reading of a document with key k by some round of some claim.
Examinations(k) ==
    {e \in [claim: DOMAIN claims, round: 1..MAX_ROUNDS, item: 1..commitment_count] :
        /\ e.round \in DOMAIN claims[e.claim].receipts
        /\ LET receipt == claims[e.claim].receipts[e.round]
           IN /\ e.item \in Facts(receipt.evidence, receipt.examined)
              /\ Key(receipt.evidence[e.item]) = k}

CommittedSeq(e) ==
    claims[e.claim].receipts[e.round].evidence[e.item].committed_seq

(* document_registry holds, for every key, exactly the earliest commitment *)
(* any round has examined: which claim is the duplicate follows commitment *)
(* order, never the order in which claims happen to be resolved.           *)
EarliestCommitmentHolds ==
    \A k \in DocumentKeys :
        LET entry == document_registry[k]
        IN /\ entry = NoEntry <=> Examinations(k) = {}
           /\ \A e \in Examinations(k) : entry.seq <= CommittedSeq(e)
           /\ entry # NoEntry =>
                 \E e \in Examinations(k) :
                    e.claim = entry.claim /\ CommittedSeq(e) = entry.seq

(* What makes OneConsumablePerDocument inductive.  Every commitment has a  *)
(* sequence number of its own, growing along each list and never above the *)
(* counter; a receipt quotes documents its claim still holds; a registry   *)
(* entry is a commitment of a claim that has been judged; and it is no     *)
(* later than anything a receipt examined under its key.                   *)

SequencesGrow ==
    \A c \in DOMAIN claims : \A i, j \in DOMAIN claims[c].evidence :
        /\ claims[c].evidence[i].committed_seq \in 1..commitment_count
        /\ i < j => claims[c].evidence[i].committed_seq
                      < claims[c].evidence[j].committed_seq

SequencesAreOwned ==
    \A c, d \in DOMAIN claims :
        \A i \in DOMAIN claims[c].evidence, j \in DOMAIN claims[d].evidence :
            claims[c].evidence[i].committed_seq = claims[d].evidence[j].committed_seq
                => c = d

ReceiptsQuote ==
    \A c \in DOMAIN claims : \A n \in DOMAIN claims[c].receipts :
        LET receipt == claims[c].receipts[n]
        IN \A i \in receipt.examined :
              /\ i \in DOMAIN receipt.evidence
              /\ i \in DOMAIN claims[c].evidence
              /\ receipt.evidence[i].committed_seq
                    = claims[c].evidence[i].committed_seq

EntriesAreHeld ==
    \A k \in DocumentKeys :
        LET entry == document_registry[k]
        IN entry # NoEntry =>
              /\ entry.claim \in DOMAIN claims
              /\ claims[entry.claim].receipts # <<>>
              /\ \E i \in DOMAIN claims[entry.claim].evidence :
                    claims[entry.claim].evidence[i].committed_seq = entry.seq

Covers(registry, receipt) ==
    \A i \in Facts(receipt.evidence, receipt.examined) :
        LET entry == registry[Key(receipt.evidence[i])]
        IN entry # NoEntry /\ entry.seq <= receipt.evidence[i].committed_seq

EntriesCover ==
    \A c \in DOMAIN claims : \A n \in DOMAIN claims[c].receipts :
        Covers(document_registry, claims[c].receipts[n])

RegistrySupport ==
    /\ SequencesGrow
    /\ SequencesAreOwned
    /\ ReceiptsQuote
    /\ EntriesAreHeld
    /\ EntriesCover

(* evidence_registry names, for every document, the claim whose commitment *)
(* of it carries the smallest sequence number, through retries that add    *)
(* documents late and claims that are cancelled.                           *)
FirstCommitterHolds ==
    \A d \in Documents :
        LET holders == {c \in DOMAIN claims :
                           \E i \in DOMAIN claims[c].evidence :
                              claims[c].evidence[i].sha256 = d}
            seq(c) == LET i == CHOOSE j \in DOMAIN claims[c].evidence :
                                   claims[c].evidence[j].sha256 = d
                      IN claims[c].evidence[i].committed_seq
        IN IF holders = {} THEN evidence_registry[d] = NoClaim
           ELSE /\ evidence_registry[d] \in holders
                /\ \A c \in holders : seq(evidence_registry[d]) <= seq(c)

VouchesFor(c, sha256) ==
    /\ claims[c].verdict = "VALID"
    /\ \E i \in DOMAIN claims[c].evidence : claims[c].evidence[i].sha256 = sha256

(* The same bytes never make two claimants' claims VALID, unless the first *)
(* commitment of them declared an ownership record and one of the two does *)
(* so too: relabelling a reused invoice does not help, nor does cancelling *)
(* the claim that committed it first.                                      *)
BytesServeOneClaimant ==
    \A c, d \in DOMAIN claims : \A sha256 \in Documents :
        /\ claims[c].claimant # claims[d].claimant
        /\ VouchesFor(c, sha256) /\ VouchesFor(d, sha256)
        => /\ CommittedAs(claims[evidence_registry[sha256]], sha256,
                          "OWNERSHIP_RECORD")
           /\ \E e \in {c, d} : CommittedAs(claims[e], sha256, "OWNERSHIP_RECORD")

(* docs/SECURITY.md: a claimant's own claim withdrawn before any round     *)
(* judged it does not count against them; "their own resolved claim does   *)
(* (double-dipping)".  So two VALID claims of one claimant share bytes     *)
(* only as an ownership record.                                            *)
NoDoubleDipping ==
    \A c, d \in DOMAIN claims : \A sha256 \in Documents :
        /\ c # d /\ claims[c].claimant = claims[d].claimant
        /\ VouchesFor(c, sha256) /\ VouchesFor(d, sha256)
        => \A e \in {c, d} : CommittedAs(claims[e], sha256, "OWNERSHIP_RECORD")

(* Rounds are bounded and spaced: no more than MAX_ROUNDS receipts, none   *)
(* after a terminal verdict, each at least the policy's cooldown after the *)
(* previous one, and admission can only reject the first round.            *)
RoundsAreDisciplined ==
    \A c \in DOMAIN claims :
        LET receipts == claims[c].receipts
            cooldown == VersionOf(claims[c]).definition.retry_cooldown
        IN /\ Len(receipts) <= MAX_ROUNDS
           /\ Len(receipts) > 1 => claims[c].admissible
           /\ \A n \in 1..Len(receipts) - 1 :
                 /\ receipts[n].verdict \notin TerminalVerdicts
                 /\ receipts[n+1].created_at >= receipts[n].created_at + cooldown

SameDocument(a, b) ==
    a.kind = b.kind /\ a.sha256 = b.sha256 /\ a.committed_seq = b.committed_seq

Extends(longer, shorter) ==
    \A i \in DOMAIN shorter :
        i \in DOMAIN longer /\ SameDocument(longer[i], shorter[i])

(* What a round judged stays in the claim: the evidence of every receipt   *)
(* is carried, in place, by each later receipt and by the claim, and the   *)
(* sequence numbers grow along the list.                                   *)
JudgedEvidenceStays ==
    \A c \in DOMAIN claims :
        LET receipts == claims[c].receipts
            evidence == claims[c].evidence
        IN /\ \A n \in DOMAIN receipts :
                 /\ Extends(evidence, receipts[n].evidence)
                 /\ \A m \in 1..n :
                       Extends(receipts[n].evidence, receipts[m].evidence)
           /\ \A i, j \in DOMAIN evidence :
                 i < j => evidence[i].committed_seq < evidence[j].committed_seq

(* A claim was accepted while the version it is bound to was the policy's  *)
(* newest and open: no later version existed, and the version was closed,  *)
(* if at all, no earlier than the submission.                              *)
AcceptedWhileOpen ==
    \A c \in DOMAIN claims :
        LET versions == policies[claims[c].policy]
            pv == VersionOf(claims[c])
        IN /\ pv.created_at <= claims[c].submitted_at
           /\ pv.closed_at # Never => claims[c].submitted_at <= pv.closed_at
           /\ \A w \in DOMAIN versions :
                 w > claims[c].version =>
                     versions[w].created_at >= claims[c].submitted_at

(* Once a resolved claim is not consumable, it never becomes consumable    *)
(* again: not by the clock, not by a version change, and not because a     *)
(* still earlier commitment takes over the registry entry that made it a   *)
(* duplicate.  A consumer that refused a claim need not ask again.         *)
ConsumabilityNeverReturns ==
    [][\A c \in DOMAIN claims :
          claims[c].status = "RESOLVED" /\ ~Consumable(c, now)
              => ~Consumable(c, now)']_vars

(* Nothing recorded is rewritten: receipts only grow, a terminal claim is  *)
(* frozen, a document's first committer is never displaced, and a document *)
(* key only moves to an earlier commitment.                                *)
RecordsAreFinal ==
    [][/\ \A c \in DOMAIN claims :
             /\ \A n \in DOMAIN claims[c].receipts :
                   /\ n \in DOMAIN claims'[c].receipts
                   /\ claims'[c].receipts[n] = claims[c].receipts[n]
             /\ claims[c].status \in {"RESOLVED", "CANCELLED"} =>
                   claims'[c] = claims[c]
       /\ \A d \in Documents :
             evidence_registry[d] \in {NoClaim, evidence_registry'[d]}
       /\ \A k \in DocumentKeys :
             document_registry[k] # NoEntry =>
                 \/ document_registry'[k] = document_registry[k]
                 \/ document_registry'[k].seq < document_registry[k].seq]_vars

(* Every claim awaiting resolution is eventually judged or withdrawn.      *)
PendingIsAnswered ==
    \A c \in 1..MaxClaims :
        LET pending == c \in DOMAIN claims /\ claims[c].status = "PENDING"
        IN pending ~> ~pending
===============================================================================
