--------------------------- MODULE ClaimLife_proofs ----------------------------
(***************************************************************************)
(* Proofs about the life of a claim, for any number of claims, rounds,     *)
(* versions and ticks.  First what a step of the ledger may never do, that *)
(* the ledger implements the promise to consumers of ConsumerPromise, that *)
(* a claim was accepted while its version was open, and that its rounds    *)
(* are bounded and spaced.  Then the documents claims commit and the two   *)
(* duplicate registries: what a round judged stays in the claim, bytes     *)
(* belong to the claim that committed them first and never serve two       *)
(* claimants, and a document number belongs to the earliest commitment     *)
(* examined.                                                               *)
(***************************************************************************)
EXTENDS ClaimPromise, ClaimLedger_proofs, FiniteSetTheorems

-------------------------------------------------------------------------------
(* One step acts on at most one claim: a new one, or one that is open.     *)

ReceiptsKept(b) ==
    \/ claims'[b].receipts = claims[b].receipts
    \/ \E receipt : /\ receipt.created_at = now
                    /\ claims'[b].receipts = Append(claims[b].receipts, receipt)

ActsOn(b) ==
    /\ DOMAIN claims' \ {b} = DOMAIN claims \ {b}
    /\ \A c \in DOMAIN claims : c # b => claims'[c] = claims[c]
    /\ \/ b \notin DOMAIN claims /\ b \notin DOMAIN claims'
       \/ /\ b \notin DOMAIN claims /\ b \in DOMAIN claims'
          /\ claims'[b].status = "PENDING" /\ claims'[b].receipts = <<>>
       \/ /\ b \in DOMAIN claims /\ b \in DOMAIN claims'
          /\ claims[b].status \in {"PENDING", "RETRYABLE"}
          /\ ReceiptsKept(b)

LEMMA ReplacementActs ==
    ASSUME TypeOK, NEW b \in DOMAIN claims, NEW claim \in Claim,
           claim.policy = claims[b].policy, claim.version = claims[b].version,
           claims' = [claims EXCEPT ![b] = claim], UNCHANGED policyVars,
           claims[b].status \in {"PENDING", "RETRYABLE"},
           \/ claim.receipts = claims[b].receipts
           \/ \E receipt : /\ receipt.created_at = now
                           /\ claim.receipts = Append(claims[b].receipts, receipt)
    PROVE  ActsOn(b)
<1>1. /\ DOMAIN claims' = DOMAIN claims
      /\ claims'[b] = claim
      /\ \A c \in DOMAIN claims : c # b => claims'[c] = claims[c]
  BY ReplacedClaim
<1>2. QED
  BY <1>1 DEF ActsOn, ReceiptsKept

LEMMA JudgmentActs ==
    ASSUME TypeOK, NEW c \in DOMAIN claims, claims[c].status = "PENDING",
           NEW verdict \in Verdicts, NEW examined \in SUBSET Nat,
           claims' = [claims EXCEPT ![c] = Judged(claims[c], verdict, examined)],
           UNCHANGED policyVars
    PROVE  ActsOn(c)
<1> DEFINE judged == Judged(claims[c], verdict, examined)
           receipt == [verdict |-> verdict, created_at |-> now,
                       evidence |-> claims[c].evidence, examined |-> examined]
<1>1. /\ judged \in Claim
      /\ judged.policy = claims[c].policy /\ judged.version = claims[c].version
      /\ judged.receipts = Append(claims[c].receipts, receipt)
  BY JudgedType
<1>2. receipt.created_at = now
  OBVIOUS
<1> HIDE DEF judged, receipt
<1>3. claims' = [claims EXCEPT ![c] = judged]
  BY DEF judged
<1>4. QED
  BY <1>1, <1>2, <1>3, ReplacementActs

LEMMA ClaimStep ==
    ASSUME TypeOK, [Next]_vars
    PROVE  \E b : ActsOn(b)
<1>1. ASSUME UNCHANGED ledgerVars PROVE \E b : ActsOn(b)
  <2>1. claims' = claims /\ NoClaim \notin DOMAIN claims
    BY <1>1, ClaimType DEF ledgerVars
  <2>2. ActsOn(NoClaim)
    BY <2>1 DEF ActsOn
  <2>3. QED
    BY <2>2
<1>2. ASSUME NEW s \in Accounts, NEW p \in DOMAIN policies,
             NEW r \in References, NEW ok \in AdmissionOutcomes,
             NEW batch \in Batches(1), SubmitClaim(s, p, r, ok, batch)
      PROVE  \E b : ActsOn(b)
  <2> DEFINE b == Len(claims) + 1
             items == Committed(batch, commitment_count)
  <2>1. /\ DOMAIN claims' = 1..b
        /\ \A c \in DOMAIN claims : claims'[c] = claims[c]
        /\ claims'[b] = NewClaim(s, p, r, ok, items)
        /\ claims'[b].receipts = <<>>
    BY <1>2, Submitted
  <2>2. DOMAIN claims = 1..Len(claims) /\ Len(claims) \in Nat
    BY LenProperties DEF TypeOK
  <2>3. claims'[b].status = "PENDING"
    <3>1. NewClaim(s, p, r, ok, items).status = "PENDING"
      BY DEF NewClaim
    <3>2. QED
      BY <2>1, <3>1, Zenon
  <2>4. ActsOn(b)
    BY <2>1, <2>2, <2>3 DEF ActsOn
  <2>5. QED
    BY <2>4
<1>3. ASSUME NEW c \in DOMAIN claims, RejectAtAdmission(c) PROVE \E b : ActsOn(b)
  <2>1. "REJECTED" \in Verdicts /\ {} \in SUBSET Nat
    BY DEF Verdicts
  <2>2. QED
    BY <1>3, <2>1, JudgmentActs DEF RejectAtAdmission
<1>4. ASSUME NEW c \in DOMAIN claims, AdjudicateRound(c) PROVE \E b : ActsOn(b)
  <2>1. PICK examined \in SUBSET DOMAIN claims[c].evidence, verdict \in Verdicts :
           /\ claims' = [claims EXCEPT ![c] = Judged(claims[c], verdict, examined)]
           /\ UNCHANGED policyVars
    BY <1>4, Adjudicated
  <2>2. examined \in SUBSET Nat
    BY EvidenceType, ItemType
  <2>3. claims[c].status = "PENDING"
    BY <1>4 DEF AdjudicateRound
  <2>4. QED
    BY <2>1, <2>2, <2>3, JudgmentActs
<1>5. ASSUME NEW s \in Accounts, NEW c \in DOMAIN claims,
             NEW moves \in Moves(claims[c].evidence), NEW batch \in Batches(0),
             RetryClaim(s, c, moves, batch)
      PROVE  \E b : ActsOn(b)
  <2> DEFINE retried == Retried(claims[c],
                           Amended(claims[c].evidence, moves, batch, commitment_count))
  <2>1. /\ retried \in Claim
        /\ retried.policy = claims[c].policy /\ retried.version = claims[c].version
        /\ retried.receipts = claims[c].receipts
        /\ claims' = [claims EXCEPT ![c] = retried]
    BY <1>5, RetriedClaim
  <2>2. claims[c].status = "RETRYABLE" /\ UNCHANGED policyVars
    BY <1>5 DEF RetryClaim
  <2> HIDE DEF retried
  <2>3. QED
    BY <2>1, <2>2, ReplacementActs
<1>6. ASSUME NEW s \in Accounts, NEW c \in DOMAIN claims, CancelClaim(s, c)
      PROVE  \E b : ActsOn(b)
  <2> DEFINE cancelled == Cancelled(claims[c])
  <2>1. /\ cancelled \in Claim
        /\ cancelled.policy = claims[c].policy /\ cancelled.version = claims[c].version
        /\ cancelled.receipts = claims[c].receipts
    BY ClaimType, CancelledType
  <2>2. /\ claims' = [claims EXCEPT ![c] = cancelled]
        /\ claims[c].status \in {"PENDING", "RETRYABLE"} /\ UNCHANGED policyVars
    BY <1>6 DEF CancelClaim
  <2> HIDE DEF cancelled
  <2>3. QED
    BY <2>1, <2>2, ReplacementActs
<1>7. UNCHANGED vars => UNCHANGED ledgerVars
  BY DEF vars
<1>8. QED
  BY <1>1, <1>2, <1>3, <1>4, <1>5, <1>6, <1>7 DEF Next, ClaimNext, ResolveClaim

(* Claims stay, concluded ones as they are.                                *)
LEMMA ConcludedStays ==
    ASSUME TypeOK, [Next]_vars, NEW c \in DOMAIN claims
    PROVE  /\ c \in DOMAIN claims'
           /\ claims[c].status \in {"RESOLVED", "CANCELLED"} => claims'[c] = claims[c]
<1>1. PICK b : ActsOn(b)
  BY ClaimStep
<1>2. CASE c = b
  BY <1>1, <1>2, Zenon DEF ActsOn
<1>3. CASE c # b
  BY <1>1, <1>3 DEF ActsOn
<1>4. QED
  BY <1>2, <1>3

(* A key's entry moves only to the claim a round is judging, and only to   *)
(* an earlier commitment.                                                  *)
EntryMovesTo(c, k) ==
    /\ claims[c].status = "PENDING"
    /\ document_registry'[k].claim = c
    /\ \/ document_registry[k] = NoEntry
       \/ document_registry'[k].seq < document_registry[k].seq

LEMMA EntryStep ==
    ASSUME TypeOK, [Next]_vars, NEW k \in DocumentKeys
    PROVE  \/ document_registry'[k] = document_registry[k]
           \/ \E c \in DOMAIN claims : EntryMovesTo(c, k)
<1>1. ASSUME NEW c \in DOMAIN claims, AdjudicateRound(c)
      PROVE  document_registry'[k] = document_registry[k] \/ EntryMovesTo(c, k)
  <2> DEFINE items == claims[c].evidence
  <2>1. PICK examined \in SUBSET DOMAIN items :
           document_registry' =
              Recorded(document_registry, items, Facts(items, examined), c)
    BY <1>1, Adjudicated
  <2>2. items \in Seq(EvidenceItem)
    BY EvidenceType
  <2>3. Facts(items, examined) \in SUBSET DOMAIN items
    BY DEF Facts
  <2> HIDE DEF items
  <2>4. \/ document_registry'[k] = document_registry[k]
        \/ /\ \/ document_registry[k] = NoEntry
              \/ document_registry'[k].seq < document_registry[k].seq
           /\ \E f \in Facts(items, examined) :
                 document_registry'[k] = [seq |-> items[f].committed_seq, claim |-> c]
    BY <2>1, <2>2, <2>3, RecordedEntry
  <2>5. claims[c].status = "PENDING"
    BY <1>1 DEF AdjudicateRound
  <2>6. ASSUME NEW f, document_registry'[k] = [seq |-> items[f].committed_seq, claim |-> c]
        PROVE  document_registry'[k].claim = c
    BY <2>6
  <2>7. QED
    BY <2>4, <2>5, <2>6, Zenon DEF EntryMovesTo
<1>2. QED
  BY <1>1 DEF Next, ClaimNext, ResolveClaim, SubmitClaim, RejectAtAdmission,
              RetryClaim, CancelClaim, vars, ledgerVars

LEMMA ClockStep ==
    ASSUME TypeOK, [Next]_vars
    PROVE  /\ now \in Nat /\ now' \in Nat /\ now <= now'
           /\ [PolicyNext]_policyVars
<1>1. now \in Nat
  BY DEF TypeOK, PolicyTypeOK
<1>2. [PolicyNext]_policyVars
  BY DEF Next, ClaimNext, ResolveClaim, SubmitClaim, RejectAtAdmission,
         AdjudicateRound, RetryClaim, CancelClaim, vars
<1>3. now' = now \/ now' = now + 1
  BY <1>2 DEF PolicyNext, CreatePolicy, PublishPolicyVersion,
              RevokePolicyVersion, Tick, policyVars
<1>4. QED
  BY <1>1, <1>2, <1>3

\* No receipt is dated in the future.
ReceiptsPast ==
    \A c \in DOMAIN claims : \A n \in DOMAIN claims[c].receipts :
        claims[c].receipts[n].created_at <= now

LEMMA ReceiptsStep ==
    ASSUME TypeOK, [Next]_vars, NEW c \in DOMAIN claims
    PROVE  /\ DOMAIN claims[c].receipts \subseteq DOMAIN claims'[c].receipts
           /\ \A n \in DOMAIN claims[c].receipts :
                 claims'[c].receipts[n] = claims[c].receipts[n]
           /\ \A n \in DOMAIN claims'[c].receipts :
                 \/ n \in DOMAIN claims[c].receipts
                 \/ claims'[c].receipts[n].created_at = now
<1>1. PICK b : ActsOn(b)
  BY ClaimStep
<1>2. claims'[c] = claims[c] \/ ReceiptsKept(c)
  BY <1>1 DEF ActsOn
<1>3. claims[c].receipts \in Seq(Receipt)
  BY ClaimType DEF Claim
<1>4. ASSUME NEW receipt, receipt.created_at = now,
             claims'[c].receipts = Append(claims[c].receipts, receipt)
      PROVE  /\ DOMAIN claims[c].receipts \subseteq DOMAIN claims'[c].receipts
             /\ \A n \in DOMAIN claims[c].receipts :
                   claims'[c].receipts[n] = claims[c].receipts[n]
             /\ \A n \in DOMAIN claims'[c].receipts :
                   \/ n \in DOMAIN claims[c].receipts
                   \/ claims'[c].receipts[n].created_at = now
  <2> DEFINE old == claims[c].receipts
             new == claims'[c].receipts
  <2>1. /\ DOMAIN old = 1..Len(old) /\ Len(old) \in Nat
        /\ DOMAIN new = 1..Len(old) + 1
        /\ \A n \in 1..Len(old) : new[n] = old[n]
        /\ new[Len(old) + 1] = receipt
    <3>1. old \in Seq(Receipt \union {receipt})
      BY <1>3, LenProperties
    <3>2. QED
      BY <1>4, <3>1, AppendProperties, LenProperties
  <2> HIDE DEF old, new
  <2>2. /\ DOMAIN old \subseteq DOMAIN new
        /\ \A n \in DOMAIN old : new[n] = old[n]
        /\ \A n \in DOMAIN new : n \in DOMAIN old \/ new[n].created_at = now
    BY <1>4, <2>1
  <2>3. QED
    BY <2>2 DEF old, new
<1>5. QED
  BY <1>2, <1>4 DEF ReceiptsKept

LEMMA ReceiptsPastStep ==
    ASSUME TypeOK, TypeOK', ReceiptsPast, [Next]_vars
    PROVE  ReceiptsPast'
<1>1. now \in Nat /\ now' \in Nat /\ now <= now'
  BY ClockStep
<1>2. ASSUME NEW c \in DOMAIN claims', NEW n \in DOMAIN claims'[c].receipts
      PROVE  claims'[c].receipts[n].created_at <= now'
  <2>1. CASE c \in DOMAIN claims /\ n \in DOMAIN claims[c].receipts
    <3>1. claims'[c].receipts[n] = claims[c].receipts[n]
      BY <2>1, ReceiptsStep
    <3>2. claims[c].receipts[n].created_at <= now
      BY <2>1 DEF ReceiptsPast
    <3>3. claims[c].receipts[n].created_at \in Nat
      <4>1. claims[c].receipts \in Seq(Receipt)
        BY <2>1, ClaimType DEF Claim
      <4>2. claims[c].receipts[n] \in Receipt
        BY <2>1, <4>1, ElementOfSeq, LenProperties
      <4>3. QED
        BY <4>2 DEF Receipt
    <3>4. QED
      BY <1>1, <3>1, <3>2, <3>3
  <2>2. CASE c \in DOMAIN claims /\ n \notin DOMAIN claims[c].receipts
    <3>1. claims'[c].receipts[n].created_at = now
      BY <1>2, <2>2, ReceiptsStep
    <3>2. QED
      BY <1>1, <3>1
  <2>3. CASE c \notin DOMAIN claims
    <3>1. PICK b : ActsOn(b)
      BY ClaimStep
    <3>2. claims'[c].receipts = <<>>
      BY <1>2, <2>3, <3>1 DEF ActsOn
    <3>3. QED
      BY <1>2, <3>2
  <2>4. QED
    BY <2>1, <2>2, <2>3
<1>3. QED
  BY <1>2 DEF ReceiptsPast

-------------------------------------------------------------------------------
(* Refusal is final.                                                       *)

(* An entry of another claim at an earlier commitment makes a document a   *)
(* duplicate: the claim that holds an entry has been judged, so it never   *)
(* counts as withdrawn unjudged.                                           *)
LEMMA EarlierEntry ==
    ASSUME TypeOK, RegistrySupport, NEW c, NEW item, Key(item) \in DocumentKeys,
           document_registry[Key(item)] # NoEntry,
           document_registry[Key(item)].seq < item.committed_seq,
           document_registry[Key(item)].claim # c
    PROVE  DuplicateDocument(item, c)
<1> DEFINE d == document_registry[Key(item)].claim
<1>1. d \in DOMAIN claims /\ claims[d].receipts # <<>>
  BY DEF RegistrySupport, EntriesAreHeld
<1>2. claims[d].receipts \in Seq(Receipt) /\ d # NoClaim
  BY <1>1, ClaimType DEF Claim
<1>3. Len(claims[d].receipts) # 0
  BY <1>1, <1>2, EmptySeq
<1>4. RegistryConflict(d, c)
  BY <1>2, <1>3 DEF RegistryConflict, WithdrawnUnjudged
<1>5. QED
  BY <1>4 DEF DuplicateDocument

EarlierEntriesBind ==
    \A c, item :
        /\ Key(item) \in DocumentKeys
        /\ document_registry[Key(item)] # NoEntry
        /\ document_registry[Key(item)].seq < item.committed_seq
        /\ document_registry[Key(item)].claim # c
        => DuplicateDocument(item, c)

\* The same, of the next state.
LEMMA EarlierEntryNext ==
    TypeOK' /\ RegistrySupport' => EarlierEntriesBind'
<1>1. TypeOK /\ RegistrySupport => EarlierEntriesBind
  BY EarlierEntry DEF EarlierEntriesBind
<1>2. QED
  BY <1>1, PTL

(* A claim that is a later duplicate stays one: the entry that makes it so *)
(* is another judged claim's, and can only move to an earlier commitment   *)
(* of a claim that is being judged, which a resolved claim is not.         *)
LEMMA DuplicateStays ==
    ASSUME TypeOK, TypeOK', RegistrySupport, RegistrySupport', [Next]_vars,
           NEW c \in DOMAIN claims, claims[c].status = "RESOLVED", LaterDuplicate(c)
    PROVE  LaterDuplicate(c)'
<1> DEFINE receipt == LastReceipt(claims[c])
<1>1. c \in DOMAIN claims' /\ claims'[c] = claims[c]
  BY ConcludedStays
<1>2. PICK i \in Facts(receipt.evidence, receipt.examined) :
         DuplicateDocument(receipt.evidence[i], c)
  BY DEF LaterDuplicate
<1> DEFINE item == receipt.evidence[i]
           k == Key(item)
           old == document_registry[k]
           new == document_registry'[k]
<1>3. claims[c].receipts # <<>>
  BY DEF LaterDuplicate
<1>4. k \in DocumentKeys /\ item.committed_seq \in Nat
  <2> DEFINE n == Len(claims[c].receipts)
  <2>1. n \in DOMAIN claims[c].receipts /\ receipt = claims[c].receipts[n]
    <3>1. claims[c].receipts \in Seq(Receipt)
      BY ClaimType DEF Claim
    <3>2. QED
      BY <1>3, <3>1, EmptySeq, LenProperties DEF LastReceipt
  <2>2. i \in receipt.examined /\ item.kind \in StructuredKinds
    BY DEF Facts
  <2>3. i \in DOMAIN receipt.evidence
    BY <2>1, <2>2 DEF RegistrySupport, ReceiptsQuote
  <2>4. receipt.evidence \in Seq(EvidenceItem)
    BY <2>1, ReceiptType
  <2>5. QED
    BY <2>2, <2>3, <2>4, ItemType
<1>5. old # NoEntry /\ old.seq < item.committed_seq /\ old.claim # c
  BY <1>2 DEF DuplicateDocument, RegistryConflict
<1>6. old \in RegistryEntry /\ new \in RegistryEntry
  BY <1>4 DEF TypeOK
<1>7. new # NoEntry /\ new.seq < item.committed_seq /\ new.claim # c
  <2>1. CASE new = old
    BY <1>5, <2>1
  <2>2. ASSUME NEW d \in DOMAIN claims, EntryMovesTo(d, k)
        PROVE  new # NoEntry /\ new.seq < item.committed_seq /\ new.claim # c
    <3>1. new.claim = d /\ claims[d].status = "PENDING" /\ new.seq < old.seq
      BY <1>5, <2>2 DEF EntryMovesTo
    <3>2. d # c /\ d # NoClaim
      BY <3>1, ClaimType
    <3>3. old.seq \in Nat /\ new.seq \in Nat
      BY <1>6 DEF RegistryEntry
    <3>4. new # NoEntry
      BY <3>1, <3>2 DEF NoEntry
    <3> HIDE DEF new, old, item
    <3>5. QED
      BY <1>4, <1>5, <3>1, <3>2, <3>3, <3>4
  <2>3. QED
    BY <1>4, <2>1, <2>2, EntryStep
<1>8. PICK it : it = item
  OBVIOUS
<1>9. DuplicateDocument(it, c)'
  BY <1>4, <1>7, <1>8, EarlierEntryNext DEF EarlierEntriesBind, Key
<1>10. QED
  BY <1>1, <1>2, <1>3, <1>8, <1>9 DEF LaterDuplicate, LastReceipt, Facts

\* A resolved claim that is consumable after a step was so before it.
LEMMA ConsumableBefore ==
    ASSUME TypeOK, TypeOK', RegistrySupport, RegistrySupport', ReceiptsPast,
           [Next]_vars, NEW c \in DOMAIN claims,
           claims[c].status = "RESOLVED", Consumable(c, now)'
    PROVE  Consumable(c, now)
<1> DEFINE claim == claims[c]
           receipt == LastReceipt(claims[c])
<1>1. c \in DOMAIN claims' /\ claims'[c] = claims[c]
  BY ConcludedStays
<1>2. /\ claims[c].policy \in DOMAIN policies
      /\ claims[c].version \in DOMAIN policies[claims[c].policy]
  BY ClaimType
<1>3. /\ now \in Nat /\ now' \in Nat /\ now <= now'
      /\ [PolicyNext]_policyVars
  BY ClockStep
<1>p. PICK p, v : p = claims[c].policy /\ v = claims[c].version
  OBVIOUS
<1>4. /\ Forward(policies[p][v], policies'[p][v])
      /\ DefinitionHash(p, v) = DefinitionHash(p, v)'
  BY <1>2, <1>3, <1>p, VersionsGoForward DEF TypeOK
<1>5. /\ claims[c].verdict = "VALID"
      /\ VersionOf(claims[c])'.status # "REVOKED"
      /\ claims[c].definition_hash =
            DefinitionHash(p, v)'
      /\ ~LaterDuplicate(c)'
      /\ Freshness(claims[c], now)' = "RELIABLE"
  BY <1>1, <1>p DEF Consumable
<1>6. /\ VersionOf(claims[c]) = policies[p][v]
      /\ VersionOf(claims[c])' = policies'[p][v]
  BY <1>1, <1>p DEF VersionOf
<1>7. ~LaterDuplicate(c)
  BY <1>5, DuplicateStays
<1>8. VersionOf(claims[c]).status # "REVOKED"
  BY <1>4, <1>5, <1>6 DEF Forward
<1>9. Freshness(claims[c], now) = "RELIABLE"
  <2>1. /\ claims[c].receipts # <<>> /\ claims[c].status # "CANCELLED"
        /\ receipt.verdict # "UNAVAILABLE"
        /\ ~ (now' > receipt.created_at
                     + VersionOf(claims[c])'.definition.receipt_validity)
    BY <1>1, <1>5 DEF Freshness, Expired, LastReceipt
  <2>2. receipt.created_at <= now /\ receipt.created_at \in Nat
    <3>1. claims[c].receipts \in Seq(Receipt)
      BY ClaimType DEF Claim
    <3>2. Len(claims[c].receipts) \in DOMAIN claims[c].receipts
      BY <2>1, <3>1, EmptySeq, LenProperties
    <3>3. receipt \in Receipt
      BY <3>1, <3>2, ElementOfSeq, LenProperties DEF LastReceipt
    <3>4. QED
      BY <3>2, <3>3 DEF ReceiptsPast, LastReceipt, Receipt
  <2>3. /\ VersionOf(claims[c])'.definition = VersionOf(claims[c]).definition
        /\ VersionOf(claims[c]).definition.receipt_validity \in Nat
    <3>1. VersionOf(claims[c]) \in PolicyVersion
      BY <1>2, VersionsType DEF VersionOf, TypeOK
    <3>2. VersionOf(claims[c]).definition \in DefinitionFields
      BY <3>1, PolicyConstants DEF PolicyVersion
    <3>3. QED
      BY <1>4, <1>6, <3>2 DEF Forward, DefinitionFields
  <2>4. ~ (now > receipt.created_at + VersionOf(claims[c]).definition.receipt_validity)
    BY <1>3, <2>1, <2>2, <2>3
  <2>5. ~ (now < receipt.created_at)
    BY <1>3, <2>2
  <2>6. QED
    BY <1>8, <2>1, <2>4, <2>5 DEF Freshness, Expired
<1>10. QED
  BY <1>p, <1>4, <1>5, <1>7, <1>8, <1>9 DEF Consumable

LEMMA PastCorrect == Spec => []ReceiptsPast
<1>1. Init => ReceiptsPast
  BY DEF Init, LedgerInit, ReceiptsPast
<1>2. ReceiptsPast /\ TypeOK /\ TypeOK' /\ [Next]_vars => ReceiptsPast'
  BY ReceiptsPastStep
<1>3. QED
  BY <1>1, <1>2, TypeCorrect, PTL DEF Spec

(* A resolved claim a consumer was told not to pay is never payable later: *)
(* neither the clock, nor a policy change, nor an earlier commitment that  *)
(* takes over the entry it collides with, makes it consumable again.       *)
THEOREM RefusalIsFinal == Spec => ConsumabilityNeverReturns
<1>1. ASSUME TypeOK, TypeOK', RegistrySupport, RegistrySupport', ReceiptsPast,
             [Next]_vars, NEW c \in DOMAIN claims,
             claims[c].status = "RESOLVED", ~Consumable(c, now)
      PROVE  ~Consumable(c, now)'
  BY <1>1, ConsumableBefore
<1>2. TypeOK /\ TypeOK' /\ RegistrySupport /\ RegistrySupport' /\ ReceiptsPast
         /\ [Next]_vars =>
            \A c \in DOMAIN claims :
               claims[c].status = "RESOLVED" /\ ~Consumable(c, now)
                  => ~Consumable(c, now)'
  BY <1>1
<1>3. QED
  BY <1>2, TypeCorrect, RegistrySupported, PastCorrect, PTL
     DEF Spec, ConsumabilityNeverReturns

-------------------------------------------------------------------------------
(* Nothing recorded is rewritten.                                          *)

LEMMA FirstWriterStays ==
    ASSUME TypeOK, [Next]_vars, NEW d \in Documents
    PROVE  evidence_registry[d] \in {NoClaim, evidence_registry'[d]}
<1>1. ASSUME NEW items, NEW c,
             evidence_registry' = Registered(evidence_registry, items, c)
      PROVE  evidence_registry[d] \in {NoClaim, evidence_registry'[d]}
  BY <1>1 DEF Registered
<1>2. QED
  BY <1>1 DEF Next, ClaimNext, ResolveClaim, SubmitClaim, RejectAtAdmission,
              AdjudicateRound, RetryClaim, CancelClaim, vars, ledgerVars

(* Receipts only grow, a concluded claim is frozen, the first committer of *)
(* a document is never displaced, and a document key only ever moves to an *)
(* earlier commitment.                                                     *)
THEOREM RecordsStay == Spec => RecordsAreFinal
<1>1. ASSUME TypeOK, [Next]_vars, NEW c \in DOMAIN claims
      PROVE  /\ \A n \in DOMAIN claims[c].receipts :
                   /\ n \in DOMAIN claims'[c].receipts
                   /\ claims'[c].receipts[n] = claims[c].receipts[n]
             /\ claims[c].status \in {"RESOLVED", "CANCELLED"} =>
                   claims'[c] = claims[c]
  BY <1>1, ReceiptsStep, ConcludedStays
<1>2. ASSUME TypeOK, [Next]_vars, NEW k \in DocumentKeys,
             document_registry[k] # NoEntry
      PROVE  \/ document_registry'[k] = document_registry[k]
             \/ document_registry'[k].seq < document_registry[k].seq
  BY <1>2, EntryStep DEF EntryMovesTo
<1>3. TypeOK /\ [Next]_vars =>
         /\ \A c \in DOMAIN claims :
               /\ \A n \in DOMAIN claims[c].receipts :
                     /\ n \in DOMAIN claims'[c].receipts
                     /\ claims'[c].receipts[n] = claims[c].receipts[n]
               /\ claims[c].status \in {"RESOLVED", "CANCELLED"} =>
                     claims'[c] = claims[c]
         /\ \A d \in Documents :
               evidence_registry[d] \in {NoClaim, evidence_registry'[d]}
         /\ \A k \in DocumentKeys :
               document_registry[k] # NoEntry =>
                   \/ document_registry'[k] = document_registry[k]
                   \/ document_registry'[k].seq < document_registry[k].seq
  BY <1>1, <1>2, FirstWriterStays
<1>4. QED
  BY <1>3, TypeCorrect, PTL DEF Spec, RecordsAreFinal

-------------------------------------------------------------------------------
(* The ledger keeps the promise to consumers.                              *)

\* Payable claims are concluded, and rest on document keys of their own.
SettledApart ==
    \A c \in 1..MaxClaims :
        ConsumableNow(c) =>
            /\ ~Open(c)
            /\ CarriedKeys(claims[c]) \subseteq DocumentKeys
            /\ \A d \in 1..MaxClaims :
                  ConsumableNow(d) /\ c # d =>
                     CarriedKeys(claims[c]) \cap CarriedKeys(claims[d]) = {}

LEMMA SupportSettles == TypeOK /\ RegistrySupport => SettledApart
<1> SUFFICES ASSUME TypeOK, RegistrySupport, NEW c \in 1..MaxClaims,
                    ConsumableNow(c)
             PROVE  /\ ~Open(c)
                    /\ CarriedKeys(claims[c]) \subseteq DocumentKeys
                    /\ \A d \in 1..MaxClaims :
                          ConsumableNow(d) /\ c # d =>
                             CarriedKeys(claims[c]) \cap CarriedKeys(claims[d]) = {}
  BY DEF SettledApart
<1>1. ~Open(c)
  BY DEF ConsumableNow, Consumable, Open
<1>2. CarriedKeys(claims[c]) \subseteq DocumentKeys
  <2> DEFINE receipt == LastReceipt(claims[c])
  <2>1. c \in DOMAIN claims /\ claims[c].receipts # <<>>
    BY DEF ConsumableNow, Consumable, Freshness
  <2>2. /\ Len(claims[c].receipts) \in DOMAIN claims[c].receipts
        /\ receipt = claims[c].receipts[Len(claims[c].receipts)]
    <3>1. claims[c].receipts \in Seq(Receipt)
      BY <2>1, ClaimType DEF Claim
    <3>2. QED
      BY <2>1, <3>1, EmptySeq, LenProperties DEF LastReceipt
  <2>3. receipt.evidence \in Seq(EvidenceItem)
    BY <2>1, <2>2, ReceiptType
  <2>4. ASSUME NEW i \in Facts(receipt.evidence, receipt.examined)
        PROVE  Key(receipt.evidence[i]) \in DocumentKeys
    <3>1. i \in receipt.examined /\ receipt.evidence[i].kind \in StructuredKinds
      BY DEF Facts
    <3>2. i \in DOMAIN receipt.evidence
      BY <2>1, <2>2, <3>1 DEF RegistrySupport, ReceiptsQuote
    <3>3. QED
      BY <2>3, <3>1, <3>2, ItemType
  <2>5. QED
    BY <2>4 DEF CarriedKeys
<1>3. ASSUME NEW d \in 1..MaxClaims, ConsumableNow(d), c # d,
             NEW k \in CarriedKeys(claims[c]), k \in CarriedKeys(claims[d])
      PROVE  FALSE
  BY <1>3, ConsumableHoldsEntry DEF ConsumableNow
<1>4. QED
  BY <1>1, <1>2, <1>3

(* What a consumer can see of a step: a concluded claim stays concluded on *)
(* the same documents and is payable only if it was, and only the claim    *)
(* the step acts on stops being open.                                      *)
LEMMA VisibleStep ==
    ASSUME TypeOK, TypeOK', RegistrySupport, RegistrySupport', ReceiptsPast,
           [Next]_vars, NEW b, ActsOn(b), NEW c
    PROVE  /\ ~Open(c) => /\ ~Open(c)'
                          /\ ConsumableNow(c)' => ConsumableNow(c)
                          /\ CarriedKeys(claims[c])' = CarriedKeys(claims[c])
           /\ Open(c) /\ c # b => Open(c)'
<1>1. ASSUME ~Open(c)
      PROVE  /\ ~Open(c)'
             /\ ConsumableNow(c)' => ConsumableNow(c)
             /\ CarriedKeys(claims[c])' = CarriedKeys(claims[c])
  <2>1. c \in DOMAIN claims /\ claims[c].status \in {"RESOLVED", "CANCELLED"}
    BY <1>1, ClaimType DEF Open, Claim, ClaimStatus
  <2>2. c \in DOMAIN claims' /\ claims'[c] = claims[c]
    BY <2>1, ConcludedStays
  <2>3. CarriedKeys(claims[c])' = CarriedKeys(claims[c])
    BY <2>2 DEF CarriedKeys, LastReceipt, Facts, Key
  <2>4. ~Open(c)'
    BY <2>1, <2>2 DEF Open
  <2>5. ASSUME ConsumableNow(c)' PROVE ConsumableNow(c)
    <3>1. Consumable(c, now)'
      BY <2>5 DEF ConsumableNow
    <3>2. claims[c].status = "RESOLVED"
      BY <2>2, <3>1 DEF Consumable
    <3>3. QED
      BY <2>1, <3>1, <3>2, ConsumableBefore DEF ConsumableNow
  <2>6. QED
    BY <2>3, <2>4, <2>5
<1>2. ASSUME Open(c), c # b PROVE Open(c)'
  BY <1>2 DEF ActsOn, Open
<1>3. QED
  BY <1>1, <1>2

(* One step of the ledger is one step of the promise, or none.             *)
LEMMA StepKeepsPromise ==
    ASSUME TypeOK, TypeOK', RegistrySupport, RegistrySupport', ReceiptsPast,
           SettledApart, SettledApart', [Next]_vars
    PROVE  Promise!PromiseNext
<1> DEFINE N == 1..MaxClaims
           withdrawn == {c \in N : ConsumableNow(c) /\ ~ConsumableNow(c)'}
<1>1. PICK b : ActsOn(b)
  BY ClaimStep
<1>2. ASSUME NEW c \in N
      PROVE  /\ ConsumableNow(c) => ~Open(c)
             /\ ConsumableNow(c)' => ~Open(c)'
             /\ ~Open(c) => /\ ~Open(c)'
                            /\ ConsumableNow(c)' => ConsumableNow(c)
                            /\ CarriedKeys(claims[c])' = CarriedKeys(claims[c])
             /\ Open(c) /\ c # b => Open(c)'
  BY <1>1, VisibleStep DEF SettledApart
<1>3. ASSUME NEW c \in N
      PROVE  /\ ClaimStage[c] = IF ConsumableNow(c) THEN "payable"
                                ELSE IF Open(c) THEN "open" ELSE "refused"
             /\ ClaimGrounds[c] = IF ConsumableNow(c) THEN CarriedKeys(claims[c])
                                                      ELSE {}
  BY DEF ClaimStage, ClaimGrounds
<1>4. Promise!Payable = {c \in N : ConsumableNow(c)}
  BY <1>3 DEF Promise!Payable
<1>5. withdrawn \in SUBSET Promise!Payable
  BY <1>4
<1>6. CASE b \in N /\ Open(b) /\ ConsumableNow(b)'
  <2> DEFINE keys == CarriedKeys(claims[b])'
  <2>1. keys \in SUBSET DocumentKeys
    BY <1>6 DEF SettledApart
  <2>2. ClaimStage[b] = "open"
    BY <1>2, <1>3, <1>6
  <2>3. \A d \in Promise!Payable \ withdrawn : ClaimGrounds[d] \cap keys = {}
    <3>1. ASSUME NEW d \in N, ConsumableNow(d), ConsumableNow(d)'
          PROVE  ClaimGrounds[d] \cap keys = {}
      <4>1. d # b /\ ClaimGrounds[d] = CarriedKeys(claims[d])'
        BY <1>2, <1>3, <1>6, <3>1
      <4>2. QED
        BY <1>6, <3>1, <4>1 DEF SettledApart
    <3>2. QED
      BY <1>4, <3>1
  <2>4. Promise!Moved(withdrawn, {b}, keys)
    <3>1. ClaimStage' = [c \in N |-> IF c \in {b} THEN "payable"
                                     ELSE IF c \in withdrawn THEN "refused"
                                     ELSE ClaimStage[c]]
      BY <1>2, <1>3, <1>6 DEF ClaimStage
    <3>2. ClaimGrounds' = [c \in N |-> IF c \in {b} THEN keys
                                       ELSE IF c \in withdrawn THEN {}
                                       ELSE ClaimGrounds[c]]
      BY <1>2, <1>3, <1>6 DEF ClaimGrounds
    <3>3. QED
      BY <3>1, <3>2 DEF Promise!Moved
  <2>5. Promise!Pay(b, keys, withdrawn)
    BY <1>5, <2>2, <2>3, <2>4 DEF Promise!Pay
  <2>6. QED
    BY <1>5, <1>6, <2>1, <2>5 DEF Promise!PromiseNext
<1>7. CASE b \in N /\ Open(b) /\ ~ConsumableNow(b)' /\ ~Open(b)'
  <2>1. Promise!Moved(withdrawn \union {b}, {}, {})
    <3>1. ClaimStage' = [c \in N |-> IF c \in {} THEN "payable"
                                     ELSE IF c \in withdrawn \union {b} THEN "refused"
                                     ELSE ClaimStage[c]]
      BY <1>2, <1>3, <1>7 DEF ClaimStage
    <3>2. ClaimGrounds' = [c \in N |-> IF c \in {} THEN {}
                                       ELSE IF c \in withdrawn \union {b} THEN {}
                                       ELSE ClaimGrounds[c]]
      BY <1>2, <1>3, <1>7 DEF ClaimGrounds
    <3>3. QED
      BY <3>1, <3>2 DEF Promise!Moved
  <2>2. Promise!Refuse(b, withdrawn)
    BY <1>2, <1>3, <1>5, <1>7, <2>1 DEF Promise!Refuse
  <2>3. QED
    BY <1>5, <1>7, <2>2 DEF Promise!PromiseNext
<1>8. CASE ~ (b \in N /\ Open(b) /\ ~Open(b)')
  <2>1. \A c \in N : Open(c) => Open(c)'
    BY <1>2, <1>8
  <2>2. Promise!Moved(withdrawn, {}, {})
    <3>1. ClaimStage' = [c \in N |-> IF c \in {} THEN "payable"
                                     ELSE IF c \in withdrawn THEN "refused"
                                     ELSE ClaimStage[c]]
      BY <1>2, <1>3, <2>1 DEF ClaimStage
    <3>2. ClaimGrounds' = [c \in N |-> IF c \in {} THEN {}
                                       ELSE IF c \in withdrawn THEN {}
                                       ELSE ClaimGrounds[c]]
      BY <1>2, <1>3, <2>1 DEF ClaimGrounds
    <3>3. QED
      BY <3>1, <3>2 DEF Promise!Moved
  <2>3. Promise!Withdraw(withdrawn)
    BY <1>5, <2>2 DEF Promise!Withdraw
  <2>4. QED
    BY <1>5, <2>3 DEF Promise!PromiseNext
<1>9. QED
  BY <1>2, <1>6, <1>7, <1>8

(* The ledger implements the consumer's promise for every number of        *)
(* claims, documents, accounts and policies: an open claim is settled      *)
(* once, refusal is final, and payable claims rest on disjoint keys.       *)
THEOREM PromiseKept == Spec => KeepsPromise
<1>1. Init => Promise!PromiseInit
  BY DEF Init, LedgerInit, Promise!PromiseInit, ClaimStage, ClaimGrounds,
         ConsumableNow, Open
<1>2. TypeOK /\ TypeOK' /\ RegistrySupport /\ RegistrySupport' /\ ReceiptsPast
         /\ SettledApart /\ SettledApart' /\ [Next]_vars => Promise!PromiseNext
  BY StepKeepsPromise
<1>3. QED
  BY <1>1, <1>2, TypeCorrect, RegistrySupported, PastCorrect, SupportSettles, PTL
     DEF Spec, KeepsPromise, Promise!PromiseSpec

-------------------------------------------------------------------------------
(* What a step does to one claim: nothing, or one transaction.             *)

Resolving(c) ==
    /\ claims[c].status = "PENDING"
    /\ \E verdict \in Verdicts, examined \in SUBSET Nat :
          /\ claims'[c] = Judged(claims[c], verdict, examined)
          /\ claims[c].admissible \/ verdict = "REJECTED"

Retrying(c) ==
    /\ claims[c].status = "RETRYABLE" /\ now >= claims[c].next_retry_at
    /\ \E items \in Seq(EvidenceItem) : claims'[c] = Retried(claims[c], items)

Submitting(c) ==
    \E s \in Accounts, p \in DOMAIN policies, r \in References,
       ok \in BOOLEAN, items \in Seq(EvidenceItem) :
          /\ Latest(p).status = "ACTIVE"
          /\ claims'[c] = NewClaim(s, p, r, ok, items)

LEMMA LifeStep ==
    ASSUME TypeOK, [Next]_vars, NEW c \in DOMAIN claims'
    PROVE  \/ c \in DOMAIN claims /\ claims'[c] = claims[c]
           \/ /\ UNCHANGED policyVars
              /\ \/ c \notin DOMAIN claims /\ Submitting(c)
                 \/ /\ c \in DOMAIN claims
                    /\ \/ Resolving(c) \/ Retrying(c)
                       \/ claims'[c] = Cancelled(claims[c])
<1> DEFINE Goal == \/ c \in DOMAIN claims /\ claims'[c] = claims[c]
                   \/ /\ UNCHANGED policyVars
                      /\ \/ c \notin DOMAIN claims /\ Submitting(c)
                         \/ /\ c \in DOMAIN claims
                            /\ \/ Resolving(c) \/ Retrying(c)
                               \/ claims'[c] = Cancelled(claims[c])
<1>1. ASSUME UNCHANGED ledgerVars PROVE Goal
  BY <1>1 DEF ledgerVars
<1>2. ASSUME NEW s \in Accounts, NEW p \in DOMAIN policies,
             NEW r \in References, NEW ok \in AdmissionOutcomes,
             NEW batch \in Batches(1), SubmitClaim(s, p, r, ok, batch)
      PROVE  Goal
  <2> DEFINE b == Len(claims) + 1
             items == Committed(batch, commitment_count)
  <2>1. /\ DOMAIN claims' = 1..b
        /\ \A d \in DOMAIN claims : claims'[d] = claims[d]
        /\ claims'[b] = NewClaim(s, p, r, ok, items)
    BY <1>2, Submitted
  <2>2. DOMAIN claims = 1..Len(claims) /\ Len(claims) \in Nat
    BY LenProperties DEF TypeOK
  <2>3. items \in Seq(EvidenceItem) /\ ok \in BOOLEAN
    BY BatchType, CommittedType, LedgerConstants DEF TypeOK
  <2>4. UNCHANGED policyVars /\ Latest(p).status = "ACTIVE"
    BY <1>2 DEF SubmitClaim
  <2> HIDE DEF items
  <2>5. Submitting(b)
    BY <2>1, <2>3, <2>4 DEF Submitting
  <2>6. c \in DOMAIN claims \/ (c \notin DOMAIN claims /\ c = b)
    BY <2>1, <2>2
  <2>7. QED
    BY <2>1, <2>4, <2>5, <2>6
<1>3. ASSUME NEW b \in DOMAIN claims, RejectAtAdmission(b) PROVE Goal
  <2>1. /\ claims' = [claims EXCEPT ![b] = Judged(claims[b], "REJECTED", {})]
        /\ claims[b].status = "PENDING" /\ UNCHANGED policyVars
        /\ "REJECTED" \in Verdicts
    BY <1>3 DEF RejectAtAdmission, Verdicts
  <2>2. Resolving(b) /\ \A d \in DOMAIN claims : d # b => claims'[d] = claims[d]
    BY <2>1 DEF Resolving
  <2>3. DOMAIN claims' = DOMAIN claims
    BY <2>1
  <2>4. QED
    BY <2>1, <2>2, <2>3
<1>4. ASSUME NEW b \in DOMAIN claims, AdjudicateRound(b) PROVE Goal
  <2>1. PICK examined \in SUBSET DOMAIN claims[b].evidence, verdict \in Verdicts :
           /\ claims' = [claims EXCEPT ![b] = Judged(claims[b], verdict, examined)]
           /\ UNCHANGED policyVars
    BY <1>4, Adjudicated
  <2>2. examined \in SUBSET Nat
    BY EvidenceType, ItemType
  <2>3. claims[b].status = "PENDING" /\ claims[b].admissible
    BY <1>4 DEF AdjudicateRound
  <2>4. Resolving(b) /\ \A d \in DOMAIN claims : d # b => claims'[d] = claims[d]
    BY <2>1, <2>2, <2>3 DEF Resolving
  <2>5. DOMAIN claims' = DOMAIN claims
    BY <2>1
  <2>6. QED
    BY <2>1, <2>4, <2>5
<1>5. ASSUME NEW s \in Accounts, NEW b \in DOMAIN claims,
             NEW moves \in Moves(claims[b].evidence), NEW batch \in Batches(0),
             RetryClaim(s, b, moves, batch)
      PROVE  Goal
  <2> DEFINE items == Amended(claims[b].evidence, moves, batch, commitment_count)
  <2>1. /\ items \in Seq(EvidenceItem)
        /\ claims' = [claims EXCEPT ![b] = Retried(claims[b], items)]
    BY <1>5, RetriedClaim
  <2>2. /\ claims[b].status = "RETRYABLE" /\ now >= claims[b].next_retry_at
        /\ UNCHANGED policyVars
    BY <1>5 DEF RetryClaim
  <2> HIDE DEF items
  <2>3. Retrying(b) /\ \A d \in DOMAIN claims : d # b => claims'[d] = claims[d]
    BY <2>1, <2>2 DEF Retrying
  <2>4. DOMAIN claims' = DOMAIN claims
    BY <2>1
  <2>5. QED
    BY <2>2, <2>3, <2>4
<1>6. ASSUME NEW s \in Accounts, NEW b \in DOMAIN claims, CancelClaim(s, b)
      PROVE  Goal
  BY <1>6 DEF CancelClaim
<1>7. UNCHANGED vars => UNCHANGED ledgerVars
  BY DEF vars
<1>8. QED
  BY <1>1, <1>2, <1>3, <1>4, <1>5, <1>6, <1>7 DEF Next, ClaimNext, ResolveClaim

(* What a resolution writes.                                               *)
LEMMA JudgedLife ==
    ASSUME TypeOK, NEW c \in DOMAIN claims, NEW verdict \in Verdicts,
           NEW examined \in SUBSET Nat
    PROVE  LET judged == Judged(claims[c], verdict, examined)
               terminal == \/ verdict \in TerminalVerdicts
                           \/ Len(judged.receipts) >= MAX_ROUNDS
           IN /\ judged.policy = claims[c].policy
              /\ judged.version = claims[c].version
              /\ judged.admissible = claims[c].admissible
              /\ judged.submitted_at = claims[c].submitted_at
              /\ judged.status = IF terminal THEN "RESOLVED" ELSE "RETRYABLE"
              /\ ~terminal => judged.next_retry_at =
                    now + VersionOf(claims[c]).definition.retry_cooldown
<1> DEFINE receipts == Append(claims[c].receipts,
                           [verdict |-> verdict, created_at |-> now,
                            evidence |-> claims[c].evidence, examined |-> examined])
           terminal == verdict \in TerminalVerdicts \/ Len(receipts) >= MAX_ROUNDS
           status == IF terminal THEN "RESOLVED" ELSE "RETRYABLE"
           resolved_at == IF terminal THEN now ELSE claims[c].resolved_at
           next_retry_at == IF terminal THEN claims[c].next_retry_at
                ELSE now + VersionOf(claims[c]).definition.retry_cooldown
<1>1. Judged(claims[c], verdict, examined) =
          [claims[c] EXCEPT !.receipts = receipts, !.verdict = verdict,
                            !.status = status, !.resolved_at = resolved_at,
                            !.next_retry_at = next_retry_at]
  BY Zenon DEF Judged
<1>2. /\ status = IF terminal THEN "RESOLVED" ELSE "RETRYABLE"
      /\ ~terminal => next_retry_at =
            now + VersionOf(claims[c]).definition.retry_cooldown
      /\ terminal <=> verdict \in TerminalVerdicts \/ Len(receipts) >= MAX_ROUNDS
  BY Zenon
<1>3. claims[c] \in Claim
  BY ClaimType
<1> HIDE DEF receipts, terminal, status, resolved_at, next_retry_at
<1> DEFINE judged == Judged(claims[c], verdict, examined)
<1>4. /\ judged.policy = claims[c].policy
      /\ judged.version = claims[c].version
      /\ judged.admissible = claims[c].admissible
      /\ judged.submitted_at = claims[c].submitted_at
      /\ judged.receipts = receipts
      /\ judged.status = status
      /\ judged.next_retry_at = next_retry_at
  BY <1>1, <1>3 DEF Claim
<1> HIDE DEF judged
<1>5. QED
  BY <1>2, <1>4 DEF judged

\* What no transaction on a claim ever changes.
LEMMA BindingStays ==
    ASSUME TypeOK, [Next]_vars, NEW c \in DOMAIN claims, c \in DOMAIN claims'
    PROVE  /\ claims'[c].policy = claims[c].policy
           /\ claims'[c].version = claims[c].version
           /\ claims'[c].admissible = claims[c].admissible
           /\ claims'[c].submitted_at = claims[c].submitted_at
<1>1. claims[c] \in Claim
  BY ClaimType
<1>2. CASE Resolving(c)
  <2>1. PICK verdict \in Verdicts, examined \in SUBSET Nat :
           claims'[c] = Judged(claims[c], verdict, examined)
    BY <1>2 DEF Resolving
  <2>2. LET judged == Judged(claims[c], verdict, examined)
        IN /\ judged.policy = claims[c].policy
           /\ judged.version = claims[c].version
           /\ judged.admissible = claims[c].admissible
           /\ judged.submitted_at = claims[c].submitted_at
    BY JudgedLife
  <2>3. QED
    BY <2>1, <2>2
<1>3. CASE Retrying(c)
  BY <1>1, <1>3 DEF Retrying, Retried, Claim
<1>4. CASE claims'[c] = Cancelled(claims[c])
  BY <1>1, <1>4 DEF Cancelled, Claim
<1>5. QED
  BY <1>2, <1>3, <1>4, LifeStep

-------------------------------------------------------------------------------
(* Acceptance.                                                             *)

\* No version is from the future, and an ACTIVE one has not been closed.
VersionsDated ==
    \A p \in DOMAIN policies : \A v \in DOMAIN policies[p] :
        /\ policies[p][v].created_at <= now
        /\ policies[p][v].status = "ACTIVE" => policies[p][v].closed_at = Never

\* No claim is from the future.
ClaimsDated == \A c \in DOMAIN claims : claims[c].submitted_at <= now

AcceptanceInv == VersionsDated /\ ClaimsDated /\ AcceptedWhileOpen

LEMMA VersionsDatedStep ==
    ASSUME TypeOK, VersionsDated, [Next]_vars
    PROVE  VersionsDated'
<1>1. /\ now \in Nat /\ now' \in Nat /\ now <= now' /\ [PolicyNext]_policyVars
      /\ PolicyTypeOK
  BY ClockStep DEF TypeOK
<1>2. ASSUME NEW p \in DOMAIN policies', NEW v \in DOMAIN policies'[p]
      PROVE  LET new == policies'[p][v]
             IN /\ new.created_at <= now'
                /\ new.status = "ACTIVE" => new.closed_at = Never
  <2>1. CASE p \in DOMAIN policies /\ v \in DOMAIN policies[p]
    <3> DEFINE old == policies[p][v]
               new == policies'[p][v]
    <3>1. /\ old \in PolicyVersion /\ old.created_at <= now
          /\ old.status = "ACTIVE" => old.closed_at = Never
      BY <1>1, <2>1, VersionsType DEF VersionsDated
    <3>2. new = old \/ new = Superseded(old) \/ new = Revoked(old)
      BY <1>1, <2>1, VersionStep
    <3> HIDE DEF old, new
    <3>3. /\ new.created_at = old.created_at /\ old.created_at \in Nat
          /\ new.status = "ACTIVE" => new = old
      BY <3>1, <3>2 DEF PolicyVersion, Superseded, Revoked
    <3>4. QED
      BY <1>1, <3>1, <3>3 DEF new
  <2>2. CASE ~ (p \in DOMAIN policies /\ v \in DOMAIN policies[p])
    <3>1. PICK s \in Accounts, d \in Definitions :
             policies'[p][v] = NewVersion(s, d)
      BY <1>1, <1>2, <2>2, AddedVersions
    <3>2. QED
      BY <1>1, <3>1 DEF NewVersion
  <2>3. QED
    BY <2>1, <2>2
<1>3. QED
  BY <1>2 DEF VersionsDated

\* What a submission writes.
LEMMA NewClaimLife ==
    ASSUME NEW s, NEW p, NEW r, NEW ok, NEW items
    PROVE  LET claim == NewClaim(s, p, r, ok, items)
           IN /\ claim.policy = p /\ claim.version = PolicyHead(p)
              /\ claim.submitted_at = now
              /\ claim.status = "PENDING" /\ claim.receipts = <<>>
BY DEF NewClaim

LEMMA ClaimsDatedStep ==
    ASSUME TypeOK, ClaimsDated, [Next]_vars
    PROVE  ClaimsDated'
<1>1. now \in Nat /\ now' \in Nat /\ now <= now'
  BY ClockStep
<1>2. ASSUME NEW c \in DOMAIN claims' PROVE claims'[c].submitted_at <= now'
  <2>1. CASE c \in DOMAIN claims
    <3>1. claims'[c].submitted_at = claims[c].submitted_at
      BY <1>2, <2>1, BindingStays
    <3>2. claims[c].submitted_at <= now /\ claims[c].submitted_at \in Nat
      BY <2>1, ClaimType DEF ClaimsDated, Claim
    <3>3. QED
      BY <1>1, <3>1, <3>2
  <2>2. CASE c \notin DOMAIN claims
    <3>1. Submitting(c)
      BY <1>2, <2>2, LifeStep
    <3>2. claims'[c].submitted_at = now
      <4>1. PICK s, p, r, ok, items : claims'[c] = NewClaim(s, p, r, ok, items)
        BY <3>1 DEF Submitting
      <4>2. NewClaim(s, p, r, ok, items).submitted_at = now
        BY NewClaimLife
      <4>3. QED
        BY <4>1, <4>2
    <3>3. QED
      BY <1>1, <3>2
  <2>3. QED
    BY <2>1, <2>2
<1>3. QED
  BY <1>2 DEF ClaimsDated

\* What AcceptedWhileOpen says of one claim.
Accepted(c) ==
    LET versions == policies[claims[c].policy]
        pv == VersionOf(claims[c])
    IN /\ pv.created_at <= claims[c].submitted_at
       /\ pv.closed_at # Never => claims[c].submitted_at <= pv.closed_at
       /\ \A w \in DOMAIN versions :
             w > claims[c].version =>
                 versions[w].created_at >= claims[c].submitted_at

(* A claim once accepted stays so: what closes its version, or succeeds    *)
(* it, does so at the present instant.                                     *)
LEMMA AcceptedStays ==
    ASSUME TypeOK, ClaimsDated, [Next]_vars,
           NEW c \in DOMAIN claims, c \in DOMAIN claims', Accepted(c)
    PROVE  Accepted(c)'
<1> DEFINE p == claims[c].policy
           v == claims[c].version
           at == claims[c].submitted_at
<1>1. /\ claims'[c].policy = p /\ claims'[c].version = v
      /\ claims'[c].submitted_at = at
  BY BindingStays
<1>2. /\ p \in DOMAIN policies /\ v \in DOMAIN policies[p]
      /\ at \in Nat /\ at <= now /\ now \in Nat
  BY ClaimType, ClockStep DEF ClaimsDated, Claim
<1>3. PolicyTypeOK /\ [PolicyNext]_policyVars
  BY ClockStep DEF TypeOK
<1>4. /\ policies[p][v].created_at <= at
      /\ policies[p][v].closed_at # Never => at <= policies[p][v].closed_at
      /\ \A w \in DOMAIN policies[p] : w > v => policies[p][w].created_at >= at
  BY DEF Accepted, VersionOf
<1> HIDE DEF p, v, at
<1>5. \A w \in DOMAIN policies[p] : policies'[p][w].created_at = policies[p][w].created_at
  BY <1>2, <1>3, VersionsGoForward DEF Forward
<1>6. policies'[p][v].closed_at \in {policies[p][v].closed_at, now}
  BY <1>2, <1>3, VersionsGoForward
<1>7. policies'[p][v].closed_at # Never => at <= policies'[p][v].closed_at
  BY <1>2, <1>4, <1>6
<1>8. ASSUME NEW w \in DOMAIN policies'[p], w > v
      PROVE  policies'[p][w].created_at >= at
  <2>1. CASE w \in DOMAIN policies[p]
    BY <1>4, <1>5, <1>8, <2>1
  <2>2. CASE w \notin DOMAIN policies[p]
    <3>1. p \in DOMAIN policies'
      BY <1>2, <1>3, VersionsPersist
    <3>2. PICK s \in Accounts, d \in Definitions :
             policies'[p][w] = NewVersion(s, d)
      BY <1>3, <1>8, <2>2, <3>1, AddedVersions
    <3>3. policies'[p][w].created_at = now
      BY <3>2 DEF NewVersion
    <3>4. QED
      BY <1>2, <3>3
  <2>3. QED
    BY <2>1, <2>2
<1>9. policies'[p][v].created_at <= at
  BY <1>2, <1>4, <1>5
<1>10. QED
  BY <1>1, <1>7, <1>8, <1>9 DEF Accepted, VersionOf

(* A new claim is bound to the latest version, which is open.              *)
LEMMA NewClaimAccepted ==
    ASSUME TypeOK, VersionsDated, NEW c \in DOMAIN claims', Submitting(c),
           UNCHANGED policyVars
    PROVE  Accepted(c)'
<1>1. PICK s \in Accounts, p \in DOMAIN policies, r \in References,
           ok \in BOOLEAN, items \in Seq(EvidenceItem) :
         /\ Latest(p).status = "ACTIVE"
         /\ claims'[c] = NewClaim(s, p, r, ok, items)
  BY DEF Submitting
<1>2. /\ claims'[c].policy = p /\ claims'[c].version = Len(policies[p])
      /\ claims'[c].submitted_at = now
  <2>1. LET claim == NewClaim(s, p, r, ok, items)
        IN /\ claim.policy = p /\ claim.version = PolicyHead(p)
           /\ claim.submitted_at = now
    BY NewClaimLife
  <2>2. QED
    BY <1>1, <2>1 DEF PolicyHead
<1>3. policies' = policies
  BY DEF policyVars
<1>4. /\ DOMAIN policies[p] = 1..Len(policies[p])
      /\ Len(policies[p]) \in Nat \ {0}
  BY VersionsType DEF TypeOK
<1>5. /\ policies[p][Len(policies[p])].created_at <= now
      /\ policies[p][Len(policies[p])].closed_at = Never
  BY <1>1, <1>4 DEF VersionsDated, Latest, PolicyHead
<1>6. \A w \in DOMAIN policies[p] : ~ (w > Len(policies[p]))
  BY <1>4
<1>7. QED
  BY <1>2, <1>3, <1>5, <1>6 DEF Accepted, VersionOf

(* However owners publish and revoke while claimants submit, a claim was   *)
(* accepted while the version it is bound to for life was the policy's     *)
(* newest and open: submit_claim reads no more than the head's status.     *)
THEOREM AcceptanceIsTimely == Spec => []AcceptedWhileOpen
<1>1. Init => AcceptanceInv
  BY DEF Init, PolicyInit, LedgerInit, AcceptanceInv, VersionsDated,
         ClaimsDated, AcceptedWhileOpen
<1>2. ASSUME TypeOK, AcceptanceInv, [Next]_vars PROVE AcceptanceInv'
  <2>1. VersionsDated' /\ ClaimsDated'
    BY <1>2, VersionsDatedStep, ClaimsDatedStep DEF AcceptanceInv
  <2>2. ASSUME NEW c \in DOMAIN claims' PROVE Accepted(c)'
    <3>1. CASE c \in DOMAIN claims
      <4>1. Accepted(c)
        BY <1>2, <3>1 DEF AcceptanceInv, AcceptedWhileOpen, Accepted
      <4>2. QED
        BY <1>2, <2>2, <3>1, <4>1, AcceptedStays DEF AcceptanceInv
    <3>2. CASE c \notin DOMAIN claims
      <4>1. Submitting(c) /\ UNCHANGED policyVars
        BY <1>2, <2>2, <3>2, LifeStep
      <4>2. QED
        BY <1>2, <2>2, <4>1, NewClaimAccepted DEF AcceptanceInv
    <3>3. QED
      BY <3>1, <3>2
  <2>3. AcceptedWhileOpen'
    BY <2>2 DEF AcceptedWhileOpen, Accepted
  <2>4. QED
    BY <2>1, <2>3 DEF AcceptanceInv
<1>3. TypeOK /\ AcceptanceInv /\ [Next]_vars => AcceptanceInv'
  BY <1>2
<1>4. QED
  BY <1>1, <1>3, TypeCorrect, PTL DEF Spec, AcceptanceInv

-------------------------------------------------------------------------------
(* Rounds.                                                                 *)

Cooldown(claim) == VersionOf(claim).definition.retry_cooldown

\* The rounds of a claim so far are bounded, inconclusive and spaced.
Spaced(claim, cooldown) ==
    LET receipts == claim.receipts
    IN /\ Len(receipts) <= MAX_ROUNDS
       /\ Len(receipts) > 1 => claim.admissible
       /\ \A n \in 1..Len(receipts) - 1 :
             /\ receipts[n].verdict \notin TerminalVerdicts
             /\ receipts[n+1].created_at >= receipts[n].created_at + cooldown

(* What an open claim waits for: it has rounds left, none of its rounds    *)
(* concluded it, it passed admission if it had any, and its next round     *)
(* cannot come before the cooldown is over.                                *)
Waiting(claim, cooldown, at) ==
    LET receipts == claim.receipts
        n == Len(receipts)
    IN claim.status \in {"PENDING", "RETRYABLE"} =>
          /\ n < MAX_ROUNDS
          /\ n > 0 => /\ claim.admissible
                      /\ receipts[n].verdict \notin TerminalVerdicts
                      /\ IF claim.status = "PENDING"
                         THEN at >= receipts[n].created_at + cooldown
                         ELSE claim.next_retry_at >= receipts[n].created_at + cooldown

Disciplined(claim, cooldown, at) ==
    Spaced(claim, cooldown) /\ Waiting(claim, cooldown, at)

DisciplineInv ==
    \A c \in DOMAIN claims : Disciplined(claims[c], Cooldown(claims[c]), now)

(* A version's cooldown never changes, so neither does a claim's.          *)
LEMMA CooldownStays ==
    ASSUME TypeOK, [Next]_vars, NEW c \in DOMAIN claims, c \in DOMAIN claims'
    PROVE  Cooldown(claims[c])' = Cooldown(claims[c])
<1>1. /\ claims'[c].policy = claims[c].policy
      /\ claims'[c].version = claims[c].version
  BY BindingStays
<1>2. /\ claims[c].policy \in DOMAIN policies
      /\ claims[c].version \in DOMAIN policies[claims[c].policy]
  BY ClaimType
<1>3. PolicyTypeOK /\ [PolicyNext]_policyVars
  BY ClockStep DEF TypeOK
<1>4. policies'[claims[c].policy][claims[c].version].definition
         = policies[claims[c].policy][claims[c].version].definition
  BY <1>2, <1>3, VersionsGoForward DEF Forward
<1>5. QED
  BY <1>1, <1>4 DEF Cooldown, VersionOf

LEMMA ReceiptDated ==
    ASSUME TypeOK, NEW c \in DOMAIN claims
    PROVE  /\ claims[c].receipts \in Seq(Receipt)
           /\ Len(claims[c].receipts) \in Nat
           /\ \A n \in 1..Len(claims[c].receipts) :
                 claims[c].receipts[n].created_at \in Nat
<1>1. claims[c].receipts \in Seq(Receipt)
  BY ClaimType DEF Claim
<1>2. \A n \in 1..Len(claims[c].receipts) : claims[c].receipts[n] \in Receipt
  BY <1>1, ElementOfSeq
<1>3. QED
  BY <1>1, <1>2, LenProperties DEF Receipt

(* A round of a waiting claim keeps the discipline.                        *)
LEMMA RoundIsDisciplined ==
    ASSUME TypeOK, NEW c \in DOMAIN claims,
           Disciplined(claims[c], Cooldown(claims[c]), now),
           claims[c].status = "PENDING",
           NEW verdict \in Verdicts, NEW examined \in SUBSET Nat,
           claims[c].admissible \/ verdict = "REJECTED"
    PROVE  Disciplined(Judged(claims[c], verdict, examined), Cooldown(claims[c]), now)
<1> DEFINE old == claims[c].receipts
           n == Len(old)
           receipt == [verdict |-> verdict, created_at |-> now,
                       evidence |-> claims[c].evidence, examined |-> examined]
           cooldown == Cooldown(claims[c])
           judged == Judged(claims[c], verdict, examined)
           new == judged.receipts
<1> DEFINE concluding == verdict \in TerminalVerdicts \/ n + 1 >= MAX_ROUNDS
<1>1. /\ n \in Nat /\ old \in Seq(Receipt) /\ now \in Nat /\ cooldown \in Nat
      /\ MAX_ROUNDS \in Nat \ {0}
      /\ \A i \in 1..n : old[i].created_at \in Nat
  BY ReceiptDated, ClaimVersionType, LedgerConstants
     DEF TypeOK, PolicyTypeOK, Cooldown
<1>2. /\ Len(new) = n + 1
      /\ \A i \in 1..n : new[i] = old[i]
      /\ new[n+1].verdict = verdict /\ new[n+1].created_at = now
  <2>1. new = Append(old, receipt)
    BY JudgedType
  <2>2. receipt.verdict = verdict /\ receipt.created_at = now
    OBVIOUS
  <2> HIDE DEF receipt
  <2>3. old \in Seq(Receipt \union {receipt})
    BY <1>1, LenProperties
  <2>4. QED
    BY <2>1, <2>2, <2>3, AppendProperties
<1>3. /\ judged.admissible = claims[c].admissible
      /\ judged.status = IF concluding THEN "RESOLVED" ELSE "RETRYABLE"
      /\ ~concluding => judged.next_retry_at = now + cooldown
  BY <1>2, JudgedLife DEF Cooldown
<1>4. /\ n < MAX_ROUNDS
      /\ n > 0 => /\ claims[c].admissible
                  /\ old[n].verdict \notin TerminalVerdicts
                  /\ now >= old[n].created_at + cooldown
      /\ \A i \in 1..n-1 : /\ old[i].verdict \notin TerminalVerdicts
                           /\ old[i+1].created_at >= old[i].created_at + cooldown
  BY DEF Disciplined, Spaced, Waiting
<1>5. "REJECTED" \in TerminalVerdicts
  BY DEF TerminalVerdicts
<1> HIDE DEF old, n, cooldown, judged, new
<1>6. Spaced(judged, cooldown)
  <2>1. ASSUME NEW i \in 1..(n + 1) - 1
        PROVE  /\ new[i].verdict \notin TerminalVerdicts
               /\ new[i+1].created_at >= new[i].created_at + cooldown
    <3>1. CASE i = n
      BY <1>1, <1>2, <1>4, <2>1, <3>1
    <3>2. CASE i # n
      <4>1. i \in 1..n /\ i + 1 \in 1..n /\ i \in 1..n-1
        BY <1>1, <2>1, <3>2
      <4>2. QED
        BY <1>2, <1>4, <4>1
    <3>3. QED
      BY <3>1, <3>2
  <2>2. n + 1 <= MAX_ROUNDS /\ (n + 1 > 1 => judged.admissible)
    BY <1>1, <1>3, <1>4
  <2>3. QED
    BY <1>2, <2>1, <2>2 DEF Spaced, new
<1>7. Waiting(judged, cooldown, now)
  <2>1. ASSUME ~concluding
        PROVE  /\ n + 1 < MAX_ROUNDS /\ judged.admissible
               /\ new[n+1].verdict \notin TerminalVerdicts
               /\ judged.next_retry_at >= new[n+1].created_at + cooldown
               /\ judged.status # "PENDING"
    BY <1>1, <1>2, <1>3, <1>5, <2>1
  <2>2. concluding => judged.status \notin {"PENDING", "RETRYABLE"}
    BY <1>3
  <2> HIDE DEF concluding
  <2>3. QED
    BY <1>2, <2>1, <2>2 DEF Waiting, new
<1>8. QED
  BY <1>6, <1>7 DEF judged, cooldown, Disciplined

\* Waiting only gets easier as the clock advances.
LEMMA DisciplineLasts ==
    ASSUME NEW claim, NEW cooldown \in Nat, NEW before \in Nat, NEW at \in Nat,
           before <= at, claim.receipts \in Seq(Receipt),
           Disciplined(claim, cooldown, before)
    PROVE  Disciplined(claim, cooldown, at)
<1> DEFINE n == Len(claim.receipts)
<1>1. n \in Nat /\ (n > 0 => claim.receipts[n].created_at \in Nat)
  <2>1. n \in Nat
    BY LenProperties
  <2>2. n > 0 => claim.receipts[n] \in Receipt
    BY <2>1, ElementOfSeq
  <2>3. QED
    BY <2>1, <2>2 DEF Receipt
<1>2. QED
  BY <1>1 DEF Disciplined, Waiting

(* Rounds are bounded and spaced, and only the first can be refused at     *)
(* admission: a claim that passed one round is admissible, and retry_claim *)
(* waits until the cooldown of the last round is over.                     *)
THEOREM RoundsCorrect == Spec => []RoundsAreDisciplined
<1>1. Init => DisciplineInv
  BY DEF Init, LedgerInit, DisciplineInv
<1>2. ASSUME TypeOK, TypeOK', DisciplineInv, [Next]_vars PROVE DisciplineInv'
  <2> SUFFICES ASSUME NEW c \in DOMAIN claims'
               PROVE  Disciplined(claims'[c], Cooldown(claims[c])', now')
    BY DEF DisciplineInv
  <2>1. now \in Nat /\ now' \in Nat /\ now <= now'
    BY <1>2, ClockStep
  <2>2. ASSUME c \in DOMAIN claims
        PROVE  /\ Cooldown(claims[c])' = Cooldown(claims[c])
               /\ Cooldown(claims[c]) \in Nat
               /\ claims[c] \in Claim /\ claims[c].receipts \in Seq(Receipt)
               /\ Disciplined(claims[c], Cooldown(claims[c]), now)
    <3>1. Cooldown(claims[c])' = Cooldown(claims[c])
      BY <1>2, <2>2, CooldownStays
    <3>2. Cooldown(claims[c]) \in Nat
      BY <1>2, <2>2, ClaimVersionType DEF Cooldown
    <3>3. QED
      BY <1>2, <2>2, <3>1, <3>2, ClaimType DEF DisciplineInv, Claim
  <2>3. CASE c \in DOMAIN claims /\ claims'[c] = claims[c]
    BY <2>1, <2>2, <2>3, DisciplineLasts
  <2>4. CASE c \notin DOMAIN claims /\ Submitting(c)
    <3>1. PICK s, p, r, ok, items : claims'[c] = NewClaim(s, p, r, ok, items)
      BY <2>4 DEF Submitting
    <3>2. claims'[c].receipts = <<>>
      <4>1. LET claim == NewClaim(s, p, r, ok, items) IN claim.receipts = <<>>
        BY NewClaimLife
      <4>2. QED
        BY <3>1, <4>1
    <3>3. Len(claims'[c].receipts) = 0 /\ MAX_ROUNDS \in Nat \ {0}
      BY <3>2, LedgerConstants
    <3>4. QED
      BY <3>3 DEF Disciplined, Spaced, Waiting
  <2>5. CASE c \in DOMAIN claims /\ Resolving(c) /\ now' = now
    <3>1. PICK verdict \in Verdicts, examined \in SUBSET Nat :
             /\ claims'[c] = Judged(claims[c], verdict, examined)
             /\ claims[c].admissible \/ verdict = "REJECTED"
      BY <2>5 DEF Resolving
    <3>2. claims[c].status = "PENDING"
      BY <2>5 DEF Resolving
    <3>3. Disciplined(Judged(claims[c], verdict, examined), Cooldown(claims[c]), now)
      BY <1>2, <2>2, <2>5, <3>1, <3>2, RoundIsDisciplined
    <3>4. QED
      BY <2>2, <2>5, <3>1, <3>3
  <2>6. CASE c \in DOMAIN claims /\ Retrying(c) /\ now' = now
    <3>1. /\ claims[c].status = "RETRYABLE" /\ now >= claims[c].next_retry_at
          /\ claims'[c].receipts = claims[c].receipts
          /\ claims'[c].status = "PENDING"
          /\ claims'[c].admissible = claims[c].admissible
      BY <2>2, <2>6 DEF Retrying, Retried, Claim
    <3> DEFINE receipts == claims[c].receipts
               n == Len(receipts)
               cooldown == Cooldown(claims[c])
    <3>2. /\ n \in Nat /\ claims[c].next_retry_at \in Nat /\ cooldown \in Nat
          /\ n > 0 => receipts[n].created_at \in Nat
      <4>1. claims[c].next_retry_at \in Nat /\ cooldown \in Nat
        BY <2>2, <2>6 DEF Claim
      <4>2. n \in Nat /\ \A i \in 1..n : receipts[i].created_at \in Nat
        BY <1>2, <2>6, ReceiptDated
      <4>3. QED
        BY <4>1, <4>2
    <3>3. /\ Spaced(claims[c], cooldown)
          /\ n < MAX_ROUNDS
          /\ n > 0 => /\ claims[c].admissible
                      /\ receipts[n].verdict \notin TerminalVerdicts
                      /\ claims[c].next_retry_at >= receipts[n].created_at + cooldown
      BY <2>2, <2>6, <3>1 DEF Disciplined, Waiting
    <3> HIDE DEF cooldown
    <3>4. Waiting(claims'[c], cooldown, now)
      BY <2>1, <3>1, <3>2, <3>3 DEF Waiting
    <3>5. Spaced(claims'[c], cooldown)
      BY <3>1, <3>3 DEF Spaced
    <3>6. QED
      BY <2>2, <2>6, <3>4, <3>5 DEF Disciplined, cooldown
  <2>7. CASE c \in DOMAIN claims /\ claims'[c] = Cancelled(claims[c])
    <3>1. /\ claims'[c].receipts = claims[c].receipts
          /\ claims'[c].status = "CANCELLED"
          /\ claims'[c].admissible = claims[c].admissible
      BY <2>2, <2>7 DEF Cancelled, Claim
    <3>2. Spaced(claims'[c], Cooldown(claims[c]))
      BY <2>2, <2>7, <3>1 DEF Disciplined, Spaced
    <3>3. Waiting(claims'[c], Cooldown(claims[c]), now')
      BY <3>1 DEF Waiting
    <3>4. QED
      BY <2>2, <2>7, <3>2, <3>3 DEF Disciplined
  <2>8. QED
    BY <1>2, <2>3, <2>4, <2>5, <2>6, <2>7, LifeStep DEF policyVars
<1>3. DisciplineInv => RoundsAreDisciplined
  BY DEF DisciplineInv, Disciplined, Spaced, RoundsAreDisciplined, Cooldown
<1>4. TypeOK /\ TypeOK' /\ DisciplineInv /\ [Next]_vars => DisciplineInv'
  BY <1>2
<1>5. QED
  BY <1>1, <1>3, <1>4, TypeCorrect, PTL DEF Spec

-------------------------------------------------------------------------------
(* What a step does to the documents: nothing, or one claim commits some.  *)

\* Claim c holds `items` now: what it held before, and fresh commitments.
Commits(c, items) ==
    /\ DOMAIN claims' = DOMAIN claims \union {c}
    /\ claims'[c].evidence = items
    /\ items \in Seq(EvidenceItem) /\ NoRepeats(items)
    /\ \A b \in DOMAIN claims : b # c => claims'[b] = claims[b]
    /\ evidence_registry' = Registered(evidence_registry, items, c)
    /\ c \in DOMAIN claims => Extends(items, claims[c].evidence)
    /\ \A i \in DOMAIN items :
          \/ c \in DOMAIN claims /\ i \in DOMAIN claims[c].evidence
          \/ items[i].committed_seq > commitment_count

NothingCommitted ==
    /\ DOMAIN claims' = DOMAIN claims
    /\ \A c \in DOMAIN claims : claims'[c].evidence = claims[c].evidence
    /\ evidence_registry' = evidence_registry

LEMMA RelocatedExtends ==
    ASSUME NEW items \in Seq(EvidenceItem), NEW moves \in Moves(items),
           NEW i \in DOMAIN items
    PROVE  SameDocument(Relocated(items, moves)[i], items[i])
<1>1. items[i] \in EvidenceItem
  BY LenProperties, ElementOfSeq
<1>2. QED
  BY <1>1 DEF Relocated, SameDocument, EvidenceItem

LEMMA AmendedExtends ==
    ASSUME NEW old \in Seq(EvidenceItem), NEW moves \in Moves(old),
           NEW batch \in Seq(Entry), NEW count \in Nat
    PROVE  Extends(Amended(old, moves, batch, count), old)
<1>1. PICK moved \in Seq(EvidenceItem) :
         /\ moved = Relocated(old, moves) /\ Len(moved) = Len(old)
  BY RelocatedType
<1>2. PICK added \in Seq(EvidenceItem) : added = Committed(batch, count)
  BY CommittedType
<1>3. PICK amended : amended = moved \o added
  OBVIOUS
<1>4. /\ DOMAIN amended = 1..Len(moved) + Len(added)
      /\ \A i \in 1..Len(moved) : amended[i] = moved[i]
  BY <1>3, ConcatType
<1>5. DOMAIN old = 1..Len(old) /\ Len(old) \in Nat /\ Len(added) \in Nat
  BY LenProperties
<1>6. \A i \in DOMAIN old : i \in DOMAIN amended /\ SameDocument(amended[i], old[i])
  BY <1>1, <1>4, <1>5, RelocatedExtends
<1>7. amended = Amended(old, moves, batch, count)
  BY <1>1, <1>2, <1>3 DEF Amended
<1>8. QED
  BY <1>6, <1>7 DEF Extends

LEMMA SubmissionCommits ==
    ASSUME TypeOK, NEW s \in Accounts, NEW p \in DOMAIN policies,
           NEW r \in References, NEW ok \in AdmissionOutcomes,
           NEW batch \in Batches(1), SubmitClaim(s, p, r, ok, batch)
    PROVE  \E c, items : Commits(c, items)
<1> DEFINE c == Len(claims) + 1
           items == Committed(batch, commitment_count)
<1>1. /\ DOMAIN claims' = 1..c
      /\ \A b \in DOMAIN claims : claims'[b] = claims[b]
      /\ claims'[c].evidence = items
  BY Submitted
<1>2. DOMAIN claims = 1..Len(claims) /\ Len(claims) \in Nat /\ commitment_count \in Nat
  BY LenProperties DEF TypeOK
<1>3. batch \in Seq(Entry) /\ Len(batch) \in Nat
  BY BatchType
<1>4. /\ items \in Seq(EvidenceItem)
      /\ DOMAIN items = 1..Len(batch)
      /\ \A i \in 1..Len(batch) : items[i].committed_seq = commitment_count + i
  BY <1>2, <1>3, CommittedType
<1>5. /\ evidence_registry' = Registered(evidence_registry, items, c)
      /\ NoRepeats(items)
  BY DEF SubmitClaim, Acceptable
<1> HIDE DEF items
<1>6. \A i \in DOMAIN items : items[i].committed_seq > commitment_count
  BY <1>2, <1>3, <1>4
<1>7. DOMAIN claims' = DOMAIN claims \union {c} /\ c \notin DOMAIN claims
  BY <1>1, <1>2
<1> HIDE DEF c
<1>8. Commits(c, items)
  BY <1>1, <1>4, <1>5, <1>6, <1>7 DEF Commits
<1>9. QED
  BY <1>8

LEMMA RetryCommits ==
    ASSUME TypeOK, RegistrySupport, NEW s \in Accounts, NEW c \in DOMAIN claims,
           NEW moves \in Moves(claims[c].evidence), NEW batch \in Batches(0),
           RetryClaim(s, c, moves, batch)
    PROVE  \E items : Commits(c, items)
<1>1. PICK old \in Seq(EvidenceItem) : old = claims[c].evidence
  BY EvidenceType
<1>2. PICK items : items = Amended(old, moves, batch, commitment_count)
  OBVIOUS
<1>3. PICK retried \in Claim :
         /\ retried.policy = claims[c].policy /\ retried.version = claims[c].version
         /\ retried.evidence = items
         /\ claims' = [claims EXCEPT ![c] = retried]
         /\ items \in Seq(EvidenceItem)
  BY <1>1, <1>2, RetriedClaim
<1>4. /\ UNCHANGED policyVars
      /\ evidence_registry' = Registered(evidence_registry, items, c)
      /\ NoRepeats(items)
  BY <1>1, <1>2 DEF RetryClaim, Acceptable
<1>5. /\ commitment_count \in Nat /\ batch \in Seq(Entry) /\ Len(batch) \in Nat
      /\ moves \in Moves(old)
  BY <1>1, BatchType DEF TypeOK
<1>6. /\ \A i \in DOMAIN old : old[i].committed_seq \in 1..commitment_count
      /\ \A i, j \in DOMAIN old : i < j => old[i].committed_seq < old[j].committed_seq
  BY <1>1 DEF RegistrySupport, SequencesGrow
<1>7. \A i \in DOMAIN items :
         \/ i \in DOMAIN old
         \/ items[i].committed_seq \in commitment_count+1..commitment_count+Len(batch)
  BY <1>2, <1>5, <1>6, AmendedSequences
<1>8. Extends(items, old)
  BY <1>2, <1>5, AmendedExtends
<1>9. /\ DOMAIN claims' = DOMAIN claims \union {c}
      /\ claims'[c].evidence = items
      /\ \A b \in DOMAIN claims : b # c => claims'[b] = claims[b]
  BY <1>3, <1>4, ReplacedClaim
<1>10. \A i \in DOMAIN items :
          i \in DOMAIN old \/ items[i].committed_seq > commitment_count
  BY <1>5, <1>7
<1>11. QED
  BY <1>1, <1>3, <1>4, <1>8, <1>9, <1>10 DEF Commits

LEMMA CommitmentStep ==
    ASSUME TypeOK, RegistrySupport, [Next]_vars
    PROVE  NothingCommitted \/ \E c, items : Commits(c, items)
<1>1. ASSUME UNCHANGED ledgerVars PROVE NothingCommitted
  BY <1>1 DEF ledgerVars, NothingCommitted
<1>2. ASSUME NEW c \in DOMAIN claims, RejectAtAdmission(c) PROVE NothingCommitted
  <2>1. /\ claims' = [claims EXCEPT ![c] = Judged(claims[c], "REJECTED", {})]
        /\ UNCHANGED policyVars /\ evidence_registry' = evidence_registry
        /\ "REJECTED" \in Verdicts /\ {} \in SUBSET Nat
    BY <1>2 DEF RejectAtAdmission, Verdicts
  <2>2. QED
    BY <2>1, JudgedClaims DEF NothingCommitted
<1>3. ASSUME NEW c \in DOMAIN claims, AdjudicateRound(c) PROVE NothingCommitted
  <2>1. PICK examined \in SUBSET DOMAIN claims[c].evidence, verdict \in Verdicts :
           /\ claims' = [claims EXCEPT ![c] = Judged(claims[c], verdict, examined)]
           /\ UNCHANGED <<policyVars, evidence_registry, commitment_count>>
    BY <1>3, Adjudicated
  <2>2. examined \in SUBSET Nat
    BY EvidenceType, ItemType
  <2>3. QED
    BY <2>1, <2>2, JudgedClaims DEF NothingCommitted
<1>4. ASSUME NEW s \in Accounts, NEW c \in DOMAIN claims, CancelClaim(s, c)
      PROVE  NothingCommitted
  <2>1. Cancelled(claims[c]).evidence = claims[c].evidence
    BY ClaimType, CancelledType
  <2>2. claims' = [claims EXCEPT ![c] = Cancelled(claims[c])]
        /\ evidence_registry' = evidence_registry
    BY <1>4 DEF CancelClaim
  <2>3. QED
    BY <2>1, <2>2 DEF NothingCommitted
<1>5. UNCHANGED vars => UNCHANGED ledgerVars
  BY DEF vars
<1>6. QED
  BY <1>1, <1>2, <1>3, <1>4, <1>5, SubmissionCommits, RetryCommits
     DEF Next, ClaimNext, ResolveClaim

-------------------------------------------------------------------------------
(* Judged evidence stays.                                                  *)

LEMMA ExtendsItself ==
    ASSUME NEW items PROVE Extends(items, items)
BY DEF Extends, SameDocument

LEMMA ExtendsOnwards ==
    ASSUME NEW a, NEW b, NEW c, Extends(a, b), Extends(b, c) PROVE Extends(a, c)
BY DEF Extends, SameDocument

LEMMA EvidenceExtends ==
    ASSUME TypeOK, RegistrySupport, [Next]_vars, NEW c \in DOMAIN claims
    PROVE  c \in DOMAIN claims' /\ Extends(claims'[c].evidence, claims[c].evidence)
<1>1. CASE NothingCommitted
  BY <1>1, ExtendsItself DEF NothingCommitted
<1>2. ASSUME NEW b, NEW items, Commits(b, items)
      PROVE  c \in DOMAIN claims' /\ Extends(claims'[c].evidence, claims[c].evidence)
  BY <1>2, ExtendsItself DEF Commits
<1>3. QED
  BY <1>1, <1>2, CommitmentStep

(* A claim's receipts after a step: as they were, or one more that quotes  *)
(* the evidence the claim keeps.                                           *)
LEMMA ReceiptAdded ==
    ASSUME TypeOK, [Next]_vars, NEW c \in DOMAIN claims, c \in DOMAIN claims'
    PROVE  \/ claims'[c].receipts = claims[c].receipts
           \/ /\ claims'[c].evidence = claims[c].evidence
              /\ \E receipt : /\ receipt.evidence = claims[c].evidence
                              /\ claims'[c].receipts = Append(claims[c].receipts, receipt)
<1>1. claims[c] \in Claim
  BY ClaimType
<1>2. CASE Resolving(c)
  <2>1. PICK verdict \in Verdicts, examined \in SUBSET Nat :
           claims'[c] = Judged(claims[c], verdict, examined)
    BY <1>2 DEF Resolving
  <2> DEFINE receipt == [verdict |-> verdict, created_at |-> now,
                         evidence |-> claims[c].evidence, examined |-> examined]
  <2>2. /\ claims'[c].evidence = claims[c].evidence
        /\ claims'[c].receipts = Append(claims[c].receipts, receipt)
    BY <2>1, JudgedType
  <2>3. receipt.evidence = claims[c].evidence
    OBVIOUS
  <2> HIDE DEF receipt
  <2>4. QED
    BY <2>2, <2>3
<1>3. CASE Retrying(c)
  BY <1>1, <1>3, RetriedType DEF Retrying
<1>4. CASE claims'[c] = Cancelled(claims[c])
  BY <1>1, <1>4, CancelledType
<1>5. QED
  BY <1>2, <1>3, <1>4, LifeStep

\* What JudgedEvidenceStays says of one claim's receipts.
ReceiptsExtend(claim) ==
    \A n \in DOMAIN claim.receipts :
        /\ Extends(claim.evidence, claim.receipts[n].evidence)
        /\ \A m \in 1..n :
              Extends(claim.receipts[n].evidence, claim.receipts[m].evidence)

LEMMA ReceiptsExtendStep ==
    ASSUME TypeOK, RegistrySupport, [Next]_vars, NEW c \in DOMAIN claims,
           c \in DOMAIN claims', ReceiptsExtend(claims[c])
    PROVE  ReceiptsExtend(claims'[c])
<1> DEFINE old == claims[c].receipts
           items == claims[c].evidence
<1>1. old \in Seq(Receipt) /\ DOMAIN old = 1..Len(old) /\ Len(old) \in Nat
  BY ReceiptDated, LenProperties
<1>2. Extends(claims'[c].evidence, items)
  BY EvidenceExtends
<1>3. /\ \A n \in DOMAIN old : Extends(items, old[n].evidence)
      /\ \A n \in DOMAIN old : \A m \in 1..n : Extends(old[n].evidence, old[m].evidence)
  BY DEF ReceiptsExtend
<1>4. CASE claims'[c].receipts = old
  <2>1. \A n \in DOMAIN old : Extends(claims'[c].evidence, old[n].evidence)
    BY <1>2, <1>3, ExtendsOnwards
  <2> HIDE DEF old
  <2>2. QED
    BY <1>3, <1>4, <2>1 DEF ReceiptsExtend
<1>5. ASSUME claims'[c].evidence = items, NEW receipt, receipt.evidence = items,
             claims'[c].receipts = Append(old, receipt)
      PROVE  ReceiptsExtend(claims'[c])
  <2> DEFINE new == claims'[c].receipts
  <2>1. /\ DOMAIN new = 1..Len(old) + 1
        /\ \A n \in DOMAIN old : new[n] = old[n]
        /\ new[Len(old) + 1] = receipt
    <3>1. old \in Seq(Receipt \union {receipt})
      BY <1>1, LenProperties
    <3>2. QED
      BY <1>1, <1>5, <3>1, AppendProperties, LenProperties
  <2> HIDE DEF old, new, items
  <2>2. ASSUME NEW n \in DOMAIN new
        PROVE  /\ Extends(items, new[n].evidence)
               /\ \A m \in 1..n : Extends(new[n].evidence, new[m].evidence)
    <3>1. CASE n \in DOMAIN old
      <4>1. \A m \in 1..n : m \in DOMAIN old
        BY <1>1, <3>1
      <4>2. QED
        BY <1>3, <2>1, <3>1, <4>1
    <3>2. CASE n = Len(old) + 1
      <4>1. \A m \in 1..n : m \in DOMAIN old \/ m = n
        BY <1>1, <3>2
      <4>2. new[n].evidence = items /\ Extends(items, items)
        BY <1>5, <2>1, <3>2, ExtendsItself
      <4>3. QED
        BY <1>3, <2>1, <4>1, <4>2
    <3>3. QED
      BY <1>1, <2>1, <2>2, <3>1, <3>2
  <2>3. QED
    BY <1>5, <2>2 DEF ReceiptsExtend, new
<1>6. QED
  BY <1>4, <1>5, ReceiptAdded

(* What a round judged stays in the claim, in place: every receipt's       *)
(* evidence is carried by each later receipt and by the claim itself,      *)
(* whatever retries relocate and add.                                      *)
THEOREM EvidenceStays == Spec => []JudgedEvidenceStays
<1> DEFINE Inv == \A c \in DOMAIN claims : ReceiptsExtend(claims[c])
<1>1. Init => Inv
  BY DEF Init, LedgerInit
<1>2. ASSUME TypeOK, RegistrySupport, Inv, [Next]_vars PROVE Inv'
  <2>1. ASSUME NEW c \in DOMAIN claims' PROVE ReceiptsExtend(claims'[c])
    <3>1. CASE c \in DOMAIN claims
      BY <1>2, <2>1, <3>1, ReceiptsExtendStep
    <3>2. CASE c \notin DOMAIN claims
      <4>1. PICK s, p, r, ok, items : claims'[c] = NewClaim(s, p, r, ok, items)
        BY <1>2, <2>1, <3>2, LifeStep DEF Submitting
      <4>2. LET claim == NewClaim(s, p, r, ok, items) IN claim.receipts = <<>>
        BY NewClaimLife
      <4>3. claims'[c].receipts = <<>>
        BY <4>1, <4>2
      <4>4. QED
        BY <4>3 DEF ReceiptsExtend
    <3>3. QED
      BY <3>1, <3>2
  <2>2. QED
    BY <2>1 DEF ReceiptsExtend
<1>3. Inv /\ RegistrySupport => JudgedEvidenceStays
  BY DEF ReceiptsExtend, RegistrySupport, SequencesGrow, JudgedEvidenceStays
<1>4. TypeOK /\ RegistrySupport /\ Inv /\ [Next]_vars => Inv'
  BY <1>2
<1> HIDE DEF Inv
<1>5. QED
  BY <1>1, <1>3, <1>4, TypeCorrect, RegistrySupported, PTL DEF Spec

-------------------------------------------------------------------------------
(* Bytes belong to their first committer.                                  *)

\* In a state of the claims: f holds document d, at a commitment no later
\* than seq.
HoldsBy(state, f, d, seq) ==
    /\ f \in DOMAIN state
    /\ \E j \in DOMAIN state[f].evidence :
          /\ state[f].evidence[j].sha256 = d
          /\ state[f].evidence[j].committed_seq <= seq

\* The registry's claim f holds d, and no commitment of d is earlier.
FirstHolds(state, f, d) ==
    /\ f # NoClaim =>
          /\ f \in DOMAIN state
          /\ \E j \in DOMAIN state[f].evidence : state[f].evidence[j].sha256 = d
    /\ \A c \in DOMAIN state : \A i \in DOMAIN state[c].evidence :
          state[c].evidence[i].sha256 = d
             => HoldsBy(state, f, d, state[c].evidence[i].committed_seq)

FirstInv ==
    /\ \A c \in DOMAIN claims : NoRepeats(claims[c].evidence)
    /\ \A d \in Documents : FirstHolds(claims, evidence_registry[d], d)

LEMMA FirstHoldsStep ==
    ASSUME TypeOK, TypeOK', RegistrySupport, NEW c, NEW items, Commits(c, items),
           NEW d \in Documents, FirstHolds(claims, evidence_registry[d], d)
    PROVE  FirstHolds(claims', evidence_registry'[d], d)
<1>1. PICK old, new, f, g :
         old = claims /\ new = claims'
         /\ f = evidence_registry[d] /\ g = evidence_registry'[d]
  OBVIOUS
<1>2. /\ DOMAIN new = DOMAIN old \union {c}
      /\ new[c].evidence = items
      /\ \A b \in DOMAIN old : b # c => new[b] = old[b]
      /\ \A i \in DOMAIN items :
            \/ c \in DOMAIN old /\ i \in DOMAIN old[c].evidence
            \/ items[i].committed_seq > commitment_count
  BY <1>1 DEF Commits
<1>3. g = IF f = NoClaim /\ \E i \in DOMAIN items : items[i].sha256 = d THEN c ELSE f
  BY <1>1 DEF Commits, Registered
<1>4. \A b \in DOMAIN old : \A i \in DOMAIN old[b].evidence :
         /\ i \in DOMAIN new[b].evidence
         /\ new[b].evidence[i].sha256 = old[b].evidence[i].sha256
         /\ new[b].evidence[i].committed_seq = old[b].evidence[i].committed_seq
  BY <1>1 DEF Commits, Extends, SameDocument
<1>5. FirstHolds(old, f, d)
  BY <1>1
<1>6. ASSUME NEW b \in DOMAIN new, NEW i \in DOMAIN new[b].evidence
      PROVE  new[b].evidence[i].committed_seq \in Nat
  <2>1. new \in Seq(Claim)
    BY <1>1 DEF TypeOK
  <2>2. new[b] \in Claim
    BY <2>1, ElementOfSeq, LenProperties
  <2>3. new[b].evidence \in Seq(EvidenceItem)
    BY <2>2 DEF Claim
  <2>4. QED
    BY <2>3, ItemType
<1>7. CASE f = NoClaim
  <2>1. NoClaim \notin DOMAIN old
    BY <1>1, ClaimType
  <2>2. \A b \in DOMAIN old : \A i \in DOMAIN old[b].evidence :
           old[b].evidence[i].sha256 # d
    BY <1>5, <1>7, <2>1 DEF FirstHolds, HoldsBy
  <2>3. ASSUME NEW b \in DOMAIN new, NEW i \in DOMAIN new[b].evidence,
               new[b].evidence[i].sha256 = d
        PROVE  HoldsBy(new, g, d, new[b].evidence[i].committed_seq)
    <3>1. b = c
      BY <1>2, <2>2, <2>3
    <3>2. g = c
      BY <1>2, <1>3, <1>7, <2>3, <3>1
    <3>3. new[b].evidence[i].committed_seq <= new[b].evidence[i].committed_seq
      BY <1>6
    <3>4. QED
      BY <2>3, <3>1, <3>2, <3>3 DEF HoldsBy
  <2>4. g # NoClaim =>
           /\ g \in DOMAIN new
           /\ \E j \in DOMAIN new[g].evidence : new[g].evidence[j].sha256 = d
    BY <1>2, <1>3, <1>7
  <2>5. QED
    BY <1>1, <2>3, <2>4 DEF FirstHolds
<1>8. CASE f # NoClaim
  <2>1. g = f /\ f \in DOMAIN old /\ f \in DOMAIN new
    BY <1>2, <1>3, <1>5, <1>8 DEF FirstHolds
  <2>2. PICK j \in DOMAIN old[f].evidence : old[f].evidence[j].sha256 = d
    BY <1>5, <1>8 DEF FirstHolds
  <2>3. ASSUME NEW b \in DOMAIN new, NEW i \in DOMAIN new[b].evidence,
               new[b].evidence[i].sha256 = d
        PROVE  HoldsBy(new, f, d, new[b].evidence[i].committed_seq)
    <3>1. CASE b \in DOMAIN old /\ i \in DOMAIN old[b].evidence
      <4>1. /\ old[b].evidence[i].sha256 = d
            /\ old[b].evidence[i].committed_seq = new[b].evidence[i].committed_seq
        BY <1>4, <2>3, <3>1
      <4>2. HoldsBy(old, f, d, new[b].evidence[i].committed_seq)
        BY <1>5, <3>1, <4>1 DEF FirstHolds
      <4>3. QED
        BY <1>4, <2>1, <4>2 DEF HoldsBy
    <3>2. CASE ~ (b \in DOMAIN old /\ i \in DOMAIN old[b].evidence)
      <4>1. b = c /\ new[b].evidence[i].committed_seq > commitment_count
        BY <1>2, <2>3, <3>2
      <4>2. old[f].evidence[j].committed_seq \in 1..commitment_count
        BY <1>1, <2>1, <2>2 DEF RegistrySupport, SequencesGrow
      <4>3. commitment_count \in Nat /\ new[b].evidence[i].committed_seq \in Nat
        BY <1>6 DEF TypeOK
      <4>4. new[f].evidence[j].committed_seq <= new[b].evidence[i].committed_seq
        BY <1>4, <2>1, <2>2, <4>1, <4>2, <4>3
      <4>5. j \in DOMAIN new[f].evidence /\ new[f].evidence[j].sha256 = d
        BY <1>4, <2>1, <2>2
      <4>6. QED
        BY <2>1, <4>4, <4>5 DEF HoldsBy
    <3>3. QED
      BY <3>1, <3>2
  <2>4. \E k \in DOMAIN new[f].evidence : new[f].evidence[k].sha256 = d
    BY <1>4, <2>1, <2>2
  <2>5. QED
    BY <1>1, <2>1, <2>3, <2>4 DEF FirstHolds
<1>9. QED
  BY <1>7, <1>8

LEMMA FirstInvStep ==
    ASSUME TypeOK, TypeOK', RegistrySupport, FirstInv, [Next]_vars
    PROVE  FirstInv'
<1>1. CASE NothingCommitted
  <2>1. ASSUME NEW d \in Documents
        PROVE  FirstHolds(claims', evidence_registry'[d], d)
    <3>1. FirstHolds(claims, evidence_registry[d], d)
      BY DEF FirstInv
    <3>2. QED
      BY <1>1, <3>1 DEF NothingCommitted, FirstHolds, HoldsBy
  <2>2. \A c \in DOMAIN claims' : NoRepeats(claims'[c].evidence)
    BY <1>1 DEF NothingCommitted, FirstInv
  <2>3. QED
    BY <2>1, <2>2 DEF FirstInv, NoRepeats
<1>2. ASSUME NEW c, NEW items, Commits(c, items) PROVE FirstInv'
  <2>1. \A d \in Documents : FirstHolds(claims', evidence_registry'[d], d)
    BY <1>2, FirstHoldsStep DEF FirstInv
  <2>2. \A b \in DOMAIN claims' : NoRepeats(claims'[b].evidence)
    BY <1>2 DEF Commits, FirstInv
  <2>3. QED
    BY <2>1, <2>2 DEF FirstInv
<1>3. QED
  BY <1>1, <1>2, CommitmentStep

LEMMA FirstCommitterFound ==
    ASSUME TypeOK, FirstInv PROVE FirstCommitterHolds
<1> DEFINE holders(d) == {c \in DOMAIN claims :
                             \E i \in DOMAIN claims[c].evidence :
                                claims[c].evidence[i].sha256 = d}
           at(c, d) == CHOOSE j \in DOMAIN claims[c].evidence :
                          claims[c].evidence[j].sha256 = d
           seq(c, d) == claims[c].evidence[at(c, d)].committed_seq
<1>1. ASSUME NEW d, NEW c \in holders(d)
      PROVE  /\ at(c, d) \in DOMAIN claims[c].evidence
             /\ claims[c].evidence[at(c, d)].sha256 = d
  BY <1>1
<1>2. ASSUME NEW d, NEW c \in holders(d), NEW j \in DOMAIN claims[c].evidence,
             claims[c].evidence[j].sha256 = d, FirstInv
      PROVE  at(c, d) = j
  <2>1. NoRepeats(claims[c].evidence)
    BY <1>2 DEF FirstInv
  <2>2. at(c, d) \in DOMAIN claims[c].evidence /\ claims[c].evidence[at(c, d)].sha256 = d
    BY <1>1
  <2> HIDE DEF at
  <2>3. QED
    BY <1>2, <2>1, <2>2 DEF NoRepeats
<1>3. ASSUME NEW d \in Documents
      PROVE  IF holders(d) = {} THEN evidence_registry[d] = NoClaim
             ELSE /\ evidence_registry[d] \in holders(d)
                  /\ \A c \in holders(d) : seq(evidence_registry[d], d) <= seq(c, d)
  <2>1. FirstHolds(claims, evidence_registry[d], d)
    BY DEF FirstInv
  <2>2. CASE holders(d) = {}
    BY <2>1, <2>2 DEF FirstHolds
  <2>3. ASSUME NEW c \in holders(d)
        PROVE  /\ evidence_registry[d] \in holders(d)
               /\ seq(evidence_registry[d], d) <= seq(c, d)
    <3>1. HoldsBy(claims, evidence_registry[d], d, seq(c, d))
      <4>1. at(c, d) \in DOMAIN claims[c].evidence /\ claims[c].evidence[at(c, d)].sha256 = d
        BY <1>1
      <4> HIDE DEF at
      <4>2. QED
        BY <2>1, <4>1 DEF FirstHolds
    <3> HIDE DEF seq
    <3>2. PICK j \in DOMAIN claims[evidence_registry[d]].evidence :
             /\ claims[evidence_registry[d]].evidence[j].sha256 = d
             /\ claims[evidence_registry[d]].evidence[j].committed_seq <= seq(c, d)
      BY <3>1 DEF HoldsBy
    <3>3. evidence_registry[d] \in holders(d)
      BY <3>1, <3>2 DEF HoldsBy
    <3> HIDE DEF at, holders
    <3>4. at(evidence_registry[d], d) = j
      BY <1>2, <3>2, <3>3
    <3>5. QED
      BY <3>2, <3>3, <3>4 DEF seq
  <2> HIDE DEF seq, at, holders
  <2>4. QED
    BY <2>2, <2>3
<1>4. QED
  BY <1>3 DEF FirstCommitterHolds

(* The registry names, for every document, the claim whose commitment of   *)
(* it has the smallest sequence number: a later commitment is numbered     *)
(* above everything before it, and an entry once written stays.            *)
THEOREM FirstCommitterFirst == Spec => []FirstCommitterHolds
<1>1. Init => FirstInv
  BY DEF Init, LedgerInit, FirstInv, FirstHolds, HoldsBy
<1>2. TypeOK /\ TypeOK' /\ RegistrySupport /\ FirstInv /\ [Next]_vars => FirstInv'
  BY FirstInvStep
<1>3. TypeOK /\ FirstInv => FirstCommitterHolds
  BY FirstCommitterFound
<1>4. QED
  BY <1>1, <1>2, <1>3, TypeCorrect, RegistrySupported, PTL DEF Spec

-------------------------------------------------------------------------------
(* A document number goes to the earliest commitment examined.             *)

\* The receipt examined a document of key k, committed as number seq.
ExaminedAs(receipt, k, seq) ==
    \E i \in Facts(receipt.evidence, receipt.examined) :
        /\ Key(receipt.evidence[i]) = k
        /\ receipt.evidence[i].committed_seq = seq

EntriesAreExamined ==
    \A k \in DocumentKeys :
        LET entry == document_registry[k]
        IN entry # NoEntry =>
              /\ entry.claim \in DOMAIN claims
              /\ \E n \in DOMAIN claims[entry.claim].receipts :
                    ExaminedAs(claims[entry.claim].receipts[n], k, entry.seq)

LEMMA LastIsAppended ==
    ASSUME NEW s, NEW S, s \in Seq(S), NEW x
    PROVE  Len(s) + 1 \in DOMAIN Append(s, x) /\ Append(s, x)[Len(s) + 1] = x
<1>1. s \in Seq(S \union {x})
  BY LenProperties
<1>2. QED
  BY <1>1, AppendProperties, LenProperties

(* The round that moves a key's entry stores a receipt that examined it.   *)
LEMMA RoundExamines ==
    ASSUME TypeOK, NEW c \in DOMAIN claims, AdjudicateRound(c), NEW k \in DocumentKeys
    PROVE  \/ document_registry'[k] = document_registry[k]
           \/ \E seq : /\ document_registry'[k] = [seq |-> seq, claim |-> c]
                       /\ \E n \in DOMAIN claims'[c].receipts :
                             ExaminedAs(claims'[c].receipts[n], k, seq)
<1>1. PICK items \in Seq(EvidenceItem) : items = claims[c].evidence
  BY EvidenceType
<1>2. PICK examined \in SUBSET DOMAIN items, verdict \in Verdicts :
         /\ claims' = [claims EXCEPT ![c] = Judged(claims[c], verdict, examined)]
         /\ document_registry' =
               Recorded(document_registry, items, Facts(items, examined), c)
  BY <1>1, Adjudicated
<1>3. Facts(items, examined) \in SUBSET DOMAIN items /\ examined \in SUBSET Nat
  BY <1>2, ItemType DEF Facts
<1>4. PICK receipt : /\ receipt.evidence = items /\ receipt.examined = examined
                     /\ claims'[c].receipts = Append(claims[c].receipts, receipt)
  <2>1. PICK receipt : receipt = [verdict |-> verdict, created_at |-> now,
                                  evidence |-> claims[c].evidence,
                                  examined |-> examined]
    OBVIOUS
  <2>2. claims'[c].receipts = Append(claims[c].receipts, receipt)
    BY <1>2, <1>3, <2>1, JudgedType
  <2>3. receipt.evidence = items /\ receipt.examined = examined
    BY <1>1, <2>1
  <2>4. QED
    BY <2>2, <2>3
<1>5. PICK n \in DOMAIN claims'[c].receipts : claims'[c].receipts[n] = receipt
  BY <1>4, ReceiptDated, LastIsAppended
<1>6. PICK carriers : carriers = Carriers(items, Facts(items, examined), k)
  OBVIOUS
<1>7. /\ carriers = {} => document_registry'[k] = document_registry[k]
      /\ carriers # {} => \E f \in carriers :
            document_registry'[k] =
               IF document_registry[k] = NoEntry
                  \/ items[f].committed_seq < document_registry[k].seq
               THEN [seq |-> items[f].committed_seq, claim |-> c]
               ELSE document_registry[k]
  BY <1>2, <1>3, <1>6, RecordedAs
<1>8. ASSUME NEW f \in carriers
      PROVE  ExaminedAs(claims'[c].receipts[n], k, items[f].committed_seq)
  BY <1>4, <1>5, <1>6 DEF ExaminedAs, Carriers
<1>9. QED
  BY <1>5, <1>7, <1>8, Zenon

LEMMA ExaminedStep ==
    ASSUME TypeOK, EntriesAreExamined, [Next]_vars
    PROVE  EntriesAreExamined'
<1>1. ASSUME NEW k \in DocumentKeys, document_registry'[k] # NoEntry
      PROVE  LET entry == document_registry'[k]
             IN /\ entry.claim \in DOMAIN claims'
                /\ \E n \in DOMAIN claims'[entry.claim].receipts :
                      ExaminedAs(claims'[entry.claim].receipts[n], k, entry.seq)
  <2>1. CASE document_registry'[k] = document_registry[k]
    <3>1. PICK b, seq : b = document_registry[k].claim /\ seq = document_registry[k].seq
      OBVIOUS
    <3>2. /\ b \in DOMAIN claims
          /\ \E n \in DOMAIN claims[b].receipts : ExaminedAs(claims[b].receipts[n], k, seq)
      BY <1>1, <2>1, <3>1 DEF EntriesAreExamined
    <3>3. /\ b \in DOMAIN claims'
          /\ \E n \in DOMAIN claims'[b].receipts : ExaminedAs(claims'[b].receipts[n], k, seq)
      BY <3>2, ConcludedStays, ReceiptsStep
    <3>4. QED
      BY <2>1, <3>1, <3>3
  <2>2. ASSUME NEW c \in DOMAIN claims, AdjudicateRound(c),
               document_registry'[k] # document_registry[k]
        PROVE  /\ document_registry'[k].claim \in DOMAIN claims'
               /\ \E n \in DOMAIN claims'[document_registry'[k].claim].receipts :
                     ExaminedAs(claims'[document_registry'[k].claim].receipts[n], k,
                                document_registry'[k].seq)
    <3>1. PICK seq : /\ document_registry'[k] = [seq |-> seq, claim |-> c]
                     /\ \E n \in DOMAIN claims'[c].receipts :
                           ExaminedAs(claims'[c].receipts[n], k, seq)
      BY <2>2, RoundExamines
    <3>2. document_registry'[k].claim = c /\ document_registry'[k].seq = seq
      BY <3>1
    <3>3. c \in DOMAIN claims'
      BY ConcludedStays
    <3>4. QED
      BY <3>1, <3>2, <3>3
  <2>3. \/ document_registry'[k] = document_registry[k]
        \/ \E c \in DOMAIN claims : AdjudicateRound(c)
    BY DEF Next, ClaimNext, ResolveClaim, SubmitClaim, RejectAtAdmission,
           RetryClaim, CancelClaim, vars, ledgerVars
  <2>4. QED
    BY <2>1, <2>2, <2>3
<1>2. QED
  BY <1>1 DEF EntriesAreExamined

LEMMA IntervalSize ==
    ASSUME NEW n \in Nat PROVE IsFiniteSet(1..n) /\ Cardinality(1..n) = n
<1>1. IsFiniteSet(1..n) /\ Cardinality(1..n) = IF 1 > n THEN 0 ELSE n - 1 + 1
  BY FS_Interval
<1>2. QED
  BY <1>1

(* Commitments are numbered, so no list is longer than the counter.        *)
LEMMA ListWithinCount ==
    ASSUME TypeOK, RegistrySupport, NEW c \in DOMAIN claims
    PROVE  Len(claims[c].evidence) <= commitment_count
<1>1. PICK items \in Seq(EvidenceItem) : items = claims[c].evidence
  BY EvidenceType
<1>2. DOMAIN items = 1..Len(items) /\ Len(items) \in Nat /\ commitment_count \in Nat
  BY LenProperties DEF TypeOK
<1> DEFINE number == [i \in 1..Len(items) |-> items[i].committed_seq]
<1>3. /\ number \in [1..Len(items) -> 1..commitment_count]
      /\ \A i, j \in 1..Len(items) : i < j => number[i] < number[j]
  BY <1>1, <1>2 DEF RegistrySupport, SequencesGrow
<1>4. SUFFICES ASSUME commitment_count < Len(items) PROVE FALSE
  BY <1>1, <1>2
<1>5. /\ IsFiniteSet(1..Len(items)) /\ Cardinality(1..Len(items)) = Len(items)
      /\ IsFiniteSet(1..commitment_count)
      /\ Cardinality(1..commitment_count) = commitment_count
  BY <1>2, IntervalSize
<1> HIDE DEF number
<1>6. PICK i, j \in 1..Len(items) : i # j /\ number[i] = number[j]
  BY <1>3, <1>4, <1>5, FS_PigeonHole
<1>7. number[i] \in 1..commitment_count
  BY <1>3
<1>8. QED
  BY <1>2, <1>3, <1>6, <1>7

LEMMA EarliestFound ==
    ASSUME TypeOK, RegistrySupport, RoundsAreDisciplined, EntriesAreExamined
    PROVE  EarliestCommitmentHolds
<1>1. ASSUME NEW k \in DocumentKeys, NEW e \in Examinations(k)
      PROVE  /\ document_registry[k] # NoEntry
             /\ document_registry[k].seq <= CommittedSeq(e)
  <2>1. PICK c, n :
           /\ c = e.claim /\ n = e.round
           /\ c \in DOMAIN claims /\ n \in DOMAIN claims[c].receipts
           /\ e.item \in Facts(claims[c].receipts[n].evidence,
                               claims[c].receipts[n].examined)
           /\ Key(claims[c].receipts[n].evidence[e.item]) = k
    BY <1>1 DEF Examinations
  <2>2. Covers(document_registry, claims[c].receipts[n])
    BY <2>1 DEF RegistrySupport, EntriesCover
  <2>3. QED
    BY <2>1, <2>2 DEF Covers, CommittedSeq
<1>2. ASSUME NEW k \in DocumentKeys, document_registry[k] # NoEntry
      PROVE  \E e \in Examinations(k) :
                /\ e.claim = document_registry[k].claim
                /\ CommittedSeq(e) = document_registry[k].seq
  <2>1. PICK c, seq : c = document_registry[k].claim /\ seq = document_registry[k].seq
    OBVIOUS
  <2>2. PICK n \in DOMAIN claims[c].receipts : ExaminedAs(claims[c].receipts[n], k, seq)
    BY <1>2, <2>1 DEF EntriesAreExamined
  <2>3. PICK i \in Facts(claims[c].receipts[n].evidence, claims[c].receipts[n].examined) :
           /\ Key(claims[c].receipts[n].evidence[i]) = k
           /\ claims[c].receipts[n].evidence[i].committed_seq = seq
    BY <2>2 DEF ExaminedAs
  <2>4. c \in DOMAIN claims
    BY <1>2, <2>1 DEF EntriesAreExamined
  <2>5. n \in 1..MAX_ROUNDS
    <3>1. DOMAIN claims[c].receipts = 1..Len(claims[c].receipts)
          /\ Len(claims[c].receipts) \in Nat
      BY <2>4, ReceiptDated, LenProperties
    <3>2. Len(claims[c].receipts) <= MAX_ROUNDS
      BY <2>4 DEF RoundsAreDisciplined
    <3>3. QED
      BY <3>1, <3>2, LedgerConstants
  <2>6. i \in 1..commitment_count
    <3>1. i \in DOMAIN claims[c].evidence
      BY <2>3, <2>4 DEF RegistrySupport, ReceiptsQuote, Facts
    <3>2. /\ DOMAIN claims[c].evidence = 1..Len(claims[c].evidence)
          /\ Len(claims[c].evidence) \in Nat /\ commitment_count \in Nat
      BY <2>4, EvidenceType, LenProperties DEF TypeOK
    <3>3. Len(claims[c].evidence) <= commitment_count
      BY <2>4, ListWithinCount
    <3>4. QED
      BY <3>1, <3>2, <3>3
  <2>7. PICK e : e = [claim |-> c, round |-> n, item |-> i]
    OBVIOUS
  <2>8. /\ e \in [claim: DOMAIN claims, round: 1..MAX_ROUNDS, item: 1..commitment_count]
        /\ e.claim = c /\ e.round = n /\ e.item = i
    BY <2>4, <2>5, <2>6, <2>7
  <2>9. e \in Examinations(k)
    BY <2>3, <2>8 DEF Examinations
  <2>10. CommittedSeq(e) = seq
    BY <2>3, <2>8 DEF CommittedSeq
  <2>11. QED
    BY <2>1, <2>8, <2>9, <2>10
<1>3. QED
  BY <1>1, <1>2, Zenon DEF EarliestCommitmentHolds

(* The document registry holds, for every issuer and number, exactly the   *)
(* earliest commitment any round has examined: an entry is backed by a     *)
(* receipt that stays, and every later examination only moves it back.     *)
THEOREM EarliestIsHeld == Spec => []EarliestCommitmentHolds
<1>1. Init => EntriesAreExamined
  BY DEF Init, LedgerInit, EntriesAreExamined
<1>2. TypeOK /\ EntriesAreExamined /\ [Next]_vars => EntriesAreExamined'
  BY ExaminedStep
<1>3. TypeOK /\ RegistrySupport /\ RoundsAreDisciplined /\ EntriesAreExamined
         => EarliestCommitmentHolds
  BY EarliestFound
<1>4. QED
  BY <1>1, <1>2, <1>3, TypeCorrect, RegistrySupported, RoundsCorrect, PTL DEF Spec

-------------------------------------------------------------------------------
(* A VALID verdict rests on bytes its claimant was entitled to.            *)

(* The claim that first committed the item's bytes is c itself, withdrawn  *)
(* by c's claimant before any round judged it, or both declare the bytes   *)
(* as an ownership record.                                                 *)
Backed(c, item) ==
    LET first == evidence_registry[item.sha256]
    IN /\ first \in DOMAIN claims
       /\ \/ first = c
          \/ WithdrawnUnjudged(claims[first], claims[c].claimant)
          \/ /\ item.kind = "OWNERSHIP_RECORD"
             /\ CommittedAs(claims[first], item.sha256, "OWNERSHIP_RECORD")

ValidIsBacked ==
    \A c \in DOMAIN claims :
        claims[c].verdict = "VALID" =>
            /\ claims[c].status = "RESOLVED"
            /\ \A i \in DOMAIN claims[c].evidence : Backed(c, claims[c].evidence[i])

(* A round that ends VALID examined every document and met no duplicate.   *)
ValidRound(c) ==
    /\ claims'[c].evidence = claims[c].evidence
    /\ claims'[c].status = "RESOLVED"
    /\ \A i \in DOMAIN claims[c].evidence :
          ~DuplicateEvidence(claims[c].evidence[i], c)

LEMMA AdjudicatedValid ==
    ASSUME TypeOK, NEW c \in DOMAIN claims, AdjudicateRound(c),
           claims'[c].verdict = "VALID"
    PROVE  ValidRound(c)
<1> DEFINE items == claims[c].evidence
           readable == {i \in DOMAIN items : Readable(items[i])}
<1>1. PICK examined \in SUBSET readable :
         \E base \in RoundVerdicts(DOMAIN items, readable, examined) :
            claims' = [claims EXCEPT ![c] =
                          Judged(claims[c], IF RegistryHit(c, items, examined)
                                            THEN "SUSPICIOUS" ELSE base, examined)]
  BY DEF AdjudicateRound
<1>2. PICK base, verdict :
         /\ base \in RoundVerdicts(DOMAIN items, readable, examined)
         /\ verdict = IF RegistryHit(c, items, examined) THEN "SUSPICIOUS" ELSE base
         /\ claims' = [claims EXCEPT ![c] = Judged(claims[c], verdict, examined)]
  BY <1>1
<1>3. verdict \in Verdicts /\ examined \in SUBSET Nat
  <2>1. base \in Verdicts /\ "SUSPICIOUS" \in Verdicts
    BY <1>2 DEF RoundVerdicts, Verdicts
  <2>2. DOMAIN items \subseteq Nat
    BY EvidenceType, ItemType
  <2>3. QED
    BY <1>2, <2>1, <2>2
<1>4. claims'[c] = Judged(claims[c], verdict, examined)
  BY <1>2
<1>5. verdict = "VALID"
  <2>1. claims[c] \in Claim
    BY ClaimType
  <2>2. Judged(claims[c], verdict, examined).verdict = verdict
    BY <2>1 DEF Judged, Claim
  <2>3. QED
    BY <1>4, <2>2
<1>6. ~RegistryHit(c, items, examined) /\ examined = DOMAIN items
  BY <1>2, <1>5 DEF RoundVerdicts
<1>7. \A i \in DOMAIN items : ~DuplicateEvidence(items[i], c)
  BY <1>6 DEF RegistryHit
<1>8. claims'[c].evidence = items
  BY <1>3, <1>4, JudgedType
<1>9. claims'[c].status = "RESOLVED"
  <2>1. verdict \in TerminalVerdicts
    BY <1>5 DEF TerminalVerdicts
  <2>2. Judged(claims[c], verdict, examined).status = "RESOLVED"
    BY <1>3, <2>1, JudgedLife
  <2>3. QED
    BY <1>4, <2>2
<1>10. QED
  BY <1>7, <1>8, <1>9 DEF ValidRound

(* A claim becomes VALID only by such a round.                             *)
LEMMA BecomesValid ==
    ASSUME TypeOK, [Next]_vars, NEW c \in DOMAIN claims', claims'[c].verdict = "VALID"
    PROVE  /\ c \in DOMAIN claims
           /\ claims[c].verdict = "VALID" \/ ValidRound(c)
<1>0. \A b \in DOMAIN claims : claims[b] \in Claim
  BY ClaimType
<1>1. CASE UNCHANGED ledgerVars
  BY <1>1 DEF ledgerVars
<1>2. ASSUME NEW s \in Accounts, NEW p \in DOMAIN policies,
             NEW r \in References, NEW ok \in AdmissionOutcomes,
             NEW batch \in Batches(1), SubmitClaim(s, p, r, ok, batch)
      PROVE  c \in DOMAIN claims /\ claims[c].verdict = "VALID"
  <2>1. PICK items : items = Committed(batch, commitment_count)
    OBVIOUS
  <2>2. /\ DOMAIN claims' = 1..Len(claims) + 1
        /\ \A b \in DOMAIN claims : claims'[b] = claims[b]
        /\ claims'[Len(claims) + 1] = NewClaim(s, p, r, ok, items)
    BY <1>2, <2>1, Submitted
  <2>3. NewClaim(s, p, r, ok, items).verdict = ""
    BY DEF NewClaim
  <2>4. DOMAIN claims = 1..Len(claims) /\ Len(claims) \in Nat
    BY LenProperties DEF TypeOK
  <2>5. c # Len(claims) + 1
    BY <2>2, <2>3
  <2>6. QED
    BY <2>2, <2>4, <2>5
<1>3. ASSUME NEW b \in DOMAIN claims, RejectAtAdmission(b)
      PROVE  c \in DOMAIN claims /\ claims[c].verdict = "VALID"
  <2>1. Judged(claims[b], "REJECTED", {}).verdict = "REJECTED"
    BY <1>0 DEF Judged, Claim
  <2>2. claims' = [claims EXCEPT ![b] = Judged(claims[b], "REJECTED", {})]
    BY <1>3 DEF RejectAtAdmission
  <2>3. QED
    BY <2>1, <2>2
<1>4. ASSUME NEW b \in DOMAIN claims, AdjudicateRound(b)
      PROVE  c \in DOMAIN claims /\ (claims[c].verdict = "VALID" \/ ValidRound(c))
  <2>1. PICK judged : claims' = [claims EXCEPT ![b] = judged]
    BY <1>4, Adjudicated
  <2>2. CASE c = b
    BY <1>4, <2>2, AdjudicatedValid
  <2>3. CASE c # b
    BY <2>1, <2>3
  <2>4. QED
    BY <2>2, <2>3
<1>5. ASSUME NEW s \in Accounts, NEW b \in DOMAIN claims,
             NEW moves \in Moves(claims[b].evidence), NEW batch \in Batches(0),
             RetryClaim(s, b, moves, batch)
      PROVE  c \in DOMAIN claims /\ claims[c].verdict = "VALID"
  <2>1. PICK items : claims' = [claims EXCEPT ![b] = Retried(claims[b], items)]
    BY <1>5, RetriedClaim
  <2>2. Retried(claims[b], items).verdict = claims[b].verdict
    BY <1>0 DEF Retried, Claim
  <2>3. QED
    BY <2>1, <2>2
<1>6. ASSUME NEW s \in Accounts, NEW b \in DOMAIN claims, CancelClaim(s, b)
      PROVE  c \in DOMAIN claims /\ claims[c].verdict = "VALID"
  <2>1. claims' = [claims EXCEPT ![b] = Cancelled(claims[b])]
    BY <1>6 DEF CancelClaim
  <2>2. Cancelled(claims[b]).verdict = claims[b].verdict
    BY <1>0 DEF Cancelled, Claim
  <2>3. QED
    BY <2>1, <2>2
<1>7. UNCHANGED vars => UNCHANGED ledgerVars
  BY DEF vars
<1>8. QED
  BY <1>1, <1>2, <1>3, <1>4, <1>5, <1>6, <1>7 DEF Next, ClaimNext, ResolveClaim

LEMMA BackedStays ==
    ASSUME TypeOK, RegistrySupport, [Next]_vars, NEW c \in DOMAIN claims,
           claims'[c].claimant = claims[c].claimant,
           NEW item, item.sha256 \in Documents, Backed(c, item)
    PROVE  Backed(c, item)'
<1>1. PICK first : first = evidence_registry[item.sha256]
  OBVIOUS
<1>2. first \in DOMAIN claims /\ first # NoClaim
  BY <1>1, ClaimType DEF Backed
<1>3. evidence_registry'[item.sha256] = first /\ first \in DOMAIN claims'
  BY <1>1, <1>2, FirstWriterStays, ConcludedStays
<1>4. CASE first = c
  BY <1>3, <1>4 DEF Backed
<1>5. CASE WithdrawnUnjudged(claims[first], claims[c].claimant)
  <2>1. claims'[first] = claims[first]
    BY <1>2, <1>5, ConcludedStays DEF WithdrawnUnjudged
  <2>2. WithdrawnUnjudged(claims'[first], claims'[c].claimant)
    BY <1>5, <2>1
  <2>3. QED
    BY <1>3, <2>2 DEF Backed, WithdrawnUnjudged
<1>6. CASE /\ item.kind = "OWNERSHIP_RECORD"
           /\ CommittedAs(claims[first], item.sha256, "OWNERSHIP_RECORD")
  <2>1. Extends(claims'[first].evidence, claims[first].evidence)
    BY <1>2, EvidenceExtends
  <2>2. CommittedAs(claims'[first], item.sha256, "OWNERSHIP_RECORD")
    BY <1>6, <2>1 DEF CommittedAs, Extends, SameDocument
  <2>3. QED
    BY <1>3, <1>6, <2>2 DEF Backed, CommittedAs
<1>7. QED
  BY <1>1, <1>4, <1>5, <1>6 DEF Backed

LEMMA ClaimantStays ==
    ASSUME TypeOK, [Next]_vars, NEW c \in DOMAIN claims
    PROVE  c \in DOMAIN claims' /\ claims'[c].claimant = claims[c].claimant
<1>1. c \in DOMAIN claims' /\ claims[c] \in Claim
  BY ConcludedStays, ClaimType
<1>2. CASE Resolving(c)
  <2>1. PICK verdict, examined : claims'[c] = Judged(claims[c], verdict, examined)
    BY <1>2 DEF Resolving
  <2>2. Judged(claims[c], verdict, examined).claimant = claims[c].claimant
    BY <1>1 DEF Judged, Claim
  <2>3. QED
    BY <1>1, <2>1, <2>2
<1>3. CASE Retrying(c)
  BY <1>1, <1>3 DEF Retrying, Retried, Claim
<1>4. CASE claims'[c] = Cancelled(claims[c])
  BY <1>1, <1>4 DEF Cancelled, Claim
<1>5. QED
  BY <1>1, <1>2, <1>3, <1>4, LifeStep

(* What ValidRound leaves unsaid: whoever committed the bytes first is a   *)
(* claim, so a document that met no conflict is backed.                    *)
LEMMA RoundIsBacked ==
    ASSUME TypeOK, FirstInv, NEW c \in DOMAIN claims,
           NEW i \in DOMAIN claims[c].evidence,
           ~DuplicateEvidence(claims[c].evidence[i], c)
    PROVE  /\ claims[c].evidence[i].sha256 \in Documents
           /\ Backed(c, claims[c].evidence[i])
<1>1. PICK item \in EvidenceItem : item = claims[c].evidence[i]
  BY EvidenceType, ElementOfSeq, LenProperties
<1>2. PICK first : first = evidence_registry[item.sha256]
  OBVIOUS
<1>3. item.sha256 \in Documents
  BY <1>1 DEF EvidenceItem
<1>4. FirstHolds(claims, first, item.sha256)
  BY <1>2, <1>3 DEF FirstInv
<1>5. first \in DOMAIN claims
  BY <1>1, <1>4 DEF FirstHolds, HoldsBy
<1>6. first # NoClaim
  BY <1>5, ClaimType
<1>7. QED
  BY <1>1, <1>2, <1>3, <1>5, <1>6 DEF Backed, DuplicateEvidence, RegistryConflict

LEMMA ValidIsBackedStep ==
    ASSUME TypeOK, RegistrySupport, FirstInv, ValidIsBacked, [Next]_vars
    PROVE  ValidIsBacked'
<1>1. ASSUME NEW c \in DOMAIN claims', claims'[c].verdict = "VALID"
      PROVE  /\ claims'[c].status = "RESOLVED"
             /\ \A i \in DOMAIN claims'[c].evidence :
                   Backed(c, claims[c].evidence[i])'
  <2>1. c \in DOMAIN claims /\ (claims[c].verdict = "VALID" \/ ValidRound(c))
    BY <1>1, BecomesValid
  <2>2. claims'[c].status = "RESOLVED" /\ claims'[c].evidence = claims[c].evidence
    BY <2>1, ConcludedStays DEF ValidIsBacked, ValidRound
  <2>3. ASSUME NEW i \in DOMAIN claims'[c].evidence
        PROVE  Backed(c, claims[c].evidence[i])'
    <3>1. PICK item : item = claims[c].evidence[i] /\ item = claims'[c].evidence[i]
      BY <2>2
    <3>2. i \in DOMAIN claims[c].evidence
      BY <2>2, <2>3
    <3>3. item.sha256 \in Documents
      <4>1. claims[c].evidence \in Seq(EvidenceItem)
        BY <2>1, EvidenceType
      <4>2. item \in EvidenceItem
        BY <3>1, <3>2, <4>1, ElementOfSeq, LenProperties
      <4>3. QED
        BY <4>2 DEF EvidenceItem
    <3>4. Backed(c, item)
      BY <2>1, <3>1, <3>2, RoundIsBacked DEF ValidIsBacked, ValidRound
    <3>5. Backed(c, item)'
      BY <2>1, <3>3, <3>4, BackedStays, ClaimantStays
    <3>6. QED
      BY <3>1, <3>5 DEF Backed
  <2>4. QED
    BY <2>2, <2>3
<1>2. QED
  BY <1>1 DEF ValidIsBacked

LEMMA BackedApart ==
    ASSUME TypeOK, ValidIsBacked PROVE BytesServeOneClaimant
<1>1. ASSUME NEW c \in DOMAIN claims, NEW sha256, VouchesFor(c, sha256)
      PROVE  LET first == evidence_registry[sha256]
             IN \/ first = c
                \/ WithdrawnUnjudged(claims[first], claims[c].claimant)
                \/ /\ CommittedAs(claims[c], sha256, "OWNERSHIP_RECORD")
                   /\ CommittedAs(claims[first], sha256, "OWNERSHIP_RECORD")
  <2>1. PICK i \in DOMAIN claims[c].evidence : claims[c].evidence[i].sha256 = sha256
    BY <1>1 DEF VouchesFor
  <2>2. Backed(c, claims[c].evidence[i])
    BY <1>1 DEF VouchesFor, ValidIsBacked
  <2>3. QED
    BY <2>1, <2>2 DEF Backed, CommittedAs
<1>2. QED
  BY <1>1 DEF BytesServeOneClaimant, WithdrawnUnjudged

(* The same bytes make two claimants' claims VALID only as an ownership    *)
(* record: a VALID claim's round met no duplicate, and whoever committed   *)
(* its bytes first cannot change what excused them.                        *)
THEOREM BytesServeOne == Spec => []BytesServeOneClaimant
<1>1. Init => ValidIsBacked /\ FirstInv
  BY DEF Init, LedgerInit, ValidIsBacked, FirstInv, FirstHolds, HoldsBy
<1>2. TypeOK /\ TypeOK' /\ RegistrySupport /\ FirstInv /\ [Next]_vars => FirstInv'
  BY FirstInvStep
<1>3. TypeOK /\ RegistrySupport /\ FirstInv /\ ValidIsBacked /\ [Next]_vars
         => ValidIsBacked'
  BY ValidIsBackedStep
<1>4. TypeOK /\ ValidIsBacked => BytesServeOneClaimant
  BY BackedApart
<1>5. QED
  BY <1>1, <1>2, <1>3, <1>4, TypeCorrect, RegistrySupported, PTL DEF Spec

===============================================================================
