--------------------------- MODULE EvidenceAdmission ---------------------------
(***************************************************************************)
(* The loop of _evidence_error, one entry per step: each entry relocates   *)
(* the committed document with its sha256 or is appended, then the finished*)
(* list is checked for repeated locations and the policy's bounds.  Calls  *)
(* follow each other on the list the last accepted call left, as the       *)
(* submission and the retries of one claim do.  The module shows that the  *)
(* loop computes exactly the amendments of module Evidence.                *)
(***************************************************************************)
EXTENDS Evidence, FiniteSets

CONSTANTS
    Definition,     \* the policy's evidence bounds
    CallEntries     \* bound: the entries a caller may pass
ASSUME BoundsAreOrdered ==
    /\ Definition \in [minimum_evidence: Nat, maximum_evidence: Nat]
    /\ Definition.minimum_evidence <= Definition.maximum_evidence
    /\ CallEntries \subseteq Entry

VARIABLES
    existing,       \* the committed list before the call
    entries,        \* the call's arguments
    next,           \* the loop index i
    items,          \* the working copy
    touched,        \* indices of items carrying _touched
    outcome         \* "idle", "looping", "error" or "accepted"

admissionVars == <<existing, entries, next, items, touched, outcome>>

-------------------------------------------------------------------------------
Init ==
    /\ existing = <<>> /\ entries = <<>> /\ items = <<>>
    /\ next = 1 /\ touched = {} /\ outcome = "idle"

\* submit_claim passes no committed list; retry_claim passes the claim's own.
MinimumApplies == existing = <<>>

\* Mutant: a call starts from an empty list and replaces the committed one.
Call_FromScratch(args) ==
    /\ outcome = "idle"
    /\ entries' = args
    /\ items' = <<>>
    /\ next' = 1 /\ touched' = {} /\ outcome' = "looping"
    /\ UNCHANGED existing

Call(args) ==
    /\ outcome = "idle"
    /\ entries' = args
    /\ items' = existing
    /\ next' = 1 /\ touched' = {} /\ outcome' = "looping"
    /\ UNCHANGED existing

\* Mutant: a document is recognised by its bytes and its declared kind.
Matches_KindToo(entry) ==
    {i \in DOMAIN items : /\ items[i].sha256 = entry.sha256
                          /\ items[i].kind = entry.kind}

Matches(entry) == {i \in DOMAIN items : items[i].sha256 = entry.sha256}

Fail ==
    /\ outcome' = "error"
    /\ UNCHANGED <<existing, entries, next, items, touched>>

\* The same document twice in one call, or a relocation under another kind.
RejectEntry(entry) ==
    /\ \E i \in Matches(entry) :
          i \in touched \/ items[i].kind # entry.kind
    /\ Fail

Relocate(entry) ==
    \E i \in Matches(entry) :
        /\ i \notin touched /\ items[i].kind = entry.kind
        /\ items' = [items EXCEPT ![i].url = entry.url]
        /\ touched' = touched \union {i}
        /\ next' = next + 1
        /\ UNCHANGED <<existing, entries, outcome>>

AppendEntry(entry) ==
    /\ Matches(entry) = {}
    /\ items' = Append(items, entry)
    /\ touched' = touched \union {Len(items) + 1}
    /\ next' = next + 1
    /\ UNCHANGED <<existing, entries, outcome>>

Step ==
    /\ outcome = "looping" /\ next <= Len(entries)
    /\ \/ RejectEntry(entries[next])
       \/ Relocate(entries[next])
       \/ AppendEntry(entries[next])

\* Mutant: only the locations this call names are compared.
LocationsDistinct_ThisCall ==
    \A i, j \in touched : i # j => items[i].url # items[j].url

LocationsDistinct ==
    \A i, j \in DOMAIN items : i # j => items[i].url # items[j].url

Finish ==
    /\ outcome = "looping" /\ next > Len(entries)
    /\ outcome' = IF /\ LocationsDistinct
                     /\ WithinPolicy(items, Definition, MinimumApplies)
                  THEN "accepted" ELSE "error"
    /\ UNCHANGED <<existing, entries, next, items, touched>>

\* The caller stores the list of an accepted call; an error reverts.
Return ==
    /\ outcome \in {"accepted", "error"}
    /\ existing' = IF outcome = "accepted" THEN items ELSE existing
    /\ outcome' = "idle"
    /\ entries' = <<>> /\ items' = <<>> /\ next' = 1 /\ touched' = {}

\* One entry more than the policy's maximum is enough to overrun it.
Next ==
    \/ \E n \in 0..Definition.maximum_evidence + 1 :
          \E args \in [1..n -> CallEntries] : Call(args)
    \/ Step
    \/ Finish
    \/ Return

Spec == Init /\ [][Next]_admissionVars

-------------------------------------------------------------------------------
\* The call read as an amendment of `existing`.
Carries(sha256) == \E i \in DOMAIN existing : existing[i].sha256 = sha256

Moves ==
    LET moved == {i \in DOMAIN existing :
                    \E k \in DOMAIN entries :
                        entries[k].sha256 = existing[i].sha256}
    IN [i \in moved |->
           entries[CHOOSE k \in DOMAIN entries :
                       entries[k].sha256 = existing[i].sha256].url]

New == {k \in DOMAIN entries : ~Carries(entries[k].sha256)}

\* The place of a new document among those of the call.
Place(k) == Cardinality({j \in New : j <= k})

Additions ==
    [n \in 1..Cardinality(New) |-> entries[CHOOSE k \in New : Place(k) = n]]

Amendment == Relocated(existing, Moves) \o Additions

AmendmentAcceptable ==
    /\ \A j, k \in DOMAIN entries :
          j # k => entries[j].sha256 # entries[k].sha256
    /\ \A k \in DOMAIN entries, i \in DOMAIN existing :
          entries[k].sha256 = existing[i].sha256
              => entries[k].kind = existing[i].kind
    /\ Acceptable(Amendment, Definition, MinimumApplies)

(* The loop accepts exactly the calls that are an acceptable amendment and *)
(* returns that amendment, whatever the order in which a call mixes moves  *)
(* and additions, swaps two locations, or moves a document onto a location *)
(* another entry vacates later in the same call.                           *)
LoopIsAmendment ==
    /\ outcome = "accepted" => AmendmentAcceptable /\ items = Amendment
    /\ outcome = "error" => ~AmendmentAcceptable

(* No accepted call drops, relabels or reorders a committed document: the  *)
(* promise of retry_claim's docstring that a finding cannot be erased by   *)
(* dropping the evidence that produced it.                                 *)
NothingWithdrawn ==
    [][\A i \in DOMAIN existing :
          /\ i \in DOMAIN existing'
          /\ existing'[i].sha256 = existing[i].sha256
          /\ existing'[i].kind = existing[i].kind]_admissionVars

\* The committed list never repeats a document or a location.
CommittedDistinct == NoRepeats(existing)
===============================================================================
