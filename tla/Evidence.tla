------------------------------- MODULE Evidence -------------------------------
(***************************************************************************)
(* Evidence commitments: what a claim's evidence list is, and what one     *)
(* accepted call of submit_claim or retry_claim does to it.  A document is *)
(* the bytes a sha256 commits to; the URL only says where they are served. *)
(***************************************************************************)
EXTENDS Naturals, Sequences

CONSTANTS
    Documents,      \* byte strings, named by their sha256
    Urls            \* canonical https locations

EvidenceKinds == {"INVOICE", "REPAIR_ESTIMATE", "INCIDENT_REPORT",
                  "WITNESS_STATEMENT", "OWNERSHIP_RECORD", "PHOTO_LOG"}

StructuredKinds == {"INVOICE", "REPAIR_ESTIMATE"}

\* One evidence argument of a call.
Entry == [kind: EvidenceKinds, url: Urls, sha256: Documents]

\* One committed document: the E<n> of the code is its index in the list.
EvidenceItem == [kind: EvidenceKinds, url: Urls, sha256: Documents,
                 committed_seq: Nat]

-------------------------------------------------------------------------------
(* A call amends a list by relocating committed documents (`moves` gives   *)
(* new locations to some of its indices) and by appending new ones, which  *)
(* receive the next commitment sequence numbers.                           *)

Relocated(items, moves) ==
    [i \in DOMAIN items |->
        IF i \in DOMAIN moves THEN [items[i] EXCEPT !.url = moves[i]]
                              ELSE items[i]]

\* Mutant: every list numbers its own documents from 1.
Committed_OwnNumbering(entries, lastSeq) ==
    [i \in 1..Len(entries) |->
        [kind |-> entries[i].kind, url |-> entries[i].url,
         sha256 |-> entries[i].sha256, committed_seq |-> i]]

Committed(entries, lastSeq) ==
    [i \in 1..Len(entries) |->
        [kind |-> entries[i].kind, url |-> entries[i].url,
         sha256 |-> entries[i].sha256, committed_seq |-> lastSeq + i]]

\* Mutant: new documents are put in front of the committed ones.
Amended_InFront(items, moves, entries, lastSeq) ==
    Committed(entries, lastSeq) \o Relocated(items, moves)

Amended(items, moves, entries, lastSeq) ==
    Relocated(items, moves) \o Committed(entries, lastSeq)

\* No document and no location appears twice in one list.
NoRepeats(items) ==
    \A i, j \in DOMAIN items :
        i # j => /\ items[i].sha256 # items[j].sha256
                 /\ items[i].url # items[j].url

\* The minimum is only asked of a first submission.
WithinPolicy(items, definition, minimumApplies) ==
    /\ Len(items) <= definition.maximum_evidence
    /\ minimumApplies => Len(items) >= definition.minimum_evidence

Acceptable(items, definition, minimumApplies) ==
    NoRepeats(items) /\ WithinPolicy(items, definition, minimumApplies)

===============================================================================
