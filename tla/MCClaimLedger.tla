----------------------------- MODULE MCClaimLedger -----------------------------
(* Instances of ClaimLedger for TLC.  Documents i1 and i2 are two editions *)
(* of one invoice (same issuer and number, different bytes); t is a text,  *)
(* x an unreadable file.  Each document is offered under the kinds and at  *)
(* the locations its run needs.                                            *)
EXTENDS ClaimPromise, TLC

CONSTANTS i1, i2, t, x, u1, u2, u3, n1

MCContent ==
    [d \in Documents |->
        [type |-> CASE d \in {i1, i2} -> "INVOICE"
                    [] d = t -> "TEXT"
                    [] OTHER -> "UNREADABLE",
         number |-> n1]]

As(kind, url, sha256) == [kind |-> kind, url |-> url, sha256 |-> sha256]

\* Two editions of an invoice.
EditionEntries == {As("INVOICE", u1, i1), As("INVOICE", u2, i2)}

\* A text, also offered as an ownership record, and the two editions.
ReuseEntries == {As("PHOTO_LOG", u1, t), As("OWNERSHIP_RECORD", u1, t),
                 As("INVOICE", u2, i1), As("INVOICE", u3, i2)}

\* One text, offered by one claimant.
TextEntries == {As("PHOTO_LOG", u1, t)}

\* An invoice that can move, a text added late, a file that is unreadable.
LifeEntries == {As("INVOICE", u1, i1), As("INVOICE", u2, i1),
                As("PHOTO_LOG", u3, t), As("PHOTO_LOG", u3, x)}

Terms(cooldown, validity, most) ==
    {[retry_cooldown |-> cooldown, receipt_validity |-> validity,
      minimum_evidence |-> 1, maximum_evidence |-> most]}

BriefTerms == Terms(1, 1, 1)
LifeTerms == Terms(1, 1, 2)

Symmetry == Permutations(Accounts) \union Permutations(References)
===============================================================================
