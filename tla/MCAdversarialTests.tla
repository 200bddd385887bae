-------------------------- MODULE MCAdversarialTests --------------------------
(* Instances of AdversarialTests for TLC: attacks that offer an edition of *)
(* the invoice the claims carry, or its first edition as an ownership      *)
(* record, beside claims over the two editions.                            *)
EXTENDS AdversarialTests, TLC

CONSTANTS i1, i2, u1, u2, n1

MCContent == [d \in Documents |-> [type |-> "INVOICE", number |-> n1]]

As(kind, url, sha256) == [kind |-> kind, url |-> url, sha256 |-> sha256]

MCEntries == {As("INVOICE", u1, i1), As("INVOICE", u2, i2)}

Attack(incident, evidence) == [evidence |-> evidence, incident |-> incident]

\* The first comes too late for the reporting window.
MCAttacks ==
    {Attack(0, <<As("INVOICE", u1, i1)>>),
     Attack(1, <<As("OWNERSHIP_RECORD", u1, i1), As("INVOICE", u2, i2)>>)}

MCExpectations == {[property |-> Verdicts \ {"VALID"},
                    indicator |-> "DUPLICATE_DOCUMENT"]}

MCTerms == {[retry_cooldown |-> 1, receipt_validity |-> 1,
             minimum_evidence |-> 1, maximum_evidence |-> 2]}

MCWindow == [d \in Definitions |-> 0]

AlwaysWithin(attack, definition) == TRUE

Symmetry == Permutations(Accounts)
===============================================================================
