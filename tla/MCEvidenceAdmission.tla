-------------------------- MODULE MCEvidenceAdmission --------------------------
(* Three documents, three locations, two kinds, at most two documents in a *)
(* claim: calls of up to three entries reach every branch of the loop.     *)
EXTENDS EvidenceAdmission, TLC

MCDefinition == [minimum_evidence |-> 1, maximum_evidence |-> 2]

MCEntries == [kind: {"INVOICE", "PHOTO_LOG"}, url: Urls, sha256: Documents]

MCSymmetry == Permutations(Documents) \union Permutations(Urls)
===============================================================================
