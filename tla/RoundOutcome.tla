----------------------------- MODULE RoundOutcome -----------------------------
(***************************************************************************)
(* What the ledger may assume of a ratified round.  The ledger does not    *)
(* look inside a round: it takes any verdict RoundVerdicts allows for the  *)
(* documents that were examined.  Module ResolutionRound, which models the *)
(* inside, shows that the derivation never leaves this range.              *)
(***************************************************************************)

Verdicts == {"VALID", "SUSPICIOUS", "INCONCLUSIVE", "UNAVAILABLE", "REJECTED"}

TerminalVerdicts == {"VALID", "SUSPICIOUS", "REJECTED"}

(* `documents` are the committed indices, `readable` those whose bytes can *)
(* be examined at all, `examined` those that were.  A readable document is *)
(* missed only because it was unreachable or changed.                      *)
RoundVerdicts(documents, readable, examined) ==
    IF examined = documents
    THEN {"VALID", "SUSPICIOUS", "INCONCLUSIVE", "REJECTED"}
    ELSE (IF examined = {} THEN {} ELSE {"SUSPICIOUS"})
         \union {"UNAVAILABLE"}
         \union (IF readable \subseteq examined THEN {"INCONCLUSIVE"} ELSE {})
===============================================================================
