--------------------------- MODULE MCPolicyVersions ---------------------------
(* A small instance of PolicyVersions for TLC: two owners, two sets of     *)
(* terms, two policies of two versions each, three clock values.           *)
EXTENDS PolicyVersions, TLC, FiniteSets

MCDefinitions ==
    [retry_cooldown: {1}, receipt_validity: {1, 2},
     minimum_evidence: {1}, maximum_evidence: {1}]

AccountSymmetry == Permutations(Accounts)

===============================================================================
