---------------------------- MODULE PolicyVersions ----------------------------
(***************************************************************************)
(* The policy register of InsureShield: create_policy, publish_policy_-    *)
(* version and revoke_policy_version over the storage map `policies`,      *)
(* keyed by policy and version.  A policy is the sequence of its versions, *)
(* so policy_heads[p] is the length of policies[p] and policy_count is the *)
(* length of policies.                                                     *)
(*                                                                         *)
(* Every transaction reads one clock value (_now); several transactions    *)
(* may carry the same value, so the clock advances by an action of its     *)
(* own.  A call whose guard fails reverts, which is a stuttering step.     *)
(***************************************************************************)
EXTENDS Naturals, Sequences

CONSTANTS
    Accounts,       \* addresses that send transactions
    Definitions,    \* validated policy definitions (see DefinitionFields)
    MAX_VERSIONS,   \* versions a policy may have (8 in the code)
    MaxPolicies,    \* bound: create_policy calls explored
    MaxTime         \* bound: the last clock value explored

(* What the storage logic reads of a definition.  The rest of a definition *)
(* (criteria, exclusions, amounts, dates) only matters inside a round.     *)
DefinitionFields == [retry_cooldown: Nat, receipt_validity: Nat,
                     minimum_evidence: Nat, maximum_evidence: Nat]

ASSUME PolicyConstants ==
    /\ Definitions \subseteq DefinitionFields
    /\ MAX_VERSIONS \in Nat
    /\ MaxPolicies \in Nat
    /\ MaxTime \in Nat

VARIABLES
    now,        \* the transaction clock
    policies    \* policies[p][v] is version v of policy p

policyVars == <<now, policies>>

-------------------------------------------------------------------------------
Time == 1..MaxTime

\* The empty string the code stores for an instant that has not come.
Never == 0

PolicyStatus == {"ACTIVE", "SUPERSEDED", "REVOKED"}

PolicyVersion == [owner: Accounts, status: PolicyStatus,
                  definition: Definitions,
                  created_at: Nat, closed_at: Nat]

PolicyTypeOK ==
    /\ now \in Nat \ {Never}
    /\ policies \in Seq(Seq(PolicyVersion))
    /\ \A p \in DOMAIN policies : Len(policies[p]) > 0

PolicyHead(p) == Len(policies[p])

Latest(p) == policies[p][PolicyHead(p)]

\* The hash covers policy, version, owner and definition: an injective value.
DefinitionHash(p, v) ==
    <<p, v, policies[p][v].owner, policies[p][v].definition>>

NewVersion(owner, definition) ==
    [owner |-> owner, status |-> "ACTIVE", definition |-> definition,
     created_at |-> now, closed_at |-> Never]

-------------------------------------------------------------------------------
PolicyInit ==
    /\ now = 1
    /\ policies = <<>>

\* Mutant: the policy is registered without its first version.
CreatePolicy_NoVersion(sender, definition) ==
    /\ Len(policies) < MaxPolicies
    /\ policies' = Append(policies, <<>>)
    /\ UNCHANGED now

CreatePolicy(sender, definition) ==
    /\ Len(policies) < MaxPolicies
    /\ policies' = Append(policies, <<NewVersion(sender, definition)>>)
    /\ UNCHANGED now

\* Mutant: the predecessor is not closed.
Superseded_Open(pv) == pv

\* Mutant: a revoked predecessor is superseded like an active one.
Superseded_Revived(pv) ==
    [pv EXCEPT !.status = "SUPERSEDED", !.closed_at = now]

(* A revoked latest version stays revoked when a successor is published;   *)
(* only an ACTIVE one is superseded.                                       *)
Superseded(pv) ==
    IF pv.status = "ACTIVE"
    THEN [pv EXCEPT !.status = "SUPERSEDED", !.closed_at = now]
    ELSE pv

LatestClosed(p) ==
    [policies[p] EXCEPT ![PolicyHead(p)] = Superseded(Latest(p))]

PublishPolicyVersion(sender, p, definition) ==
    /\ sender = Latest(p).owner
    /\ PolicyHead(p) < MAX_VERSIONS
    /\ policies' = [policies EXCEPT ![p] =
           Append(LatestClosed(p), NewVersion(sender, definition))]
    /\ UNCHANGED now

Revoked(pv) == [pv EXCEPT !.status = "REVOKED", !.closed_at = now]

\* Mutant: a revoked version can be revoked again.
RevokePolicyVersion_Again(sender, p, v) ==
    /\ sender = policies[p][v].owner
    /\ policies' = [policies EXCEPT ![p][v] = Revoked(@)]
    /\ UNCHANGED now

\* Any version may be revoked, also a superseded one: closed_at is restamped.
RevokePolicyVersion(sender, p, v) ==
    /\ sender = policies[p][v].owner
    /\ policies[p][v].status # "REVOKED"
    /\ policies' = [policies EXCEPT ![p][v] = Revoked(@)]
    /\ UNCHANGED now

Tick ==
    /\ now < MaxTime
    /\ now' = now + 1
    /\ UNCHANGED policies

PolicyNext ==
    \/ \E s \in Accounts, d \in Definitions : CreatePolicy(s, d)
    \/ \E s \in Accounts, p \in DOMAIN policies, d \in Definitions :
           PublishPolicyVersion(s, p, d)
    \/ \E s \in Accounts, p \in DOMAIN policies :
           \E v \in DOMAIN policies[p] : RevokePolicyVersion(s, p, v)
    \/ Tick

PolicySpec == PolicyInit /\ [][PolicyNext]_policyVars

-------------------------------------------------------------------------------
(* The version history is one line of succession: every version but the    *)
(* latest is closed, every version of a policy has the same owner, and no  *)
(* version was created before its predecessor was left behind.  It is what *)
(* submit_claim relies on when it reads only the head to find the one      *)
(* ACTIVE version, and what owner checks against the latest version alone  *)
(* rely on.                                                                *)
SingleLineOfSuccession ==
    \A p \in DOMAIN policies : \A v, w \in DOMAIN policies[p] :
        v < w => /\ policies[p][v].status # "ACTIVE"
                 /\ policies[p][v].owner = policies[p][w].owner
                 /\ policies[p][v].created_at <= policies[p][w].created_at
                 /\ policies[p][v].status = "SUPERSEDED" =>
                        policies[p][v].closed_at = policies[p][v+1].created_at

(* What makes SingleLineOfSuccession inductive: the clock has passed every *)
(* creation date, so a new version is never older than its predecessors,   *)
(* and only publishing a successor supersedes a version.                   *)
SuccessionSupport ==
    \A p \in DOMAIN policies :
        /\ \A v \in DOMAIN policies[p] : policies[p][v].created_at <= now
        /\ Latest(p).status # "SUPERSEDED"

(* A version's life only moves forward, and its terms are frozen: owner,   *)
(* definition and creation date never change, ACTIVE is never re-entered,  *)
(* REVOKED is final, and a closing date never moves back.  The docstring   *)
(* of create_policy ("it never changes afterwards") and every claim bound  *)
(* to the version for life depend on it.                                   *)
VersionsOnlyClose ==
    [][\A p \in DOMAIN policies : \A v \in DOMAIN policies[p] :
          LET old == policies[p][v]
              new == policies'[p][v]
          IN /\ DefinitionHash(p, v) = DefinitionHash(p, v)'
             /\ old.created_at = new.created_at
             /\ old.closed_at <= new.closed_at
             /\ old.status # "ACTIVE" => new.status # "ACTIVE"
             /\ old.status = "REVOKED" => new = old]_policyVars
===============================================================================
